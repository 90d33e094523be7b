-------------------------- MODULE AlgorithmProofs --------------------------
(***************************************************************************)
(* Proofs about the pure algorithms of the program, which MCAlgorithms     *)
(* compares with their references: the report of FSCHECK and the time of   *)
(* its first run, the headers of HTTP, the message of a request and the    *)
(* reply of a DNS server, for any number of files, headers, calls, strings *)
(* and answers.  The first section has the induction and recursion over    *)
(* data that they need.                                                    *)
(***************************************************************************)
EXTENDS MCAlgorithms, SequenceTheorems, FiniteSetTheorems, WellFoundedInduction, TLAPS

-----------------------------------------------------------------------------
(* Induction and recursion over data                                       *)

\* A set of numbers has a least one.
LEMMA LeastNat ==
  ASSUME NEW T, T \subseteq Nat, T # {}
  PROVE  \E n \in T : \A m \in T : n <= m
<1> DEFINE R == {ss \in Nat \X Nat : ss[1] < ss[2]}
<1>1. IsWellFoundedOn(R, Nat)
  BY NatLessThanWellFounded, Zenon DEF OpToRel
<1>2. \E x \in T : \A y \in T : ~ (<<y, x>> \in R)
  <2> HIDE DEF R
  <2> QED BY <1>1, WFMin, Zenon
<1>3. PICK x \in T : \A y \in T : ~ (<<y, x>> \in R)
  BY <1>2
<1>4. \A y \in T : ~(y < x)
  <2> TAKE y \in T
  <2>1. <<y, x>> \notin R
    BY <1>3
  <2>2. <<y, x>> \in Nat \X Nat /\ <<y, x>>[1] = y /\ <<y, x>>[2] = x
    OBVIOUS
  <2> QED
    BY <2>1, <2>2
<1> QED
  BY <1>4

\* Induction: a set with 0 that has with each number the next has them all.
LEMMA SetInduction ==
  ASSUME NEW T, 0 \in T, \A n \in Nat : n \in T => n + 1 \in T
  PROVE  Nat \subseteq T
<1> SUFFICES ASSUME Nat \ T # {} PROVE FALSE
  OBVIOUS
<1>1. PICK n \in Nat \ T : \A m \in Nat \ T : n <= m
  BY LeastNat
<1>2. n # 0 /\ n - 1 \in Nat /\ n - 1 \in T
  BY <1>1
<1>3. (n - 1) + 1 \in T
  BY <1>2
<1> QED
  BY <1>1, <1>3

\* f starts at base and goes on by step.
Recurs(f, S, base, step) ==
  /\ f \in [Nat -> S]
  /\ f[0] = base
  /\ \A n \in Nat : f[n + 1] = step[<<n, f[n]>>]

\* Recursion: there is a function with a given start and a given step.
LEMMA Recursion ==
  ASSUME NEW S, NEW base \in S, NEW step \in [Nat \X S -> S]
  PROVE  \E f : Recurs(f, S, base, step)
<1> DEFINE Begins(g, n) == /\ g \in [Nat -> S] /\ g[0] = base
                           /\ \A k \in Nat : k < n => g[k + 1] = step[<<k, g[k]>>]
<1>1. \A n \in Nat : \E g : Begins(g, n)
  <2> DEFINE T == {n \in Nat : \E g : Begins(g, n)}
  <2>1. 0 \in T
    <3>1. Begins([k \in Nat |-> base], 0)
      OBVIOUS
    <3> QED BY <3>1
  <2>2. ASSUME NEW n \in Nat, n \in T PROVE n + 1 \in T
    <3>1. PICK g : Begins(g, n)
      BY <2>2
    <3> DEFINE h == [k \in Nat |-> IF k = n + 1 THEN step[<<n, g[n]>>] ELSE g[k]]
    <3>2. h \in [Nat -> S] /\ h[0] = base
      BY <3>1
    <3>3. ASSUME NEW k \in Nat, k < n + 1 PROVE h[k + 1] = step[<<k, h[k]>>]
      <4>1. CASE k = n
        BY <4>1
      <4>2. CASE k < n
        <5>1. h[k + 1] = g[k + 1] /\ h[k] = g[k]
          BY <4>2
        <5>2. g[k + 1] = step[<<k, g[k]>>]
          BY <3>1, <4>2
        <5> QED BY <5>1, <5>2
      <4> QED BY <3>3, <4>1, <4>2
    <3> HIDE DEF h
    <3>4. Begins(h, n + 1)
      BY <3>2, <3>3
    <3> QED BY <3>4
  <2> HIDE DEF T
  <2>3. Nat \subseteq T
    BY <2>1, <2>2, SetInduction
  <2> QED BY <2>3 DEF T
<1>2. ASSUME NEW n \in Nat, NEW m \in Nat, NEW g, NEW h, Begins(g, n), Begins(h, m),
             NEW k \in Nat, k <= n, k <= m
      PROVE  g[k] = h[k]
  <2> DEFINE T == {i \in Nat : i <= n /\ i <= m => g[i] = h[i]}
  <2>1. 0 \in T
    BY <1>2
  <2>2. ASSUME NEW i \in Nat, i \in T PROVE i + 1 \in T
    <3> SUFFICES ASSUME i + 1 <= n, i + 1 <= m PROVE g[i + 1] = h[i + 1]
      OBVIOUS
    <3>1. i < n /\ i < m /\ g[i] = h[i]
      BY <2>2
    <3>2. g[i + 1] = step[<<i, g[i]>>] /\ h[i + 1] = step[<<i, h[i]>>]
      BY <1>2, <3>1
    <3> QED BY <3>1, <3>2
  <2> HIDE DEF T
  <2>3. Nat \subseteq T
    BY <2>1, <2>2, SetInduction
  <2> QED BY <1>2, <2>3 DEF T
<1> DEFINE G(n) == CHOOSE g : Begins(g, n)
           f == [n \in Nat |-> G(n)[n]]
<1>3. ASSUME NEW n \in Nat PROVE Begins(G(n), n)
  <2> HIDE DEF Begins
  <2> QED BY <1>1, Zenon
<1> HIDE DEF G
<1>4. f \in [Nat -> S] /\ f[0] = base
  BY <1>3
<1>5. ASSUME NEW n \in Nat PROVE f[n + 1] = step[<<n, f[n]>>]
  <2>1. Begins(G(n), n) /\ Begins(G(n + 1), n + 1)
    BY <1>3
  <2>2. G(n)[n] = G(n + 1)[n]
    <3> HIDE DEF Begins
    <3> QED BY <1>2, <2>1
  <2>3. G(n + 1)[n + 1] = step[<<n, G(n + 1)[n]>>]
    BY <2>1
  <2> QED BY <2>2, <2>3
<1> QED
  <2> HIDE DEF f
  <2> QED BY <1>4, <1>5 DEF Recurs

\* If the recursion of FlattenSeq has a solution, its value is one's.
LEMMA FlattenIs ==
  ASSUME NEW seqs, Len(seqs) # 0,
         \E f : f = [i \in 1..Len(seqs) |-> IF i = 1 THEN seqs[i] ELSE f[i - 1] \o seqs[i]]
  PROVE  \E f : /\ f = [i \in 1..Len(seqs) |-> IF i = 1 THEN seqs[i] ELSE f[i - 1] \o seqs[i]]
                /\ FlattenSeq(seqs) = f[Len(seqs)]
<1> DEFINE P(f) == f = [i \in 1..Len(seqs) |-> IF i = 1 THEN seqs[i] ELSE f[i - 1] \o seqs[i]]
           g == CHOOSE f : P(f)
<1>1. P(g)
  <2> HIDE DEF P
  <2> SUFFICES \E f : P(f)
    BY Zenon
  <2> QED BY DEF P
<1>2. FlattenSeq(seqs) = g[Len(seqs)]
  BY Zenon DEF FlattenSeq
<1> QED
  BY <1>1, <1>2, Zenon

\* FlattenSeq puts the sequences one behind the other.
LEMMA Flattening ==
  ASSUME NEW E, NEW seqs \in Seq(Seq(E))
  PROVE  \E f \in [Nat -> Seq(E)] :
           /\ f[0] = <<>>
           /\ \A n \in 1..Len(seqs) : f[n] = f[n - 1] \o seqs[n]
           /\ FlattenSeq(seqs) = f[Len(seqs)]
<1> DEFINE step == [p \in Nat \X Seq(E) |->
                      IF p[1] + 1 <= Len(seqs) THEN p[2] \o seqs[p[1] + 1] ELSE p[2]]
<1>1. step \in [Nat \X Seq(E) -> Seq(E)]
  <2> SUFFICES ASSUME NEW p \in Nat \X Seq(E) PROVE step[p] \in Seq(E)
    OBVIOUS
  <2>1. p[1] \in Nat /\ p[2] \in Seq(E)
    OBVIOUS
  <2>2. CASE p[1] + 1 <= Len(seqs)
    <3>1. seqs[p[1] + 1] \in Seq(E)
      BY <2>1, <2>2
    <3> QED BY <2>1, <2>2, <3>1
  <2>3. CASE ~(p[1] + 1 <= Len(seqs))
    BY <2>1, <2>3
  <2> QED BY <2>2, <2>3
<1>2. <<>> \in Seq(E)
  OBVIOUS
<1>3. PICK f \in [Nat -> Seq(E)] : /\ f[0] = <<>>
                                   /\ \A n \in Nat : f[n + 1] = step[<<n, f[n]>>]
  <2> HIDE DEF step
  <2>1. \E f : Recurs(f, Seq(E), <<>>, step)
    BY <1>1, <1>2, Recursion
  <2> QED BY <2>1 DEF Recurs
<1>4. ASSUME NEW n \in 1..Len(seqs) PROVE f[n] = f[n - 1] \o seqs[n]
  <2>1. n - 1 \in Nat /\ (n - 1) + 1 = n /\ f[n - 1] \in Seq(E) /\ n <= Len(seqs)
    OBVIOUS
  <2>2. f[n] = step[<<n - 1, f[n - 1]>>]
    BY <1>3, <2>1
  <2>3. <<n - 1, f[n - 1]>> \in Nat \X Seq(E)
    BY <2>1
  <2> QED BY <2>1, <2>2, <2>3
<1>5. FlattenSeq(seqs) = f[Len(seqs)]
  <2>1. CASE Len(seqs) = 0
    <3>1. seqs = <<>>
      BY <2>1, EmptySeq
    <3> QED BY <1>3, <2>1, <3>1 DEF FlattenSeq
  <2>2. CASE Len(seqs) # 0
    <3> DEFINE g == [i \in 1..Len(seqs) |-> f[i]]
    <3>1. \A i \in 1..Len(seqs) : f[i] = IF i = 1 THEN seqs[i] ELSE g[i - 1] \o seqs[i]
      <4> SUFFICES ASSUME NEW i \in 1..Len(seqs)
                   PROVE  f[i] = IF i = 1 THEN seqs[i] ELSE g[i - 1] \o seqs[i]
        OBVIOUS
      <4>1. CASE i = 1
        <5>1. seqs[1] \in Seq(E) /\ f[1] = f[0] \o seqs[1]
          <6>1. 1 \in 1..Len(seqs) /\ 1 - 1 = 0
            BY <4>1
          <6>2. f[1] = f[1 - 1] \o seqs[1]
            BY <1>4, <6>1
          <6> QED BY <6>1, <6>2
        <5>2. <<>> \o seqs[1] = seqs[1]
          BY <5>1
        <5> QED BY <1>3, <4>1, <5>1, <5>2
      <4>2. CASE i # 1
        <5>1. g[i - 1] = f[i - 1]
          BY <4>2
        <5> QED BY <1>4, <4>2, <5>1
      <4> QED BY <4>1, <4>2
    <3>2. \E h : h = [i \in 1..Len(seqs) |-> IF i = 1 THEN seqs[i] ELSE h[i - 1] \o seqs[i]]
      <4>1. g = [i \in 1..Len(seqs) |-> IF i = 1 THEN seqs[i] ELSE g[i - 1] \o seqs[i]]
        BY <3>1
      <4> HIDE DEF g
      <4> QED BY <4>1
    <3>3. PICK h : /\ h = [i \in 1..Len(seqs) |-> IF i = 1 THEN seqs[i] ELSE h[i - 1] \o seqs[i]]
                   /\ FlattenSeq(seqs) = h[Len(seqs)]
      BY <2>2, <3>2, FlattenIs
    <3> DEFINE T == {k \in Nat : k + 1 \in 1..Len(seqs) => h[k + 1] = f[k + 1]}
    <3>4. 0 \in T
      <4> SUFFICES ASSUME 1 \in 1..Len(seqs) PROVE h[1] = f[1]
        OBVIOUS
      <4>1. h[1] = seqs[1]
        BY <3>3
      <4>2. f[1] = seqs[1]
        BY <3>1
      <4> QED BY <4>1, <4>2
    <3>5. ASSUME NEW k \in Nat, k \in T PROVE k + 1 \in T
      <4> SUFFICES ASSUME (k + 1) + 1 \in 1..Len(seqs) PROVE h[(k + 1) + 1] = f[(k + 1) + 1]
        OBVIOUS
      <4>1. h[k + 1] = f[k + 1] /\ k + 1 \in 1..Len(seqs)
        BY <3>5
      <4>2. ((k + 1) + 1) - 1 = k + 1 /\ (k + 1) + 1 # 1
        OBVIOUS
      <4>3. h[(k + 1) + 1] = h[k + 1] \o seqs[(k + 1) + 1]
        BY <3>3, <4>2
      <4> QED BY <1>4, <4>1, <4>2, <4>3
    <3> HIDE DEF T
    <3>6. Nat \subseteq T
      BY <3>4, <3>5, SetInduction
    <3>7. Len(seqs) - 1 \in Nat /\ (Len(seqs) - 1) + 1 = Len(seqs) /\ Len(seqs) \in 1..Len(seqs)
      BY <2>2
    <3>8. Len(seqs) - 1 \in T
      BY <3>6, <3>7
    <3> QED BY <3>3, <3>7, <3>8 DEF T
  <2> QED BY <2>1, <2>2
<1> QED
  BY <1>3, <1>4, <1>5

\* A step for each of the elements of a sequence, one after the other.
Iterates(f, S, made, base, step) ==
  /\ f \in [0..Len(made) -> S]
  /\ f = [n \in 0..Len(made) |-> IF n = 0 THEN base ELSE step[<<f[n - 1], made[n]>>]]

\* A loop over any sequence has a result.
LEMMA Iteration ==
  ASSUME NEW C, NEW S, NEW made \in Seq(C), NEW base \in S, NEW step \in [S \X C -> S]
  PROVE  \E f : Iterates(f, S, made, base, step)
<1> DEFINE N == Len(made)
           next == [p \in Nat \X S |-> IF p[1] + 1 <= N THEN step[<<p[2], made[p[1] + 1]>>] ELSE p[2]]
<1>1. N \in Nat /\ \A i \in 1..N : made[i] \in C
  OBVIOUS
<1>2. next \in [Nat \X S -> S]
  <2> SUFFICES ASSUME NEW p \in Nat \X S PROVE next[p] \in S
    OBVIOUS
  <2>1. p[1] \in Nat /\ p[2] \in S
    OBVIOUS
  <2>2. CASE p[1] + 1 <= N
    <3>1. made[p[1] + 1] \in C
      BY <1>1, <2>1, <2>2
    <3> QED BY <2>1, <2>2, <3>1
  <2> QED BY <2>1, <2>2
<1>3. PICK g \in [Nat -> S] : g[0] = base /\ \A n \in Nat : g[n + 1] = next[<<n, g[n]>>]
  <2> HIDE DEF next
  <2>1. \E g : Recurs(g, S, base, next)
    BY <1>2, Recursion
  <2> QED BY <2>1 DEF Recurs
<1> DEFINE f == [n \in 0..N |-> g[n]]
<1>4. f \in [0..N -> S]
  BY <1>1
<1>5. ASSUME NEW n \in 0..N, n # 0 PROVE f[n] = step[<<f[n - 1], made[n]>>]
  <2>1. n - 1 \in Nat /\ (n - 1) + 1 = n /\ n <= N /\ n - 1 \in 0..N
    BY <1>1, <1>5
  <2>2. g[(n - 1) + 1] = next[<<n - 1, g[n - 1]>>]
    BY <1>3, <2>1
  <2>3. <<n - 1, g[n - 1]>> \in Nat \X S
    BY <2>1
  <2> QED BY <2>1, <2>2, <2>3
<1>6. f[0] = base
  BY <1>1, <1>3
<1>7. f = [n \in 0..N |-> IF n = 0 THEN base ELSE step[<<f[n - 1], made[n]>>]]
  <2>1. \A n \in 0..N : f[n] = IF n = 0 THEN base ELSE step[<<f[n - 1], made[n]>>]
    BY <1>5, <1>6
  <2>2. f = [n \in 0..N |-> f[n]]
    OBVIOUS
  <2> HIDE DEF f
  <2> QED BY <2>1, <2>2
<1> QED
  <2> HIDE DEF f
  <2> QED BY <1>4, <1>7 DEF Iterates

-----------------------------------------------------------------------------
(* CFSVerifier::Diff                                                       *)

\* What a sequence holds, and what it holds with one more.
Held(s) == {s[i] : i \in 1..Len(s)}

\* An element more.
LEMMA OneMore ==
  ASSUME NEW E, NEW s \in Seq(E), NEW e \in E
  PROVE  Held(s \o <<e>>) = Held(s) \cup {e} /\ Len(s \o <<e>>) = Len(s) + 1
<1> DEFINE t == s \o <<e>>
<1>1. t \in Seq(E) /\ Len(t) = Len(s) + 1 /\ Len(s) \in Nat
  OBVIOUS
<1>2. t[Len(s) + 1] = e /\ \A i \in 1..Len(s) : t[i] = s[i]
  OBVIOUS
<1> HIDE DEF t
<1>3. 1..Len(t) = (1..Len(s)) \cup {Len(s) + 1}
  BY <1>1
<1>4. Held(t) = Held(s) \cup {e}
  BY <1>2, <1>3 DEF Held
<1> QED BY <1>1, <1>4 DEF t

\* The paths of the first n records that are missing, or modified.
Missing(records, files, n) ==
  {records[i].path : i \in {k \in 1..n : records[k].path \notin DOMAIN files}}
Changed(records, files, n) ==
  {records[i].path : i \in {k \in 1..n : /\ records[k].path \in DOMAIN files
                                         /\ files[records[k].path] # records[k].hash}}
Reported(records, files, n) ==
  [path : Missing(records, files, n), type : {"DT_MISSING"}] \cup
  [path : Changed(records, files, n), type : {"DT_MODIFIED"}]

\* Each path is in one record, as Save writes them.
Distinct(records) ==
  \A i, k \in 1..Len(records) : records[i].path = records[k].path => i = k

\* What the n-th record adds to them: its path, to one of them or to none.
Adds(records, files, n) ==
  LET p == records[n].path
      M(k) == Missing(records, files, k)
      C(k) == Changed(records, files, k)
  IN  /\ p \notin M(n - 1) \cup C(n - 1)
      /\ p \notin DOMAIN files => M(n) = M(n - 1) \cup {p} /\ C(n) = C(n - 1)
      /\ p \in DOMAIN files /\ files[p] # records[n].hash => M(n) = M(n - 1) /\ C(n) = C(n - 1) \cup {p}
      /\ p \in DOMAIN files /\ files[p] = records[n].hash => M(n) = M(n - 1) /\ C(n) = C(n - 1)

\* A record adds its own path.
LEMMA RecordAdds ==
  ASSUME NEW P, NEW G, NEW records \in Seq([path : P, hash : G]), NEW files, Distinct(records),
         NEW n \in 1..Len(records)
  PROVE  records[n].path \in P /\ Adds(records, files, n)
<1> DEFINE p == records[n].path
<1>1. /\ p \in P /\ n - 1 \in Nat /\ n \notin 1..(n - 1)
      /\ 1..n = (1..(n - 1)) \cup {n} /\ 1..n \subseteq 1..Len(records)
  <2>1. records[n] \in [path : P, hash : G]
    BY ElementOfSeq
  <2>2. n \in Nat /\ Len(records) \in Nat /\ 1 <= n /\ n <= Len(records)
    OBVIOUS
  <2> HIDE DEF p
  <2>3. /\ n - 1 \in Nat /\ n \notin 1..(n - 1)
        /\ 1..n = (1..(n - 1)) \cup {n} /\ 1..n \subseteq 1..Len(records)
    BY <2>2
  <2> QED BY <2>1, <2>3 DEF p
<1>2. ASSUME NEW i \in 1..(n - 1) PROVE records[i].path # p
  <2>1. i \in 1..Len(records) /\ i # n
    BY <1>1
  <2> QED BY <2>1 DEF Distinct
<1> DEFINE MA(k) == {i \in 1..k : records[i].path \notin DOMAIN files}
           CA(k) == {i \in 1..k : /\ records[i].path \in DOMAIN files
                                  /\ files[records[i].path] # records[i].hash}
           of(I) == {records[i].path : i \in I}
<1>3. /\ p \notin of(MA(n - 1)) /\ p \notin of(CA(n - 1))
  BY <1>2
<1>4. /\ p \notin DOMAIN files => MA(n) = MA(n - 1) \cup {n} /\ CA(n) = CA(n - 1)
      /\ p \in DOMAIN files /\ files[p] # records[n].hash =>
           MA(n) = MA(n - 1) /\ CA(n) = CA(n - 1) \cup {n}
      /\ p \in DOMAIN files /\ files[p] = records[n].hash => MA(n) = MA(n - 1) /\ CA(n) = CA(n - 1)
  <2> HIDE DEF MA, CA
  <2>1. \A i \in 1..n : i \in 1..(n - 1) \/ i = n
    BY <1>1
  <2>2. /\ \A i : i \in MA(n) <=> i \in MA(n - 1) \/ (i = n /\ p \notin DOMAIN files)
        /\ \A i : i \in CA(n) <=> i \in CA(n - 1) \/ (i = n /\ p \in DOMAIN files /\ files[p] # records[n].hash)
    BY <1>1, <2>1 DEF MA, CA
  <2> HIDE DEF p
  <2> QED
    BY <2>2
<1>5. \A I : of(I \cup {n}) = of(I) \cup {p}
  OBVIOUS
<1>6. \A k : Missing(records, files, k) = of(MA(k)) /\ Changed(records, files, k) = of(CA(k))
  BY DEF Missing, Changed
<1> HIDE DEF of, MA, CA, p
<1>7. /\ p \notin Missing(records, files, n - 1) \cup Changed(records, files, n - 1)
  BY <1>3, <1>6
<1>8. /\ p \notin DOMAIN files => /\ Missing(records, files, n) = Missing(records, files, n - 1) \cup {p}
                                  /\ Changed(records, files, n) = Changed(records, files, n - 1)
      /\ p \in DOMAIN files /\ files[p] # records[n].hash =>
           /\ Missing(records, files, n) = Missing(records, files, n - 1)
           /\ Changed(records, files, n) = Changed(records, files, n - 1) \cup {p}
      /\ p \in DOMAIN files /\ files[p] = records[n].hash =>
           /\ Missing(records, files, n) = Missing(records, files, n - 1)
           /\ Changed(records, files, n) = Changed(records, files, n - 1)
  BY <1>4, <1>5, <1>6
<1> QED
  BY <1>1, <1>7, <1>8 DEF p, Adds

\* One more path to count.
LEMMA CountMore ==
  ASSUME NEW M, NEW C, NEW p, IsFiniteSet(M), IsFiniteSet(C), p \notin M
  PROVE  /\ IsFiniteSet(M \cup {p})
         /\ Cardinality(M \cup {p}) + Cardinality(C) = (Cardinality(M) + Cardinality(C)) + 1
         /\ Cardinality(C) + Cardinality(M \cup {p}) = (Cardinality(C) + Cardinality(M)) + 1
<1>1. Cardinality(M) \in Nat /\ Cardinality(C) \in Nat
  BY FS_CardinalityType
<1>2. IsFiniteSet(M \cup {p}) /\ Cardinality(M \cup {p}) = Cardinality(M) + 1
  BY FS_AddElement
<1> QED BY <1>1, <1>2

\* What Diff has found in the first n records is just what they show, once.
FoundIn(list, records, files, n) ==
  LET M == Missing(records, files, n)
      C == Changed(records, files, n)
  IN  /\ Held(list) = Reported(records, files, n)
      /\ IsFiniteSet(M) /\ IsFiniteSet(C)
      /\ Len(list) = Cardinality(M) + Cardinality(C)

\* What Diff may report.
Differences(P) == [path : P, type : {"DT_MISSING", "DT_MODIFIED"}]

\* A record more: Found appends what is to be said of it.
LEMMA FoundMore ==
  ASSUME NEW P, NEW list \in Seq(Differences(P)), NEW records, NEW files, NEW n,
         records[n].path \in P, Adds(records, files, n), FoundIn(list, records, files, n - 1)
  PROVE  FoundIn(list \o FD!Found(records[n], files), records, files, n)
<1> DEFINE p == records[n].path
           M(k) == Missing(records, files, k)
           C(k) == Changed(records, files, k)
           E == Differences(P)
           more == FD!Found(records[n], files)
<1>1. /\ IsFiniteSet(M(n - 1)) /\ IsFiniteSet(C(n - 1))
      /\ Len(list) = Cardinality(M(n - 1)) + Cardinality(C(n - 1))
      /\ Held(list) = Reported(records, files, n - 1)
  BY DEF FoundIn
<1>2. p \notin M(n - 1) /\ p \notin C(n - 1)
  BY DEF Adds
<1>3. CASE p \notin DOMAIN files
  <2> DEFINE e == [path |-> p, type |-> "DT_MISSING"]
  <2>1. M(n) = M(n - 1) \cup {p} /\ C(n) = C(n - 1)
    BY <1>3 DEF Adds
  <2>2. more = <<e>> /\ e \in E
    BY <1>3 DEF FD!Found, Differences
  <2>3. Reported(records, files, n) = Reported(records, files, n - 1) \cup {e}
    BY <2>1 DEF Reported
  <2> HIDE DEF e, E, M, C, more, p
  <2>4. Held(list \o more) = Held(list) \cup {e} /\ Len(list \o more) = Len(list) + 1
    BY <2>2, OneMore DEF E
  <2>5. IsFiniteSet(M(n)) /\ Cardinality(M(n)) + Cardinality(C(n)) = Len(list) + 1
    BY <1>1, <1>2, <2>1, CountMore
  <2> QED BY <1>1, <2>1, <2>3, <2>4, <2>5 DEF FoundIn, M, C, more
<1>4. CASE p \in DOMAIN files /\ files[p] # records[n].hash
  <2> DEFINE e == [path |-> p, type |-> "DT_MODIFIED"]
  <2>1. M(n) = M(n - 1) /\ C(n) = C(n - 1) \cup {p}
    BY <1>4 DEF Adds
  <2>2. more = <<e>> /\ e \in E
    BY <1>4 DEF FD!Found, Differences
  <2>3. Reported(records, files, n) = Reported(records, files, n - 1) \cup {e}
    BY <2>1 DEF Reported
  <2> HIDE DEF e, E, M, C, more, p
  <2>4. Held(list \o more) = Held(list) \cup {e} /\ Len(list \o more) = Len(list) + 1
    BY <2>2, OneMore DEF E
  <2>5. IsFiniteSet(C(n)) /\ Cardinality(M(n)) + Cardinality(C(n)) = Len(list) + 1
    <3> DEFINE m == M(n - 1)
               c == C(n - 1)
    <3>1. /\ IsFiniteSet(c \cup {p})
          /\ Cardinality(m) + Cardinality(c \cup {p}) = (Cardinality(m) + Cardinality(c)) + 1
      <4>1. IsFiniteSet(m) /\ IsFiniteSet(c) /\ p \notin c
        BY <1>1, <1>2
      <4> HIDE DEF m, c
      <4> QED BY <4>1, CountMore
    <3> QED BY <1>1, <2>1, <3>1
  <2> QED BY <1>1, <2>1, <2>3, <2>4, <2>5 DEF FoundIn, M, C, more
<1>5. CASE p \in DOMAIN files /\ files[p] = records[n].hash
  <2>1. M(n) = M(n - 1) /\ C(n) = C(n - 1)
    BY <1>5 DEF Adds
  <2>2. more = <<>>
    BY <1>5 DEF FD!Found
  <2>3. list \o <<>> = list
    OBVIOUS
  <2>4. Reported(records, files, n) = Reported(records, files, n - 1)
    BY <2>1 DEF Reported
  <2> HIDE DEF M, C, more, p
  <2> QED BY <1>1, <2>1, <2>2, <2>3, <2>4 DEF FoundIn, M, C, more
<1> QED BY <1>3, <1>4, <1>5

\* What Diff reports of records with different paths: of each that is missing or
\* modified just that, once.
LEMMA DiffReports ==
  ASSUME NEW P, NEW G, NEW records \in Seq([path : P, hash : G]), NEW files, Distinct(records)
  PROVE  FoundIn(FD!Diff(records, files).result, records, files, Len(records))
<1> DEFINE E == Differences(P)
           N == Len(records)
           seqs == [i \in 1..N |-> FD!Found(records[i], files)]
<1>1. N \in Nat /\ \A i \in 1..N : records[i] \in [path : P, hash : G]
  <2> SUFFICES ASSUME NEW i \in 1..N PROVE records[i] \in [path : P, hash : G]
    OBVIOUS
  <2> QED BY ElementOfSeq
<1>2. ASSUME NEW i \in 1..N PROVE FD!Found(records[i], files) \in Seq(E)
  <2> DEFINE p == records[i].path
  <2>1. p \in P
    BY <1>1
  <2>2. [path |-> p, type |-> "DT_MISSING"] \in E /\ [path |-> p, type |-> "DT_MODIFIED"] \in E
    BY <2>1 DEF Differences
  <2> HIDE DEF E
  <2>3. \A e \in E : <<e>> \in Seq(E)
    OBVIOUS
  <2> QED BY <2>2, <2>3 DEF FD!Found
<1>3. seqs \in Seq(Seq(E)) /\ Len(seqs) = N
  <2> HIDE DEF E, N
  <2> QED BY <1>1, <1>2
<1>4. PICK f \in [Nat -> Seq(E)] : /\ f[0] = <<>>
                                   /\ \A n \in 1..N : f[n] = f[n - 1] \o seqs[n]
                                   /\ FlattenSeq(seqs) = f[N]
  <2> HIDE DEF E, seqs, N
  <2> QED BY <1>3, Flattening
<1> DEFINE Right(n) == FoundIn(f[n], records, files, n)
<1>5. Right(0)
  <2> DEFINE M == Missing(records, files, 0)
             C == Changed(records, files, 0)
  <2>1. M = {} /\ C = {} /\ Held(<<>>) = {}
    BY DEF Missing, Changed, Held
  <2>2. Reported(records, files, 0) = {}
    BY <2>1 DEF Reported
  <2>3. Len(f[0]) = 0 /\ Held(f[0]) = {}
    BY <1>4, <2>1
  <2>4. IsFiniteSet(M) /\ IsFiniteSet(C) /\ Cardinality(M) = 0 /\ Cardinality(C) = 0
    BY <2>1, FS_EmptySet
  <2> QED BY <2>2, <2>3, <2>4 DEF FoundIn
<1>6. ASSUME NEW n \in 1..N, Right(n - 1) PROVE Right(n)
  <2>1. records[n].path \in P /\ Adds(records, files, n)
    BY RecordAdds
  <2>2. f[n - 1] \in Seq(E) /\ f[n] = f[n - 1] \o seqs[n]
    <3> HIDE DEF E, seqs
    <3>1. n - 1 \in Nat
      OBVIOUS
    <3> QED BY <1>4, <3>1
  <2>3. seqs[n] = FD!Found(records[n], files)
    OBVIOUS
  <2> DEFINE g == f[n - 1]
  <2>4. g \in Seq(Differences(P)) /\ FoundIn(g, records, files, n - 1)
    BY <1>6, <2>2
  <2> HIDE DEF g
  <2>5. FoundIn(g \o FD!Found(records[n], files), records, files, n)
    BY <2>1, <2>4, FoundMore
  <2> QED BY <2>2, <2>3, <2>5 DEF g
<1>7. Right(N)
  <2> DEFINE T == {n \in Nat : n <= N => Right(n)}
  <2>1. 0 \in T
    BY <1>5
  <2>2. ASSUME NEW n \in Nat, n \in T PROVE n + 1 \in T
    <3> HIDE DEF Right
    <3>1. CASE n + 1 <= N
      <4>1. n + 1 \in 1..N /\ (n + 1) - 1 = n /\ Right(n)
        BY <1>1, <2>2, <3>1
      <4> QED BY <1>6, <4>1
    <3> QED BY <3>1
  <2> HIDE DEF T
  <2>3. N \in T
    BY <1>1, <2>1, <2>2, SetInduction
  <2> QED BY <1>1, <2>3 DEF T
<1>8. FD!Diff(records, files).result = f[N]
  <2>1. FD!Diff(records, files).result = FD!FlattenSeq(seqs)
    <3>1. ~\E n \in 0..Len(records) : FD!Eof(records, n)
      BY <1>1 DEF FD!Eof
    <3> QED BY <3>1, Zenon DEF FD!Diff
  <2>2. FD!FlattenSeq(seqs) = FlattenSeq(seqs)
    BY Zenon DEF FD!FlattenSeq, FlattenSeq
  <2> QED BY <1>4, <2>1, <2>2
<1> QED BY <1>7, <1>8

\* What is stored of a scan: records of different files of it, with their digests.
LEMMA StoredRecords ==
  ASSUME NEW old, DOMAIN old \subseteq Paths, old \in [DOMAIN old -> Digests],
         NEW r \in Stored(old)
  PROVE  /\ r \in Seq([path : Paths, hash : Digests])
         /\ Distinct(r)
         /\ \A i \in 1..Len(r) : r[i].path \in DOMAIN old /\ r[i].hash = old[r[i].path]
<1> DEFINE G == DOMAIN old
           S == {[path |-> p, hash |-> old[p]] : p \in G}
           K == Cardinality(S)
<1>1. K \in Nat
  <2> DEFINE f == [p \in G |-> [path |-> p, hash |-> old[p]]]
  <2>1. IsFiniteSet(G)
    BY AlgorithmAssumption, FS_Subset
  <2>2. f \in Surjection(G, S)
    BY DEF Surjection
  <2> HIDE DEF f, S, G
  <2>3. IsFiniteSet(S)
    BY <2>1, <2>2, FS_Surjection
  <2> QED BY <2>3, FS_CardinalityType
<1>2. \A x \in S : /\ x \in [path : Paths, hash : Digests]
                   /\ x.path \in G /\ x.hash = old[x.path]
  OBVIOUS
<1>3. \A x, y \in S : x.path = y.path => x = y
  OBVIOUS
<1>4. PICK s \in [1..K -> S], n \in Nat :
        /\ \A i, j \in 1..K : i # j => s[i] # s[j]
        /\ n <= K /\ r = SubSeq(s, 1, n)
  <2>1. FD!Saved(old) = {f \in [1..K -> S] : \A i, j \in 1..K : i # j => f[i] # f[j]}
    BY DEF FD!Saved, FD!SetToSeqs, FD!Cardinality, Cardinality
  <2>2. PICK s \in FD!Saved(old) : \E n \in 0..Len(s) : r = SubSeq(s, 1, n)
    BY DEF Stored
  <2>3. PICK n \in 0..Len(s) : r = SubSeq(s, 1, n)
    BY <2>2
  <2>4. s \in [1..K -> S] /\ \A i, j \in 1..K : i # j => s[i] # s[j]
    BY <2>1, <2>2
  <2> HIDE DEF S, K
  <2>5. Len(s) = K
    BY <1>1, <2>4
  <2>6. n \in Nat /\ n <= K
    BY <1>1, <2>5
  <2> QED BY <2>3, <2>4, <2>6
<1> HIDE DEF S, K
<1>5. s \in Seq(S) /\ Len(s) = K
  BY <1>1, <1>4
<1>6. r \in Seq(S) /\ Len(r) = n /\ \A i \in 1..n : r[i] = s[i]
  <2>1. \A i \in 1..n : i \in 1..K /\ s[i] \in S
    BY <1>1, <1>4
  <2>2. r = [i \in 1..n |-> s[i]]
    BY <1>1, <1>4, <1>5
  <2>3. [i \in 1..n |-> s[i]] \in Seq(S)
    BY <2>1
  <2> QED BY <2>2, <2>3
<1>7. \A i \in 1..Len(r) : r[i] \in S
  BY <1>6, ElementOfSeq
<1>8. Distinct(r)
  <2> SUFFICES ASSUME NEW i \in 1..Len(r), NEW k \in 1..Len(r), r[i].path = r[k].path
               PROVE  i = k
    BY DEF Distinct
  <2>1. r[i] = r[k]
    BY <1>3, <1>7
  <2>2. s[i] = s[k] /\ i \in 1..K /\ k \in 1..K
    <3>1. i \in 1..n /\ k \in 1..n
      BY <1>6
    <3> QED BY <1>1, <1>4, <1>6, <2>1, <3>1
  <2> QED BY <1>4, <2>2
<1>9. r \in Seq([path : Paths, hash : Digests])
  <2> DEFINE R == [path : Paths, hash : Digests]
  <2>1. \A i \in 1..Len(r) : r[i] \in R
    BY <1>2, <1>7
  <2> HIDE DEF R
  <2>2. r = [i \in 1..n |-> r[i]] /\ n \in Nat
    BY <1>4, <1>6
  <2>3. [i \in 1..n |-> r[i]] \in Seq(R)
    BY <1>6, <2>1, <2>2
  <2> QED BY <2>2, <2>3 DEF R
<1> QED BY <1>2, <1>7, <1>8, <1>9

-----------------------------------------------------------------------------
(* What MCAlgorithms has computed                                          *)

\* What the algorithms have computed is what they compute of their input.
Inputs ==
  Starts \cup Questions \cup Replies \cup HeadersOf \cup Databases
    \cup Requests \cup Messages \cup Lists \cup Bindings

\* Once an input of the kind has been computed, the outcome is its result.
Gives(of, r) == outcome # Pending /\ input.of = of => outcome = <<r>>

\* The result of each kind, as MCAlgorithms computes it.
Computed ==
  /\ input \in Inputs
  /\ Gives("midnight", FirstMidnight(input.now, input.timezone, input.daylight))
  /\ Gives("question", D!Question(D!Dotted(input.labels)))
  /\ Gives("reply", D!ReadReply(D!Reply(Host, Records(input.answers)), Len(input.answers)))
  /\ Gives("diff", FD!Diff(input.input, input.files))
  /\ Gives("headers", HH!Headers(input.lines))
  /\ Gives("request", HH!AppendHeaders(HeadersAfter(input.calls)))
  /\ Gives("message", FR!Message(input.segments, input.be))
  /\ Gives("list", CacheAfter(input.list, input.calls).list)
  /\ Gives("bindings", BindingsAfter(input.calls).process.list)

\* An input has been computed once and stays as it is.
LEMMA ComputedAlways == AlgorithmSpec => []Computed
<1>1. AlgorithmInit => Computed
  BY Zenon DEF AlgorithmInit, Computed, Inputs, Gives
<1>2. Computed /\ [AlgorithmNext]_algorithm => Computed'
  <2> SUFFICES ASSUME Computed, [AlgorithmNext]_algorithm PROVE Computed'
    OBVIOUS
  <2>1. CASE UNCHANGED algorithm
    BY <2>1, Zenon DEF Computed, algorithm, Gives
  <2>2. CASE AlgorithmNext
    BY <2>2 DEF Computed, AlgorithmNext, Computes, Gives
  <2> QED BY <2>1, <2>2
<1> QED BY <1>1, <1>2, PTL DEF AlgorithmSpec

\* The kinds of input are told apart by of.
LEMMA Kinds ==
  ASSUME Computed
  PROVE  /\ input.of = "midnight" => input \in Starts
         /\ input.of = "question" => input \in Questions
         /\ input.of = "reply" => input \in Replies
         /\ input.of = "diff" => input \in Databases
         /\ input.of = "headers" => input \in HeadersOf
         /\ input.of = "request" => input \in Requests
         /\ input.of = "message" => input \in Messages
         /\ input.of = "list" => input \in Lists
         /\ input.of = "bindings" => input \in Bindings
<1>1. input \in Starts => input.of = "midnight"
  BY DEF Starts
<1>2. input \in Questions => input.of = "question"
  BY DEF Questions
<1>3. input \in Replies => input.of = "reply"
  BY DEF Replies
<1>4. input \in HeadersOf => input.of = "headers"
  BY DEF HeadersOf
<1>5. input \in Databases => input.of = "diff"
  BY DEF Databases
<1>6. input \in Requests => input.of = "request"
  BY DEF Requests
<1>7. input \in Messages => input.of = "message"
  BY DEF Messages
<1>8. input \in Lists => input.of = "list"
  BY DEF Lists
<1>9. input \in Bindings => input.of = "bindings"
  BY DEF Bindings
<1> QED
  BY <1>1, <1>2, <1>3, <1>4, <1>5, <1>6, <1>7, <1>8, <1>9 DEF Computed, Inputs

\* Diff against what is stored of any scan, and at any end of the stream, says
\* of each file of the whole records whether it is missing or modified, once, and
\* of others at most that they are new.
THEOREM ReportsOldFilesCorrect == AlgorithmSpec => []ReportsOldFiles
<1>1. ASSUME Computed, Done("diff") PROVE ReportsOldFiles
  <2> DEFINE records == input.input
             files == input.files
             N == Len(records)
             M == Missing(records, files, N)
             C == Changed(records, files, N)
             compare == {records[i].path : i \in 1..N}
             changed == {p \in compare \cap DOMAIN files : files[p] # input.saved[p]}
  <2>1. Result.result = FD!Diff(records, files).result
    BY <1>1 DEF Computed, Gives, Done, Result
  <2>2. /\ input.saved \in Scans /\ records \in Stored(input.saved) /\ files \in Scans
    BY <1>1, Kinds DEF Done, Databases
  <2>3. /\ DOMAIN input.saved \subseteq Paths /\ input.saved \in [DOMAIN input.saved -> Digests]
    BY <2>2 DEF Scans
  <2>4. /\ records \in Seq([path : Paths, hash : Digests]) /\ Distinct(records)
        /\ \A i \in 1..N : records[i].path \in DOMAIN input.saved
                           /\ records[i].hash = input.saved[records[i].path]
    BY <2>2, <2>3, StoredRecords
  <2>5. FoundIn(Result.result, records, files, N)
    BY <2>1, <2>4, DiffReports
  <2>6. M = compare \ DOMAIN files
    BY DEF Missing
  <2>7. C = changed
    BY <2>4 DEF Changed
  <2>8. /\ {Result.result[i] : i \in 1..Len(Result.result)} =
             [path : M, type : {"DT_MISSING"}] \cup [path : C, type : {"DT_MODIFIED"}]
               \cup [path : {}, type : {"DT_NEW"}]
        /\ Len(Result.result) = Cardinality(M) + Cardinality(C) + Cardinality({})
    <3>1. /\ {Result.result[i] : i \in 1..Len(Result.result)} =
               [path : M, type : {"DT_MISSING"}] \cup [path : C, type : {"DT_MODIFIED"}]
          /\ Len(Result.result) = Cardinality(M) + Cardinality(C)
          /\ IsFiniteSet(M) /\ IsFiniteSet(C)
      BY <2>5 DEF FoundIn, Reported, Held
    <3>2. Cardinality({}) = 0 /\ Cardinality(M) \in Nat /\ Cardinality(C) \in Nat
      BY <3>1, FS_EmptySet, FS_CardinalityType
    <3>3. [path : {}, type : {"DT_NEW"}] = {}
      OBVIOUS
    <3> HIDE DEF M, C
    <3> QED BY <3>1, <3>2, <3>3
  <2>9. {} \in SUBSET (DOMAIN files \ compare)
    OBVIOUS
  <2> QED
    BY <2>6, <2>7, <2>8, <2>9, Zenon DEF ReportsOldFiles
<1>2. Computed => ReportsOldFiles
  BY <1>1 DEF ReportsOldFiles
<1> QED BY <1>2, ComputedAlways, PTL

-----------------------------------------------------------------------------
(* The time of the first FSCHECK                                           *)

\* Division has one result.
LEMMA Division ==
  ASSUME NEW d \in Nat \ {0}, NEW t \in Int, NEW q \in Int, NEW r \in 0..(d - 1),
         t = (d * q) + r
  PROVE  t \div d = q /\ t % d = r
<1> DEFINE p == t \div d
           s == t % d
<1>1. p \in Int /\ s \in 0..(d - 1) /\ t = (d * p) + s
  OBVIOUS
<1> HIDE DEF p, s
<1>2. d * (q - p) = s - r
  BY <1>1
<1>3. q - p = 0
  <2>1. d * (q - p) < d /\ -d < d * (q - p) /\ q - p \in Int
    BY <1>1, <1>2
  <2> QED
    BY <2>1
<1>4. p = q /\ s = r
  BY <1>1, <1>2, <1>3
<1> QED
  BY <1>4 DEF p, s

\* Where the first run of FSCHECK lies (armt.cc, the computation of midnight) at
\* any time, in any zone that is less than a day off, in summer and in winter:
\* as far from tonight's midnight as Greenwich's date is from the server's, and
\* the hour of daylight saving earlier while that is not in effect.
THEOREM FirstMidnightCorrect ==
  ASSUME NEW now \in Int, NEW timezone \in Int, NEW daylight \in {0, 1}, NEW isdst \in 0..daylight,
         -(Day - Hour) <= timezone, timezone <= Day
  PROVE  /\ FirstMidnight(now, timezone, daylight) - MidnightTonight(now, timezone, isdst) =
              (Day * ((now \div Day) - ((now + East(timezone, isdst)) \div Day)))
                - (Hour * (daylight - isdst))
         /\ NearMidnight(FirstMidnight(now, timezone, daylight), now, timezone, daylight, isdst)
<1> DEFINE w == Hour * (daylight - isdst)
           e == East(timezone, isdst)
           q == now \div Day
           c == now % Day
           p == (now + e) \div Day
           r == (now + e) % Day
           m == FirstMidnight(now, timezone, daylight)
           tonight == MidnightTonight(now, timezone, isdst)
<1>1. Day \in Nat \ {0} /\ Hour \in 0..Day
  BY MidnightAssumption
<1>2. /\ w \in 0..Hour /\ (isdst = daylight => w = 0)
      /\ e \in Int /\ -Day <= e /\ e <= Day
      /\ timezone - (daylight * Hour) = (-e) - w
  <2>1. CASE isdst = 0 /\ daylight = 0
    BY <1>1, <2>1 DEF East
  <2>2. CASE isdst = 0 /\ daylight = 1
    BY <1>1, <2>2 DEF East
  <2>3. CASE isdst = 1 /\ daylight = 1
    BY <1>1, <2>3 DEF East
  <2> QED
    BY <2>1, <2>2, <2>3
<1>3. q \in Int /\ c \in 0..(Day - 1) /\ now = (Day * q) + c
  BY <1>1
<1>4. p \in Int /\ r \in 0..(Day - 1) /\ now + e = (Day * p) + r
  <2> DEFINE n == now + e
  <2>1. n \in Int
    BY <1>2
  <2> HIDE DEF n
  <2>2. n \div Day \in Int /\ n % Day \in 0..(Day - 1) /\ n = (Day * (n \div Day)) + (n % Day)
    BY <1>1, <2>1
  <2> QED
    BY <2>2 DEF n
<1>5. m = ((now - c) + Day) + (timezone - (daylight * Hour))
  BY DEF FirstMidnight
<1>6. tonight = ((p + 1) * Day) - e
  BY DEF MidnightTonight
<1>7. NearMidnight(m, now, timezone, daylight, isdst) <=>
        /\ m - tonight \in (-(Day + Hour))..Day
        /\ q = p => m - tonight \in (-Hour)..0
        /\ isdst = daylight => m - tonight \in {-Day, 0, Day}
  BY DEF NearMidnight
<1> HIDE DEF w, e, q, c, p, r, m, tonight
<1>8. (p + 1) * Day = (Day * p) + Day /\ Day * p \in Int /\ Day * q \in Int
      /\ Day * (q - p) = (Day * q) - (Day * p)
  BY <1>1, <1>3, <1>4
<1>9. m - tonight = (Day * (q - p)) - w
  BY <1>1, <1>2, <1>3, <1>4, <1>5, <1>6, <1>8
<1>10. q - p \in {-1, 0, 1}
  <2>1. Day * (q - p) = (r - c) - e
    BY <1>1, <1>2, <1>3, <1>4, <1>8
  <2>2. -(2 * Day) < Day * (q - p) /\ Day * (q - p) < 2 * Day
    BY <1>1, <1>2, <1>3, <1>4, <2>1
  <2>3. q - p \in Int /\ -2 < q - p /\ q - p < 2
    BY <1>1, <1>3, <1>4, <2>2
  <2> QED
    BY <2>3
<1>11. Day * (q - p) \in {-Day, 0, Day} /\ (q = p => Day * (q - p) = 0)
  BY <1>1, <1>3, <1>4, <1>10
<1>12. m - tonight \in (-(Day + Hour))..Day /\ (q = p => m - tonight \in (-Hour)..0)
  BY <1>1, <1>2, <1>9, <1>11
<1>13. isdst = daylight => m - tonight \in {-Day, 0, Day}
  BY <1>1, <1>2, <1>9, <1>11
<1>14. m - tonight = (Day * (q - p)) - w /\ NearMidnight(m, now, timezone, daylight, isdst)
  BY <1>7, <1>9, <1>12, <1>13
<1> QED
  BY <1>14 DEF w, e, q, p, m, tonight

\* So it is for all the starts that are looked at.
THEOREM FirstNearMidnightCorrect == AlgorithmSpec => []FirstNearMidnight
<1>1. ASSUME Computed, Done("midnight")
      PROVE  NearMidnight(Result, input.now, input.timezone, input.daylight, input.isdst)
  <2>1. /\ input.now \in Day..((Days + 1) * Day)
        /\ input.timezone \in (-(Day \div 2))..(Day \div 2)
        /\ input.daylight \in {0, 1} /\ input.isdst \in 0..input.daylight
    BY <1>1, Kinds DEF Done, Starts
  <2>2. /\ Day \in Nat /\ Hour \in Nat /\ Hour + (Day \div 2) <= Day /\ Day \div 2 \in Nat
        /\ (Days + 1) * Day \in Nat
    BY MidnightAssumption, AlgorithmAssumption
  <2>3. /\ input.now \in Int /\ input.timezone \in Int
        /\ -(Day - Hour) <= input.timezone /\ input.timezone <= Day
    BY <2>1, <2>2
  <2>4. Result = FirstMidnight(input.now, input.timezone, input.daylight)
    BY <1>1 DEF Computed, Gives, Done, Result
  <2> QED BY <1>1, <2>1, <2>3, <2>4, FirstMidnightCorrect
<1>2. Computed => FirstNearMidnight
  BY <1>1 DEF FirstNearMidnight
<1> QED BY <1>2, ComputedAlways, PTL

-----------------------------------------------------------------------------
(* The headers of a request                                                *)

\* Headers: names in small letters with values.
Small == {<<"a">>, <<"a", "-", "a">>}
Maps == UNION {[S -> {"x", "y"}] : S \in SUBSET Small}

\* The spellings of a header's name, and of a call.
LEMMA Spellings ==
  /\ HH!StrToLower(<<"a">>) = <<"a">> /\ HH!StrToLower(<<"A">>) = <<"a">>
  /\ HH!StrToLower(<<"a", "-", "a">>) = <<"a", "-", "a">>
  /\ HH!StrToLower(<<"A", "-", "a">>) = <<"a", "-", "a">>
  /\ HH!Written(<<"a">>) = <<"A">>
  /\ HH!Written(<<"a", "-", "a">>) = <<"A", "-", "A">>
<1>1. \A x, y, z : DOMAIN <<x>> = 1..1 /\ DOMAIN <<x, y, z>> = 1..3
  OBVIOUS
<1>2. ASSUME NEW x, NEW f, f = [i \in 1..1 |-> f[i]], f[1] = x PROVE f = <<x>>
  <2>1. f \in Seq({x}) /\ Len(f) = 1
    <3>1. \A i \in 1..1 : f[i] \in {x}
      BY <1>2
    <3> QED BY <1>2, <3>1
  <2> QED BY <1>2, <2>1
<1>3. ASSUME NEW x, NEW y, NEW z, NEW f, f = [i \in 1..3 |-> f[i]], f[1] = x, f[2] = y, f[3] = z
      PROVE f = <<x, y, z>>
  <2>1. f \in Seq({x, y, z}) /\ Len(f) = 3
    <3>1. \A i \in 1..3 : f[i] \in {x, y, z}
      BY <1>3
    <3> QED BY <1>3, <3>1
  <2> QED BY <1>3, <2>1
<1>4. ASSUME NEW x PROVE HH!StrToLower(<<x>>) = <<HH!Lower(x)>>
  <2> DEFINE f == HH!StrToLower(<<x>>)
  <2>1. f = [i \in 1..1 |-> HH!Lower(<<x>>[i])]
    BY <1>1 DEF HH!StrToLower
  <2>2. f = [i \in 1..1 |-> f[i]] /\ f[1] = HH!Lower(x)
    BY <2>1
  <2> HIDE DEF f
  <2> QED BY <1>2, <2>2 DEF f
<1>5. ASSUME NEW x, NEW y, NEW z
      PROVE HH!StrToLower(<<x, y, z>>) = <<HH!Lower(x), HH!Lower(y), HH!Lower(z)>>
  <2> DEFINE f == HH!StrToLower(<<x, y, z>>)
  <2>1. f = [i \in 1..3 |-> HH!Lower(<<x, y, z>>[i])]
    BY <1>1 DEF HH!StrToLower
  <2>2. f = [i \in 1..3 |-> f[i]] /\ f[1] = HH!Lower(x) /\ f[2] = HH!Lower(y) /\ f[3] = HH!Lower(z)
    BY <2>1
  <2> HIDE DEF f
  <2> QED BY <1>3, <2>2 DEF f
<1>6. HH!Written(<<"a">>) = <<"A">>
  <2> DEFINE s == <<"a">>
             f == HH!Written(s)
  <2>1. f = [i \in 1..1 |-> IF i = 1 \/ s[i - 1] = "-" THEN HH!Upper(s[i]) ELSE s[i]]
    BY <1>1 DEF HH!Written
  <2>2. f = [i \in 1..1 |-> f[i]] /\ f[1] = "A"
    BY <2>1 DEF HH!Upper
  <2> HIDE DEF f
  <2> QED BY <1>2, <2>2 DEF f
<1>7. HH!Written(<<"a", "-", "a">>) = <<"A", "-", "A">>
  <2> DEFINE s == <<"a", "-", "a">>
             f == HH!Written(s)
  <2>1. f = [i \in 1..3 |-> IF i = 1 \/ s[i - 1] = "-" THEN HH!Upper(s[i]) ELSE s[i]]
    BY <1>1 DEF HH!Written
  <2>2. f = [i \in 1..3 |-> f[i]] /\ f[1] = "A" /\ f[2] = "-" /\ f[3] = "A"
    BY <2>1 DEF HH!Upper
  <2> HIDE DEF f
  <2> QED BY <1>3, <2>2 DEF f
<1>8. HH!Lower("a") = "a" /\ HH!Lower("A") = "a" /\ HH!Lower("-") = "-"
  BY DEF HH!Lower
<1> QED BY <1>4, <1>5, <1>6, <1>7, <1>8

\* The header a call is about, and all that it touches.
Key(c) == HH!StrToLower(c.name)
About(c) == IF c.call = "clear" THEN Small ELSE {Key(c)}

\* A call keeps the headers it is not about, and sets the one it sets.
Effect(before, after, c) ==
  /\ after \in Maps
  /\ DOMAIN after = (DOMAIN before \ About(c)) \cup (IF c.call = "set" THEN {Key(c)} ELSE {})
  /\ \A k \in DOMAIN after : after[k] = IF k \in About(c) THEN c.value ELSE before[k]

\* The parts of a call.
LEMMA CallKeys ==
  ASSUME NEW c \in HeaderCalls
  PROVE  /\ c.call \in {"set", "del", "clear"}
         /\ c.call # "clear" => Key(c) \in Small
         /\ c.call = "set" => c.value \in {"x", "y"}
<1> DEFINE A == [call : {"set"}, name : {<<"a">>, <<"A">>, <<"A", "-", "a">>}, value : {"x", "y"}]
           B == [call : {"del"}, name : {<<"A">>, <<"a", "-", "a">>}]
           C == [call : {"clear"}]
<1>1. c \in A \/ c \in B \/ c \in C
  BY DEF HeaderCalls
<1>2. c \in A => /\ c.call = "set" /\ c.value \in {"x", "y"}
                 /\ c.name \in {<<"a">>, <<"A">>, <<"A", "-", "a">>}
  OBVIOUS
<1>3. c \in B => /\ c.call = "del" /\ c.name \in {<<"A">>, <<"a", "-", "a">>}
  OBVIOUS
<1>4. c \in C => c.call = "clear"
  OBVIOUS
<1> HIDE DEF A, B, C
<1>5. c.name \in {<<"a">>, <<"A">>, <<"A", "-", "a">>, <<"a", "-", "a">>} => Key(c) \in Small
  BY Spellings, Zenon DEF Key, Small
<1> QED BY <1>1, <1>2, <1>3, <1>4, <1>5

\* Each call does that and no more.
LEMMA CallEffect ==
  ASSUME NEW before \in Maps, NEW c \in HeaderCalls
  PROVE  Effect(before, HeaderCall(before, c), c)
<1> DEFINE after == HeaderCall(before, c)
<1>1. PICK S \in SUBSET Small : before \in [S -> {"x", "y"}]
  BY DEF Maps
<1>2. CASE c.call = "set"
  <2> DEFINE key == Key(c)
  <2>1. after = [k \in S \cup {key} |-> IF k = key THEN c.value ELSE before[k]]
    BY <1>1, <1>2 DEF HeaderCall, HH!SetHeader, HH!Put, Key
  <2>2. key \in Small /\ c.value \in {"x", "y"}
    BY <1>2, CallKeys
  <2>3. after \in [S \cup {key} -> {"x", "y"}] /\ S \cup {key} \in SUBSET Small
    <3> HIDE DEF key
    <3> QED BY <1>1, <2>1, <2>2
  <2>4. after \in Maps
    BY <2>3 DEF Maps
  <2>5. About(c) = {key}
    BY <1>2 DEF About
  <2> HIDE DEF key
  <2>6. DOMAIN after = (DOMAIN before \ About(c)) \cup {key}
    BY <1>1, <2>1, <2>5
  <2>7. \A k \in DOMAIN after : after[k] = IF k \in About(c) THEN c.value ELSE before[k]
    BY <1>1, <2>1, <2>5
  <2> QED BY <1>2, <2>4, <2>6, <2>7 DEF Effect, key
<1>3. CASE c.call = "del"
  <2> DEFINE key == Key(c)
  <2>1. after = HH!DelHeader(before, c.name)
    BY <1>3 DEF HeaderCall
  <2>2. after = [k \in {k \in DOMAIN before : k # key} |-> before[k]]
    BY <2>1 DEF HH!DelHeader, HH!RestrictDomain, HH!Restrict, Key
  <2>5. About(c) = {key}
    BY <1>3 DEF About
  <2> HIDE DEF key
  <2>3. after \in [S \ {key} -> {"x", "y"}] /\ S \ {key} \in SUBSET Small
    BY <1>1, <2>2
  <2>4. after \in Maps
    BY <2>3 DEF Maps
  <2>6. DOMAIN after = DOMAIN before \ About(c)
    BY <1>1, <2>2, <2>5
  <2>7. \A k \in DOMAIN after : after[k] = before[k] /\ k \notin About(c)
    BY <1>1, <2>2, <2>5
  <2> QED BY <1>3, <2>4, <2>6, <2>7 DEF Effect
<1>4. CASE c.call = "clear"
  <2>1. after = <<>>
    BY <1>4 DEF HeaderCall, HH!ClearHeaders
  <2>2. after \in [{} -> {"x", "y"}] /\ DOMAIN after = {}
    BY <2>1
  <2>3. after \in Maps
    BY <2>2 DEF Maps
  <2>4. DOMAIN before \ About(c) = {}
    BY <1>1, <1>4 DEF About
  <2> QED BY <1>4, <2>2, <2>3, <2>4 DEF Effect
<1> QED BY <1>2, <1>3, <1>4, CallKeys

\* The calls among the first n that set a header no later one of them is about.
Lasting(made, n) ==
  {i \in 1..n : made[i].call = "set" /\
                  \A k \in (i + 1)..n : About(made[i]) \cap About(made[k]) = {}}

\* The headers are those of these calls.
Standing(headers, made, n) ==
  /\ DOMAIN headers = {Key(made[i]) : i \in Lasting(made, n)}
  /\ \A i \in Lasting(made, n) : headers[Key(made[i])] = made[i].value

\* After one more call it is the headers of the calls that last again.
LEMMA StandingKept ==
  ASSUME NEW made \in Seq(HeaderCalls), NEW n \in 1..Len(made), NEW before \in Maps,
         Standing(before, made, n - 1)
  PROVE  Standing(HeaderCall(before, made[n]), made, n)
<1> DEFINE c == made[n]
           after == HeaderCall(before, c)
           own == IF c.call = "set" THEN {n} ELSE {}
           apart == {i \in Lasting(made, n - 1) : Key(made[i]) \notin About(c)}
<1>1. \A i \in 1..Len(made) : made[i] \in HeaderCalls
  BY ElementOfSeq
<1>2. Effect(before, after, c)
  BY <1>1, CallEffect
<1>3. n \in Nat \ {0} /\ Len(made) \in Nat /\ n <= Len(made)
  OBVIOUS
<1>4. ASSUME NEW i, i \in Lasting(made, n - 1)
      PROVE  About(made[i]) = {Key(made[i])} /\ i \in 1..(n - 1) /\ i # n
  BY <1>3, <1>4 DEF Lasting, About
<1>5. Lasting(made, n) = apart \cup own
  <2>1. ASSUME NEW i \in 1..n, i # n
        PROVE  /\ i \in 1..(n - 1) /\ (i + 1)..n = (i + 1)..(n - 1) \cup {n}
    BY <1>3, <2>1
  <2>2. (n + 1)..n = {} /\ n \in 1..n /\ \A i \in 1..(n - 1) : i \in 1..n
    BY <1>3
  <2>3. n \in Lasting(made, n) <=> n \in own
    BY <2>2 DEF Lasting
  <2>4. ASSUME NEW i, i # n PROVE i \in Lasting(made, n) <=> i \in apart
    <3>1. CASE i \in 1..(n - 1)
      <4>1. i \in 1..n /\ \A k : k \in (i + 1)..n <=> k \in (i + 1)..(n - 1) \/ k = n
        BY <1>3, <3>1
      <4>2. made[i].call = "set" => (About(made[i]) \cap About(c) = {} <=> Key(made[i]) \notin About(c))
        BY DEF About
      <4>3. i \in Lasting(made, n) <=>
              /\ made[i].call = "set" /\ About(made[i]) \cap About(c) = {}
              /\ \A k \in (i + 1)..(n - 1) : About(made[i]) \cap About(made[k]) = {}
        BY <4>1, Zenon DEF Lasting
      <4>4. i \in apart <=>
              /\ made[i].call = "set" /\ Key(made[i]) \notin About(c)
              /\ \A k \in (i + 1)..(n - 1) : About(made[i]) \cap About(made[k]) = {}
        BY <3>1, Zenon DEF Lasting
      <4> QED BY <4>2, <4>3, <4>4, Zenon
    <3>2. CASE i \notin 1..(n - 1)
      BY <2>1, <2>4, <3>2 DEF Lasting
    <3> QED BY <3>1, <3>2
  <2>5. n \notin apart
    BY <1>4
  <2> HIDE DEF apart, c
  <2>6. \A i : i \in own => i = n
    OBVIOUS
  <2> HIDE DEF own
  <2> QED BY <2>3, <2>4, <2>5, <2>6
<1>6. DOMAIN after = {Key(made[i]) : i \in Lasting(made, n)}
  <2>1. {Key(made[i]) : i \in apart} = DOMAIN before \ About(c)
    BY DEF Standing
  <2>2. {Key(made[i]) : i \in own} = IF c.call = "set" THEN {Key(c)} ELSE {}
    OBVIOUS
  <2> HIDE DEF apart, own, c, after
  <2>3. {Key(made[i]) : i \in apart \cup own} = {Key(made[i]) : i \in apart} \cup {Key(made[i]) : i \in own}
    OBVIOUS
  <2> QED BY <1>2, <1>5, <2>1, <2>2, <2>3 DEF Effect
<1>7. ASSUME NEW i \in Lasting(made, n) PROVE after[Key(made[i])] = made[i].value
  <2>1. Key(made[i]) \in DOMAIN after
    BY <1>6
  <2>2. CASE i \in apart
    <3>1. after[Key(made[i])] = before[Key(made[i])]
      BY <1>2, <2>1, <2>2 DEF Effect
    <3> QED BY <2>2, <3>1 DEF Standing
  <2>3. CASE i \in own
    <3>1. i = n /\ c.call = "set" /\ Key(c) \in About(c)
      BY <2>3 DEF About
    <3> HIDE DEF after
    <3> QED BY <1>2, <2>1, <3>1 DEF Effect
  <2> QED BY <1>5, <2>2, <2>3
<1> QED BY <1>6, <1>7 DEF Standing

\* The object has the headers of the calls that stand.
LEMMA HeadersStanding ==
  ASSUME NEW made \in Seq(HeaderCalls)
  PROVE  Standing(HeadersAfter(made), made, Len(made))
<1> DEFINE N == Len(made)
           step == [p \in Maps \X HeaderCalls |-> HeaderCall(p[1], p[2])]
           P(f) == f = [n \in 0..N |-> IF n = 0 THEN HH!ClearHeaders ELSE HeaderCall(f[n - 1], made[n])]
           g == CHOOSE f : P(f)
<1>1. HH!ClearHeaders \in Maps
  <2>1. HH!ClearHeaders \in [{} -> {"x", "y"}]
    BY DEF HH!ClearHeaders
  <2> QED BY <2>1 DEF Maps
<1>2. step \in [Maps \X HeaderCalls -> Maps]
  <2> SUFFICES ASSUME NEW p \in Maps \X HeaderCalls PROVE HeaderCall(p[1], p[2]) \in Maps
    OBVIOUS
  <2> QED BY CallEffect DEF Effect
<1>3. N \in Nat /\ \A i \in 1..N : made[i] \in HeaderCalls
  BY ElementOfSeq
<1>4. \E f : P(f)
  <2>1. PICK f \in [0..N -> Maps] :
          f = [n \in 0..N |-> IF n = 0 THEN HH!ClearHeaders ELSE step[<<f[n - 1], made[n]>>]]
    <3> HIDE DEF step
    <3>1. \E f : Iterates(f, Maps, made, HH!ClearHeaders, step)
      BY <1>1, <1>2, Iteration
    <3> QED BY <3>1 DEF Iterates
  <2>2. ASSUME NEW n \in 0..N, n # 0 PROVE step[<<f[n - 1], made[n]>>] = HeaderCall(f[n - 1], made[n])
    <3>1. n \in 1..N /\ n - 1 \in 0..N
      BY <1>3, <2>2
    <3>2. <<f[n - 1], made[n]>> \in Maps \X HeaderCalls
      BY <1>3, <3>1
    <3> QED BY <3>2
  <2> HIDE DEF step
  <2>3. P(f)
    <3>1. \A n \in 0..N : f[n] = IF n = 0 THEN HH!ClearHeaders ELSE HeaderCall(f[n - 1], made[n])
      BY <2>1, <2>2
    <3> QED BY <3>1
  <2> HIDE DEF P
  <2> QED BY <2>3
<1>5. P(g)
  <2> HIDE DEF P
  <2> QED BY <1>4, Zenon
<1>6. HeadersAfter(made) = g[N]
  BY Zenon DEF HeadersAfter
<1> HIDE DEF g
<1> DEFINE Right(n) == g[n] \in Maps /\ Standing(g[n], made, n)
<1>7. Right(0)
  <2>1. g[0] = HH!ClearHeaders
    BY <1>3, <1>5
  <2>2. Lasting(made, 0) = {} /\ DOMAIN HH!ClearHeaders = {}
    BY DEF Lasting, HH!ClearHeaders
  <2> QED BY <1>1, <2>1, <2>2 DEF Standing
<1>8. ASSUME NEW n \in 1..N, Right(n - 1) PROVE Right(n)
  <2>1. g[n] = HeaderCall(g[n - 1], made[n])
    <3>1. n \in 0..N /\ n # 0
      BY <1>3
    <3> QED BY <1>5, <3>1
  <2>2. g[n] \in Maps
    BY <1>3, <1>8, <2>1, CallEffect DEF Effect
  <2>3. Standing(g[n], made, n)
    BY <1>8, <2>1, StandingKept
  <2> QED BY <2>2, <2>3
<1>9. Right(N)
  <2> DEFINE T == {n \in Nat : n <= N => Right(n)}
  <2> HIDE DEF Right
  <2>1. 0 \in T
    BY <1>7
  <2>2. ASSUME NEW n \in Nat, n \in T PROVE n + 1 \in T
    <3>1. CASE n + 1 <= N
      <4>1. n + 1 \in 1..N /\ (n + 1) - 1 = n /\ Right(n)
        BY <1>3, <2>2, <3>1
      <4> QED BY <1>8, <4>1
    <3> QED BY <3>1
  <2> HIDE DEF T
  <2>3. N \in T
    BY <1>3, <2>1, <2>2, SetInduction
  <2> QED BY <1>3, <2>3 DEF T
<1> QED BY <1>6, <1>9

\* A request has the headers that were set and not touched later, however many
\* calls there were, written with capitals.
THEOREM RequestHeadersCorrect == AlgorithmSpec => []RequestHeaders
<1>1. ASSUME Computed, Done("request") PROVE RequestHeaders
  <2> DEFINE made == input.calls
             N == Len(made)
             headers == HeadersAfter(made)
             Written(i) == [name |-> HH!Written(Key(made[i])), value |-> made[i].value]
             Capital(name) == IF name = <<"a">> THEN <<"A">> ELSE <<"A", "-", "A">>
             last == {i \in DOMAIN made : made[i].call = "set" /\
                       \A k \in (i + 1)..N :
                         (IF made[i].call = "clear" THEN {<<"a">>, <<"a", "-", "a">>}
                          ELSE {HH!StrToLower(made[i].name)}) \cap
                         (IF made[k].call = "clear" THEN {<<"a">>, <<"a", "-", "a">>}
                          ELSE {HH!StrToLower(made[k].name)}) = {}}
  <2>1. Result = HH!AppendHeaders(headers)
    BY <1>1 DEF Computed, Gives, Done, Result
  <2>2. made \in Seq(HeaderCalls)
    <3>1. made \in Sequences(HeaderCalls, MaxHistory)
      BY <1>1, Kinds DEF Done, Requests
    <3>2. PICK k \in 0..MaxHistory : made \in [1..k -> HeaderCalls]
      BY <3>1 DEF Sequences
    <3>3. k \in Nat
      BY <3>2
    <3> QED BY <3>2, <3>3
  <2>3. Standing(headers, made, N)
    BY <2>2, HeadersStanding
  <2>4. ASSUME NEW i \in Lasting(made, N)
        PROVE  HH!Written(Key(made[i])) = Capital(HH!StrToLower(made[i].name))
    <3>1. i \in 1..N /\ made[i].call = "set"
      BY <2>4 DEF Lasting
    <3>2. made[i] \in HeaderCalls
      BY <2>2, <3>1, ElementOfSeq
    <3>3. Key(made[i]) \in Small
      BY <3>1, <3>2, CallKeys
    <3>4. <<"a", "-", "a">> # <<"a">>
      OBVIOUS
    <3> QED BY <3>3, <3>4, Spellings, Zenon DEF Key, Small
  <2>5. last = Lasting(made, N)
    <3>1. DOMAIN made = 1..N
      BY <2>2
    <3> QED BY <3>1, Zenon DEF Lasting, About, Key, Small
  <2>6. Result = {[name |-> HH!Written(k), value |-> headers[k]] : k \in DOMAIN headers}
    BY <2>1, Zenon DEF HH!AppendHeaders
  <2> HIDE DEF headers, made, Capital, N, last
  <2>7. Result = {Written(i) : i \in Lasting(made, N)}
    BY <2>3, <2>6 DEF Standing
  <2>8. Result = {[name |-> Capital(HH!StrToLower(made[i].name)), value |-> made[i].value] : i \in last}
    BY <2>4, <2>5, <2>7
  <2> QED BY <1>1, <2>8, Zenon DEF RequestHeaders, headers, made, Capital, N, last
<1>2. Computed => RequestHeaders
  BY <1>1 DEF RequestHeaders
<1> QED BY <1>2, ComputedAlways, PTL

-----------------------------------------------------------------------------
(* The headers of a reply                                                  *)

\* Of the headers each name is one of few, and each value has been counted.
Counted(headers, lines, n) ==
  /\ headers = [k \in DOMAIN headers |-> headers[k]]
  /\ IsFiniteSet(DOMAIN headers) /\ Cardinality(DOMAIN headers) = n
  /\ \A v : Cardinality({k \in DOMAIN headers : headers[k] = v})
              = Cardinality({i \in 1..n : lines[i].value = v})

\* There is an index that is not in use, and not beyond the number of headers.
LEMMA UnusedIsNew ==
  ASSUME NEW headers, NEW name, NEW E, name \in Seq(E),
         IsFiniteSet(DOMAIN headers), Cardinality(DOMAIN headers) < MaxLines
  PROVE  /\ HH!Unused(name, headers) \notin DOMAIN headers
         /\ \E i \in 1..MaxLines : HH!Unused(name, headers) = Append(name, Decimal(i))
<1> DEFINE U == DOMAIN headers
           c == Cardinality(U)
           with(i) == Append(name, Decimal(i))
           free == {i \in 1..(c + 1) : with(i) \notin U}
<1>1. c \in Nat /\ IsFiniteSet(1..(c + 1)) /\ Cardinality(1..(c + 1)) = c + 1
  <2>1. c \in Nat
    BY FS_CardinalityType
  <2> HIDE DEF c
  <2>2. 1 \in Int /\ c + 1 \in Int
    BY <2>1
  <2>3. 1..(c + 1) \in SUBSET Int /\ IsFiniteSet(1..(c + 1))
        /\ Cardinality(1..(c + 1)) = IF 1 > c + 1 THEN 0 ELSE (c + 1) - 1 + 1
    BY <2>2, FS_Interval
  <2> QED BY <2>1, <2>3
<1>2. ASSUME NEW i \in 1..(c + 1), NEW k \in 1..(c + 1), with(i) = with(k) PROVE i = k
  <2>1. with(i)[Len(name) + 1] = Decimal(i) /\ with(k)[Len(name) + 1] = Decimal(k)
    <3> DEFINE a == Decimal(i)
               b == Decimal(k)
               F == E \cup {a, b}
    <3>1. name \in Seq(F) /\ a \in F /\ b \in F
      OBVIOUS
    <3> HIDE DEF a, b, F
    <3>2. Append(name, a)[Len(name) + 1] = a /\ Append(name, b)[Len(name) + 1] = b
      BY <3>1
    <3> QED BY <3>2 DEF a, b
  <2>2. i \in 1..MaxLines /\ k \in 1..MaxLines
    BY <1>1, DecimalAssumption
  <2> HIDE DEF with, c, U
  <2> QED BY <1>2, <2>1, <2>2, DecimalAssumption
<1>3. free # {}
  <2> SUFFICES ASSUME \A i \in 1..(c + 1) : with(i) \in U PROVE FALSE
    OBVIOUS
  <2> DEFINE f == [i \in 1..(c + 1) |-> with(i)]
  <2>1. f \in [1..(c + 1) -> U]
    OBVIOUS
  <2>2. \A i, k \in 1..(c + 1) : f[i] = f[k] => i = k
    BY <1>2
  <2>3. IsFiniteSet(U) /\ Cardinality(U) < Cardinality(1..(c + 1))
    BY <1>1
  <2> DEFINE I == 1..(c + 1)
  <2>4. f \in [I -> U] /\ IsFiniteSet(I) /\ IsFiniteSet(U) /\ Cardinality(U) < Cardinality(I)
    BY <1>1, <2>1, <2>3
  <2> HIDE DEF f, U, I
  <2>5. \E i, k \in I : i # k /\ f[i] = f[k]
    BY <2>4, FS_PigeonHole
  <2> QED BY <2>2, <2>5 DEF I
<1>4. PICK n \in free : \A m \in free : n <= m
  <2>1. free \subseteq Nat
    BY <1>1
  <2> HIDE DEF free
  <2> QED BY <1>3, <2>1, LeastNat
<1> DEFINE Fits(i) == /\ with(i) \notin U
                      /\ \A k \in 1..(i - 1) : with(k) \in U
           index == CHOOSE i \in 1..(c + 1) : Fits(i)
<1>5. n \in 1..(c + 1) /\ Fits(n)
  <2>1. ASSUME NEW k \in 1..(n - 1) PROVE with(k) \in U
    <3>1. k \in 1..(c + 1) /\ ~(n <= k)
      BY <1>1, <1>4
    <3> QED BY <1>4, <3>1
  <2> QED BY <1>4, <2>1
<1>6. index \in 1..(c + 1) /\ Fits(index)
  <2> HIDE DEF Fits
  <2> QED BY <1>5, Zenon
<1>7. HH!Unused(name, headers) = with(index)
  BY Zenon DEF HH!Unused, HH!Cardinality, Cardinality
<1>8. index \in 1..MaxLines
  <2> HIDE DEF index
  <2> QED BY <1>1, <1>6, DecimalAssumption
<1> QED BY <1>6, <1>7, <1>8

\* One more element with a value, or without.
LEMMA CountOne ==
  ASSUME NEW A, NEW B, NEW a, NEW b, IsFiniteSet(A), IsFiniteSet(B), a \notin A, b \notin B,
         Cardinality(A) = Cardinality(B)
  PROVE  Cardinality(A \cup {a}) = Cardinality(B \cup {b})
BY FS_AddElement

\* A line that is taken adds one header and changes none.
LEMMA InsertCounts ==
  ASSUME NEW E, NEW headers, NEW lines, NEW n \in Nat, lines[n + 1].name \in Seq(E),
         n < MaxLines, Counted(headers, lines, n)
  PROVE  Counted(HH!Insert(headers, lines[n + 1]), lines, n + 1)
<1> DEFINE line == lines[n + 1]
           name == HH!StrToLower(line.name)
           key == IF name \in DOMAIN headers THEN HH!Unused(name, headers) ELSE name
           after == HH!Insert(headers, line)
           U == DOMAIN headers
           v0 == line.value
<1>1. name \in Seq({HH!Lower(e) : e \in E})
  <2> DEFINE F == {HH!Lower(e) : e \in E}
             s == line.name
  <2>1. s \in Seq(E) /\ DOMAIN s = 1..Len(s) /\ Len(s) \in Nat
    OBVIOUS
  <2> HIDE DEF s
  <2>2. \A i \in 1..Len(s) : HH!Lower(s[i]) \in F
    BY <2>1
  <2> HIDE DEF F
  <2>3. [i \in 1..Len(s) |-> HH!Lower(s[i])] \in Seq(F)
    BY <2>1, <2>2
  <2> QED BY <2>1, <2>3 DEF HH!StrToLower, s, F
<1>2. IsFiniteSet(U) /\ Cardinality(U) = n
  BY DEF Counted
<1>3. key \notin U
  BY <1>1, <1>2, UnusedIsNew
<1>4. after = [k \in U \cup {key} |-> IF k = key THEN v0 ELSE headers[k]]
  BY Zenon DEF HH!Insert, HH!Put
<1> HIDE DEF key, name, after
<1>5. DOMAIN after = U \cup {key} /\ after = [k \in DOMAIN after |-> after[k]]
  BY <1>4
<1>6. IsFiniteSet(DOMAIN after) /\ Cardinality(DOMAIN after) = n + 1
  BY <1>2, <1>3, <1>5, FS_AddElement
<1>7. ASSUME NEW v
      PROVE  Cardinality({k \in DOMAIN after : after[k] = v})
               = Cardinality({i \in 1..(n + 1) : lines[i].value = v})
  <2> DEFINE A == {k \in U : headers[k] = v}
             B == {i \in 1..n : lines[i].value = v}
  <2>1. Cardinality(A) = Cardinality(B)
    BY DEF Counted
  <2>2. IsFiniteSet(A)
    BY <1>2, FS_Subset
  <2>3. IsFiniteSet(B)
    <3>1. IsFiniteSet(1..n)
      BY FS_Interval
    <3> QED BY <3>1, FS_Subset
  <2>4. 1..(n + 1) = 1..n \cup {n + 1} /\ n + 1 \notin 1..n
    OBVIOUS
  <2>5. CASE v = v0
    <3>1. {k \in DOMAIN after : after[k] = v} = A \cup {key}
      BY <1>3, <1>4, <1>5, <2>5
    <3>2. {i \in 1..(n + 1) : lines[i].value = v} = B \cup {n + 1}
      BY <2>4, <2>5
    <3>3. key \notin A /\ n + 1 \notin B
      BY <1>3, <2>4
    <3> HIDE DEF A, B
    <3> QED BY <2>1, <2>2, <2>3, <3>1, <3>2, <3>3, CountOne
  <2>6. CASE v # v0
    <3>1. {k \in DOMAIN after : after[k] = v} = A
      BY <1>3, <1>4, <1>5, <2>6
    <3>2. {i \in 1..(n + 1) : lines[i].value = v} = B
      BY <2>4, <2>6
    <3> QED BY <2>1, <3>1, <3>2
  <2> QED BY <2>5, <2>6
<1> QED BY <1>5, <1>6, <1>7 DEF Counted, after

\* Names and headers of a reply.
Letters == {"a", "1"} \cup {Decimal(i) : i \in 1..MaxLines}
ReplyMaps == UNION {[U -> {"x", "y"}] : U \in SUBSET Seq(Letters)}
ReplyLines == {HH!Line(n, v, w) : n \in {<<"a">>, <<"A">>, <<"a", "1">>}, v \in {"x", "y"}, w \in BOOLEAN}

\* The parts of a line.
LEMMA LineFields ==
  ASSUME NEW line \in ReplyLines
  PROVE  /\ line.name \in {<<"a">>, <<"A">>, <<"a", "1">>} /\ line.value \in {"x", "y"}
         /\ line.name \in Seq({"a", "A", "1"})
         /\ HH!StrToLower(line.name) \in Seq({"a", "1"})
<1>1. line.name \in {<<"a">>, <<"A">>, <<"a", "1">>} /\ line.value \in {"x", "y"}
  BY DEF ReplyLines, HH!Line
<1> DEFINE F == {"a", "A", "1"}
<1>2. line.name \in Seq(F)
  <2>1. "a" \in F /\ "A" \in F /\ "1" \in F
    OBVIOUS
  <2> HIDE DEF F
  <2>2. <<"a">> \in Seq(F) /\ <<"A">> \in Seq(F) /\ <<"a", "1">> \in Seq(F)
    BY <2>1
  <2> QED BY <1>1, <2>2
<1>3. ASSUME NEW s \in Seq({"a", "A", "1"}) PROVE HH!StrToLower(s) \in Seq({"a", "1"})
  <2>1. DOMAIN s = 1..Len(s) /\ Len(s) \in Nat /\ \A i \in 1..Len(s) : HH!Lower(s[i]) \in {"a", "1"}
    BY DEF HH!Lower
  <2> QED BY <2>1 DEF HH!StrToLower
<1> QED BY <1>1, <1>2, <1>3

\* Headers with one more are headers.
LEMMA InsertMaps ==
  ASSUME NEW headers \in ReplyMaps, NEW line \in ReplyLines,
         IsFiniteSet(DOMAIN headers), Cardinality(DOMAIN headers) < MaxLines
  PROVE  HH!Insert(headers, line) \in ReplyMaps
<1> DEFINE name == HH!StrToLower(line.name)
           key == IF name \in DOMAIN headers THEN HH!Unused(name, headers) ELSE name
           v0 == line.value
           after == HH!Insert(headers, line)
<1>1. name \in Seq({"a", "1"}) /\ v0 \in {"x", "y"}
  BY LineFields
<1>2. key \in Seq(Letters)
  <2>1. name \in Seq(Letters)
    <3> HIDE DEF name
    <3>1. {"a", "1"} \subseteq Letters
      BY DEF Letters
    <3> QED BY <1>1, <3>1
  <2> HIDE DEF name
  <2>2. CASE name \in DOMAIN headers
    <3>1. PICK i \in 1..MaxLines : HH!Unused(name, headers) = Append(name, Decimal(i))
      BY <1>1, UnusedIsNew
    <3>2. Decimal(i) \in Letters
      BY DEF Letters
    <3> HIDE DEF v0
    <3> QED BY <2>1, <2>2, <3>1, <3>2
  <2> QED BY <2>1, <2>2
<1>3. after = [k \in DOMAIN headers \cup {key} |-> IF k = key THEN v0 ELSE headers[k]]
  BY Zenon DEF HH!Insert, HH!Put
<1>4. PICK U \in SUBSET Seq(Letters) : headers \in [U -> {"x", "y"}]
  BY DEF ReplyMaps
<1> HIDE DEF key, after, v0
<1>5. after \in [U \cup {key} -> {"x", "y"}] /\ U \cup {key} \in SUBSET Seq(Letters)
  BY <1>1, <1>2, <1>3, <1>4
<1> QED BY <1>5 DEF ReplyMaps, after

\* The headers of a reply are those of the lines that are consumed, counted.
LEMMA HeadersCounted ==
  ASSUME NEW lines, NEW consumed \in Seq(ReplyLines), Len(consumed) <= MaxLines,
         HH!Consumed(lines) = consumed
  PROVE  Counted(HH!Headers(lines), consumed, Len(consumed))
<1> DEFINE N == Len(consumed)
           step == [p \in ReplyMaps \X ReplyLines |->
                     IF HH!Insert(p[1], p[2]) \in ReplyMaps THEN HH!Insert(p[1], p[2]) ELSE p[1]]
           P(f) == f = [n \in 0..N |-> IF n = 0 THEN HH!ClearHeaders ELSE HH!Insert(f[n - 1], consumed[n])]
           g == CHOOSE f : P(f)
<1>1. /\ N \in Nat /\ N <= MaxLines
      /\ \A i \in 1..N : consumed[i] \in ReplyLines
  BY ElementOfSeq
<1>2. HH!ClearHeaders \in ReplyMaps
  <2>1. HH!ClearHeaders \in [{} -> {"x", "y"}]
    BY DEF HH!ClearHeaders
  <2> QED BY <2>1 DEF ReplyMaps
<1>3. step \in [ReplyMaps \X ReplyLines -> ReplyMaps]
  OBVIOUS
<1>4. Counted(HH!ClearHeaders, consumed, 0)
  <2>1. /\ HH!ClearHeaders = [k \in DOMAIN HH!ClearHeaders |-> HH!ClearHeaders[k]]
        /\ DOMAIN HH!ClearHeaders = {}
    BY DEF HH!ClearHeaders
  <2>2. \A v : {k \in DOMAIN HH!ClearHeaders : HH!ClearHeaders[k] = v} = {}
               /\ {i \in 1..0 : consumed[i].value = v} = {}
    BY <2>1
  <2> QED BY <2>1, <2>2, FS_EmptySet DEF Counted
<1>5. ASSUME NEW f, NEW n \in 1..N, f[n - 1] \in ReplyMaps, Counted(f[n - 1], consumed, n - 1)
      PROVE  /\ HH!Insert(f[n - 1], consumed[n]) \in ReplyMaps
             /\ Counted(HH!Insert(f[n - 1], consumed[n]), consumed, n)
  <2>1. n - 1 \in Nat /\ n - 1 < MaxLines /\ (n - 1) + 1 = n /\ consumed[n] \in ReplyLines
    BY <1>1, DecimalAssumption
  <2>2. IsFiniteSet(DOMAIN f[n - 1]) /\ Cardinality(DOMAIN f[n - 1]) < MaxLines
    BY <1>5, <2>1 DEF Counted
  <2>3. HH!Insert(f[n - 1], consumed[n]) \in ReplyMaps
    BY <1>5, <2>1, <2>2, InsertMaps
  <2>4. consumed[n].name \in Seq({"a", "A", "1"})
    BY <2>1, LineFields
  <2> DEFINE h == f[n - 1]
             m == n - 1
  <2>5. m \in Nat /\ m < MaxLines /\ m + 1 = n /\ Counted(h, consumed, m)
    BY <1>5, <2>1
  <2> HIDE DEF h, m
  <2>6. Counted(HH!Insert(h, consumed[m + 1]), consumed, m + 1)
    BY <2>4, <2>5, InsertCounts
  <2> QED BY <2>3, <2>5, <2>6 DEF h
<1>6. ASSUME NEW f, f[0] = HH!ClearHeaders,
             \A n \in 1..N : f[n - 1] \in ReplyMaps /\ Counted(f[n - 1], consumed, n - 1) =>
                               f[n] = HH!Insert(f[n - 1], consumed[n])
      PROVE  \A n \in 0..N : f[n] \in ReplyMaps /\ Counted(f[n], consumed, n)
  <2> DEFINE Right(n) == f[n] \in ReplyMaps /\ Counted(f[n], consumed, n)
             T == {n \in Nat : n <= N => Right(n)}
  <2>1. Right(0)
    BY <1>2, <1>4, <1>6
  <2>2. ASSUME NEW n \in 1..N, Right(n - 1) PROVE Right(n)
    BY <1>5, <1>6, <2>2
  <2> HIDE DEF Right
  <2>3. 0 \in T
    BY <2>1
  <2>4. ASSUME NEW n \in Nat, n \in T PROVE n + 1 \in T
    <3>1. CASE n + 1 <= N
      <4>1. n + 1 \in 1..N /\ (n + 1) - 1 = n /\ Right(n)
        BY <1>1, <2>4, <3>1
      <4> QED BY <2>2, <4>1
    <3> QED BY <3>1
  <2> HIDE DEF T
  <2>5. Nat \subseteq T
    BY <2>3, <2>4, SetInduction
  <2>6. \A n \in 0..N : Right(n)
    BY <1>1, <2>5 DEF T
  <2> QED BY <2>6 DEF Right
<1>7. \E f : P(f)
  <2>1. PICK f : Iterates(f, ReplyMaps, consumed, HH!ClearHeaders, step)
    <3> HIDE DEF step
    <3> QED BY <1>2, <1>3, Iteration
  <2>2. f = [n \in 0..N |-> IF n = 0 THEN HH!ClearHeaders ELSE step[<<f[n - 1], consumed[n]>>]]
    BY <2>1 DEF Iterates
  <2>3. f[0] = HH!ClearHeaders
    BY <1>1, <2>2
  <2>4. ASSUME NEW n \in 1..N, f[n - 1] \in ReplyMaps, Counted(f[n - 1], consumed, n - 1)
        PROVE  f[n] = HH!Insert(f[n - 1], consumed[n])
    <3>1. HH!Insert(f[n - 1], consumed[n]) \in ReplyMaps
      BY <1>5, <2>4
    <3>2. <<f[n - 1], consumed[n]>> \in ReplyMaps \X ReplyLines
      BY <1>1, <2>4
    <3>3. n \in 0..N /\ n # 0
      BY <1>1
    <3>4. f[n] = step[<<f[n - 1], consumed[n]>>]
      <4> HIDE DEF step
      <4> QED BY <2>2, <3>3
    <3> QED BY <3>1, <3>2, <3>4
  <2>5. \A n \in 0..N : f[n] \in ReplyMaps /\ Counted(f[n], consumed, n)
    BY <1>6, <2>3, <2>4
  <2>6. \A n \in 0..N : f[n] = IF n = 0 THEN HH!ClearHeaders ELSE HH!Insert(f[n - 1], consumed[n])
    <3> SUFFICES ASSUME NEW n \in 0..N, n # 0 PROVE f[n] = HH!Insert(f[n - 1], consumed[n])
      BY <2>3
    <3>1. n \in 1..N /\ n - 1 \in 0..N
      BY <1>1
    <3> QED BY <2>4, <2>5, <3>1
  <2>7. P(f)
    <3>1. f = [n \in 0..N |-> f[n]]
      <4> HIDE DEF step
      <4> QED BY <2>2
    <3> QED BY <2>6, <3>1
  <2> HIDE DEF P
  <2> QED BY <2>7
<1>8. P(g)
  <2> HIDE DEF P
  <2> QED BY <1>7, Zenon
<1>9. HH!Headers(lines) = g[N]
  BY Zenon DEF HH!Headers
<1>10. \A n \in 0..N : Counted(g[n], consumed, n)
  <2> HIDE DEF g
  <2>1. g[0] = HH!ClearHeaders
    BY <1>1, <1>8
  <2>2. \A n \in 1..N : g[n] = HH!Insert(g[n - 1], consumed[n])
    <3> SUFFICES ASSUME NEW n \in 1..N PROVE g[n] = HH!Insert(g[n - 1], consumed[n])
      OBVIOUS
    <3>1. n \in 0..N /\ n # 0
      BY <1>1
    <3> QED BY <1>8, <3>1
  <2> QED BY <1>6, <2>1, <2>2
<1> QED BY <1>1, <1>9, <1>10

\* How many lines are taken.
LEMMA TakenLines ==
  ASSUME NEW lines \in [1..MaxLines -> ReplyLines]
  PROVE  \E n \in Nat :
           /\ n <= MaxLines
           /\ HH!Consumed(lines) \in Seq(ReplyLines) /\ Len(HH!Consumed(lines)) = n
           /\ \A i \in 1..n : HH!Consumed(lines)[i] = lines[i]
           /\ {i \in 1..(Len(lines) - 1) : \A k \in 1..i : lines[k].wellFormed} = 1..n
<1> DEFINE L == Len(lines)
           bad == {i \in 1..L : ~lines[i].wellFormed}
<1>1. L = MaxLines /\ L \in Nat /\ lines \in Seq(ReplyLines)
  BY DecimalAssumption
<1>2. PICK b \in Nat : /\ b \in bad \cup {L} /\ \A y \in bad \cup {L} : b <= y
                       /\ HH!Consumed(lines) = SubSeq(lines, 1, b - 1)
  <2> DEFINE S == bad \cup {L}
             x == HH!Min(S)
  <2>1. S \subseteq Nat /\ S # {}
    BY <1>1
  <2>2. x = CHOOSE y \in S : \A z \in S : y <= z
    BY Zenon DEF HH!Min
  <2>3. HH!Consumed(lines) = SubSeq(lines, 1, x - 1)
    BY Zenon DEF HH!Consumed
  <2> HIDE DEF S, x
  <2>4. x \in S /\ \A y \in S : x <= y
    BY <2>1, <2>2, LeastNat, Zenon
  <2>5. x \in Nat
    BY <2>1, <2>4
  <2> QED BY <2>3, <2>4, <2>5 DEF S
<1> DEFINE m == b - 1
<1>3. m \in Int /\ m + 1 \in bad \cup {L} /\ \A y \in bad \cup {L} : m + 1 <= y
  <2>1. m + 1 = b /\ m \in Int
    BY <1>2
  <2> HIDE DEF m, bad, L
  <2> QED BY <1>2, <2>1
<1>4. m + 1 \in Nat /\ m + 1 <= L
  <2>1. bad \cup {L} \subseteq Nat /\ L \in bad \cup {L}
    BY <1>1
  <2> HIDE DEF m, bad, L
  <2> QED BY <1>3, <2>1
<1>5. m \in Int /\ m <= MaxLines - 1
  <2> HIDE DEF m, bad, L
  <2> QED BY <1>1, <1>3, <1>4
<1> DEFINE n == IF m = -1 THEN 0 ELSE m
<1>6. n \in Nat /\ n <= MaxLines /\ n <= L /\ 1..n = 1..m
  <2> HIDE DEF m, bad, L
  <2> QED BY <1>1, <1>4, <1>5, DecimalAssumption
<1>7. {i \in 1..(L - 1) : \A k \in 1..i : lines[k].wellFormed} = 1..n
  <2>1. ASSUME NEW i \in 1..n PROVE i \in 1..(L - 1) /\ \A k \in 1..i : lines[k].wellFormed
    <3>1. i \in Nat /\ i <= m /\ i \in 1..(L - 1)
      <4> HIDE DEF m, bad, L
      <4> QED BY <1>1, <1>4, <1>5, <1>6
    <3>2. ASSUME NEW k \in 1..i PROVE k \notin bad /\ k \in 1..L
      <4> HIDE DEF m, bad, L
      <4>1. k \in Nat /\ k < m + 1 /\ k \in 1..L
        BY <3>1, <1>1, <1>4, <1>5
      <4> QED BY <4>1, <1>3, <1>5
    <3> QED BY <3>1, <3>2
  <2>2. ASSUME NEW i \in 1..(L - 1), \A k \in 1..i : lines[k].wellFormed PROVE i \in 1..n
    <3>1. m + 1 \in bad => lines[m + 1].wellFormed = FALSE \/ ~lines[m + 1].wellFormed
      OBVIOUS
    <3>2. ~(m + 1 <= i)
      <4> SUFFICES ASSUME m + 1 <= i PROVE FALSE
        OBVIOUS
      <4>1. m + 1 # L
        <5> HIDE DEF m, bad
        <5> QED BY <1>1, <1>4, <1>5
      <4>2. m + 1 \in bad
        BY <1>3, <4>1
      <4>3. m + 1 \in 1..i
        <5>1. m + 1 \in 1..L
          BY <4>2
        <5> HIDE DEF m, bad, L
        <5> QED BY <1>1, <1>4, <5>1
      <4> QED BY <2>2, <4>2, <4>3
    <3> HIDE DEF m, bad, L
    <3> QED BY <1>1, <1>4, <1>5, <1>6, <3>2
  <2> HIDE DEF m, bad, L, n
  <2> QED BY <2>1, <2>2
<1>8. /\ HH!Consumed(lines) \in Seq(ReplyLines) /\ Len(HH!Consumed(lines)) = n
      /\ \A i \in 1..n : HH!Consumed(lines)[i] = lines[i]
  <2> HIDE DEF m, bad, L
  <2>1. SubSeq(lines, 1, m) = [i \in 1..n |-> lines[i]]
    BY <1>1, <1>4, <1>5, <1>6
  <2>2. \A i \in 1..n : lines[i] \in ReplyLines
    BY <1>1, <1>6
  <2> HIDE DEF n
  <2>3. [i \in 1..n |-> lines[i]] \in Seq(ReplyLines)
    BY <1>6, <2>2
  <2> DEFINE c == [i \in 1..n |-> lines[i]]
  <2>4. Len(c) = n /\ \A i \in 1..n : c[i] = lines[i]
    BY <1>6
  <2>5. HH!Consumed(lines) = c
    BY <1>2, <2>1 DEF m
  <2> HIDE DEF c
  <2> QED BY <2>3, <2>4, <2>5 DEF c
<1> HIDE DEF m, bad, n
<1> QED BY <1>6, <1>7, <1>8

\* Headers that are there more than once are all kept: each value as often as
\* the lines up to the first that is no header have it, with or without the last.
THEOREM HeadersKeptCorrect == AlgorithmSpec => []HeadersKept
<1>1. ASSUME Computed, Done("headers") PROVE HeadersKept
  <2> DEFINE lines == input.lines
             whole == {i \in 1..(Len(lines) - 1) : \A k \in 1..i : lines[k].wellFormed}
             consumed == HH!Consumed(lines)
  <2>1. Result = HH!Headers(lines)
    BY <1>1 DEF Computed, Gives, Done, Result
  <2>2. lines \in [1..MaxLines -> ReplyLines]
    BY <1>1, Kinds DEF Done, HeadersOf, ReplyLines
  <2>3. PICK n \in Nat :
          /\ n <= MaxLines
          /\ consumed \in Seq(ReplyLines) /\ Len(consumed) = n
          /\ \A i \in 1..n : consumed[i] = lines[i]
          /\ whole = 1..n
    BY <2>2, TakenLines
  <2>4. Counted(Result, consumed, n)
    BY <2>1, <2>3, HeadersCounted
  <2>5. ASSUME NEW v
        PROVE  Cardinality({k \in DOMAIN Result : Result[k] = v})
                 = Cardinality({i \in whole : lines[i].value = v})
    <3> HIDE DEF whole, consumed, lines
    <3>1. {i \in 1..n : consumed[i].value = v} = {i \in whole : lines[i].value = v}
      BY <2>3
    <3>2. Cardinality({k \in DOMAIN Result : Result[k] = v})
            = Cardinality({i \in 1..n : consumed[i].value = v})
      BY <2>4, Zenon DEF Counted
    <3> QED BY <3>1, <3>2
  <2>6. Leading \ {Len(lines)} = whole
    <3>1. DOMAIN lines = 1..Len(lines) /\ Len(lines) \in Nat
      BY <2>2, DecimalAssumption
    <3>2. 1..Len(lines) = (1..(Len(lines) - 1)) \cup ({Len(lines)} \cap 1..Len(lines))
          /\ Len(lines) \notin 1..(Len(lines) - 1)
      BY <3>1
    <3> QED BY <3>1, <3>2 DEF Leading
  <2>7. HasValuesOf(whole)
    BY <2>5, Zenon DEF HasValuesOf
  <2>8. HasValuesOf(Leading \ {Len(lines)})
    <3> HIDE DEF whole
    <3> QED BY <2>6, <2>7
  <2> QED BY <2>8, Zenon DEF HeadersKept
<1>2. Computed => HeadersKept
  BY <1>1 DEF HeadersKept
<1> QED BY <1>2, ComputedAlways, PTL

-----------------------------------------------------------------------------
(* The message of a request                                                *)

\* A number of few bytes is less than c times the base when what is shifted is less
\* than c.
LEMMA ShiftedLess ==
  ASSUME NEW b \in Nat \ {0}, NEW n \in Nat, NEW c \in Nat, n < b * c
  PROVE  n \div b \in Nat /\ n \div b < c
<1> DEFINE q == n \div b
           r == n % b
<1>1. q \in Nat /\ r \in Nat /\ n = b * q + r
  OBVIOUS
<1> HIDE DEF q, r
<1>2. ASSUME c <= q PROVE FALSE
  <2>1. b * c <= b * q
    BY <1>1, <1>2
  <2> QED BY <1>1, <2>1
<1> QED BY <1>1, <1>2 DEF q

\* The low byte of a number and what is left without it.
LEMMA LowByte ==
  ASSUME NEW b \in Nat \ {0}, NEW n \in Nat
  PROVE  n % b \in Nat /\ n \div b \in Nat /\ (n % b) + b * (n \div b) = n
OBVIOUS

\* A number of one byte is its low byte.
LEMMA OneByte == ASSUME NEW b \in Nat \ {0}, NEW n \in Nat, n < b PROVE n % b = n
OBVIOUS

\* The bytes of a number, the low one first.
LEMMA LEBytes ==
  ASSUME NEW n \in Nat, NEW w \in {1, 2, 4}
  PROVE  FR!LE(n, w) \in Seq(Nat) /\ Len(FR!LE(n, w)) = w
<1>1. Base \in Nat \ {0}
  BY FramingAssumption
<1>2. \A m \in Nat : FR!Shifted(m) \in Nat /\ m % Base \in Nat
  BY <1>1 DEF FR!Shifted
<1> DEFINE n1 == FR!Shifted(n)
           n2 == FR!Shifted(n1)
           n3 == FR!Shifted(n2)
           s == <<n, n1, n2, n3>>
<1>3. n1 \in Nat /\ n2 \in Nat /\ n3 \in Nat
  <2>1. n1 \in Nat
    BY <1>2
  <2>2. n2 \in Nat
    BY <1>2, <2>1
  <2> QED BY <1>2, <2>1, <2>2
<1>4. FR!LE(n, w) = [i \in 1..w |-> s[i] % Base]
  BY Zenon DEF FR!LE
<1> HIDE DEF n1, n2, n3
<1>5. \A i \in 1..w : s[i] % Base \in Nat
  <2>1. \A i \in 1..w : s[i] \in Nat
    BY <1>3
  <2> QED BY <1>2, <2>1
<1> HIDE DEF s
<1> QED BY <1>4, <1>5

\* On a big-endian host they are the other way round.
LEMMA Reversed ==
  ASSUME NEW s \in Seq(Nat)
  PROVE  FR!Reverse(s) \in Seq(Nat) /\ Len(FR!Reverse(s)) = Len(s) /\ FR!Reverse(FR!Reverse(s)) = s
<1> DEFINE N == Len(s)
           t == [i \in 1..N |-> s[(N - i) + 1]]
           u == [i \in 1..N |-> t[(N - i) + 1]]
<1>1. FR!Reverse(s) = t
  BY DEF FR!Reverse
<1>2. t \in Seq(Nat) /\ Len(t) = N
  OBVIOUS
<1>3. FR!Reverse(t) = u
  <2> HIDE DEF t
  <2> QED BY <1>2 DEF FR!Reverse
<1>4. \A i \in 1..N : u[i] = s[i]
  OBVIOUS
<1>5. u = s
  <2>1. s = [i \in 1..N |-> s[i]] /\ u = [i \in 1..N |-> u[i]]
    OBVIOUS
  <2> HIDE DEF u, N
  <2> QED BY <1>4, <2>1
<1> QED BY <1>1, <1>2, <1>3, <1>5

\* The host's own order is read as the low byte first.
LEMMA HostOrder ==
  ASSUME NEW n \in Nat, NEW w \in {1, 2, 4}, NEW be \in BOOLEAN
  PROVE  /\ FR!HostBytes(n, w, be) \in Seq(Nat) /\ Len(FR!HostBytes(n, w, be)) = w
         /\ FR!Number(FR!HostBytes(n, w, be), be) = FR!Number(FR!LE(n, w), FALSE)
<1> DEFINE s == FR!LE(n, w)
<1>1. s \in Seq(Nat) /\ Len(s) = w
  BY LEBytes
<1> HIDE DEF s
<1>2. FR!Reverse(s) \in Seq(Nat) /\ Len(FR!Reverse(s)) = w /\ FR!Reverse(FR!Reverse(s)) = s
  BY <1>1, Reversed
<1>3. FR!HostBytes(n, w, be) = IF be THEN FR!Reverse(s) ELSE s
  BY Zenon DEF FR!HostBytes, s
<1>4. CASE be
  <2>1. FR!HostBytes(n, w, be) = FR!Reverse(s)
    BY <1>3, <1>4
  <2>2. FR!Number(FR!Reverse(s), TRUE) = FR!Number(s, FALSE)
    BY <1>2, Zenon DEF FR!Number
  <2> QED BY <1>2, <1>4, <2>1, <2>2 DEF s
<1>5. CASE ~be
  BY <1>1, <1>3, <1>5 DEF s
<1> QED BY <1>4, <1>5

\* A number that fits is read as it was.
LEMMA NumberRead ==
  ASSUME NEW n \in Nat, NEW w \in {1, 2, 4},
         \/ w = 1 /\ n < Base
         \/ w = 2 /\ n < Base * Base
         \/ w = 4 /\ n < (Base * Base) * (Base * Base)
  PROVE  FR!Number(FR!LE(n, w), FALSE) = n
<1>1. Base \in Nat \ {0}
  BY FramingAssumption
<1> DEFINE n1 == FR!Shifted(n)
           n2 == FR!Shifted(n1)
           n3 == FR!Shifted(n2)
           t == <<n, n1, n2, n3>>
           s == FR!LE(n, w)
           byte(i) == IF i \in 1..w THEN t[i] % Base ELSE 0
<1>2. FR!Number(s, FALSE) = byte(1) + Base * (byte(2) + Base * (byte(3) + Base * byte(4)))
  <2>1. s = [i \in 1..w |-> t[i] % Base]
    BY Zenon DEF FR!LE
  <2> DEFINE at(i) == IF i \in DOMAIN s THEN s[i] ELSE 0
  <2>2. FR!Number(s, FALSE) = at(1) + Base * (at(2) + Base * (at(3) + Base * at(4)))
    BY Zenon DEF FR!Number
  <2>3. \A i : at(i) = byte(i)
    <3> HIDE DEF t, s
    <3> QED BY <2>1
  <2> HIDE DEF byte, at, s
  <2> QED BY <2>2, <2>3
<1>3. /\ n1 \in Nat /\ (n % Base) + Base * n1 = n
      /\ n2 \in Nat /\ (n1 % Base) + Base * n2 = n1
      /\ n3 \in Nat /\ (n2 % Base) + Base * n3 = n2
  <2>1. \A m \in Nat : FR!Shifted(m) \in Nat /\ (m % Base) + Base * FR!Shifted(m) = m
    BY <1>1, LowByte DEF FR!Shifted
  <2>2. n1 \in Nat
    BY <2>1
  <2>3. n2 \in Nat
    BY <2>1, <2>2
  <2> HIDE DEF n1, n2
  <2>4. FR!Shifted(n) = n1 /\ FR!Shifted(n1) = n2
    BY DEF n1, n2
  <2> QED BY <2>1, <2>2, <2>3, <2>4
<1>4. CASE w = 1
  <2>1. byte(1) = n /\ byte(2) = 0 /\ byte(3) = 0 /\ byte(4) = 0
    <3>1. n % Base = n
      BY <1>1, <1>4, OneByte
    <3> QED BY <1>4, <3>1
  <2> HIDE DEF byte, s
  <2>2. Base * 0 = 0 /\ 0 + 0 = 0 /\ n + 0 = n
    BY <1>1
  <2>3. FR!Number(s, FALSE) = n
    BY <1>2, <2>1, <2>2
  <2> QED BY <2>3 DEF s
<1>5. CASE w = 2
  <2>1. byte(1) = n % Base /\ byte(2) = n1 /\ byte(3) = 0 /\ byte(4) = 0
    <3>1. n1 < Base
      BY <1>1, <1>5, ShiftedLess DEF FR!Shifted
    <3>2. n1 % Base = n1
      BY <1>1, <1>3, <3>1, OneByte
    <3> HIDE DEF n1
    <3> QED BY <1>5, <3>2
  <2> HIDE DEF byte, s, n1
  <2>2. Base * 0 = 0 /\ 0 + 0 = 0 /\ n1 + 0 = n1
    BY <1>1, <1>3
  <2>3. FR!Number(s, FALSE) = n
    BY <1>2, <1>3, <2>1, <2>2
  <2> QED BY <2>3 DEF s
<1>6. CASE w = 4
  <2>1. n3 < Base
    <3> DEFINE c == Base * (Base * Base)
               d == Base * Base
    <3>1. c \in Nat /\ d \in Nat /\ n < Base * c /\ c = Base * d
      BY <1>1, <1>6
    <3>2. n1 < c
      BY <1>1, <3>1, ShiftedLess DEF FR!Shifted
    <3> HIDE DEF c, d
    <3>3. n2 < d
      <4> HIDE DEF n1
      <4> QED BY <1>1, <1>3, <3>1, <3>2, ShiftedLess DEF FR!Shifted
    <3> HIDE DEF n1, n2
    <3> QED BY <1>1, <1>3, <3>3, ShiftedLess DEF d, FR!Shifted
  <2>2. n3 % Base = n3
    BY <1>1, <1>3, <2>1, OneByte
  <2> HIDE DEF n1, n2, n3
  <2>3. byte(1) = n % Base /\ byte(2) = n1 % Base /\ byte(3) = n2 % Base /\ byte(4) = n3
    BY <1>6, <2>2
  <2> HIDE DEF byte, s
  <2>4. byte(3) + Base * byte(4) = n2
    BY <1>3, <2>3
  <2>5. byte(2) + Base * (byte(3) + Base * byte(4)) = n1
    BY <1>3, <2>3, <2>4
  <2> QED BY <1>2, <1>3, <2>3, <2>5 DEF s
<1> QED BY <1>4, <1>5, <1>6

\* Bytes are read as a number.
LEMMA NumberIs ==
  ASSUME NEW s \in Seq(Nat), NEW be \in BOOLEAN
  PROVE  FR!Number(s, be) \in Nat
<1> DEFINE low == IF be THEN FR!Reverse(s) ELSE s
           byte(i) == IF i \in DOMAIN low THEN low[i] ELSE 0
<1>1. low \in Seq(Nat)
  BY Reversed
<1>2. FR!Number(s, be) = byte(1) + Base * (byte(2) + Base * (byte(3) + Base * byte(4)))
  BY Zenon DEF FR!Number
<1>3. \A i : byte(i) \in Nat
  <2> HIDE DEF low
  <2> QED BY <1>1
<1>4. Base \in Nat
  BY FramingAssumption
<1> HIDE DEF byte
<1>5. \A m, k \in Nat : m + Base * k \in Nat
  BY <1>4
<1> QED BY <1>2, <1>3, <1>5

\* The sequence x stands in the bytes from a byte on.
Stands(bytes, from, x) ==
  /\ from + Len(x) - 1 <= Len(bytes)
  /\ \A i \in 1..Len(x) : bytes[(from - 1) + i] = x[i]

\* A field has what stands there.
LEMMA FieldIs ==
  ASSUME NEW bytes \in Seq(Nat), NEW from \in Nat \ {0}, NEW x \in Seq(Nat), Stands(bytes, from, x)
  PROVE  FR!Field(bytes, from, Len(x)) = x
<1> DEFINE N == Len(x)
           M == Len(bytes)
           to == from + N - 1
<1>1. N \in Nat /\ M \in Nat /\ to <= M
  BY DEF Stands
<1>2. FR!Field(bytes, from, N) = SubSeq(bytes, from, to)
  BY <1>1 DEF FR!Field
<1>3. SubSeq(bytes, from, to) = [i \in 1..N |-> bytes[(from - 1) + i]]
  <2> HIDE DEF N
  <2>1. (1 + to) - from = N /\ \A i \in 1..N : (i + from) - 1 = (from - 1) + i
    BY <1>1
  <2> QED BY <1>1, <2>1
<1>4. \A i \in 1..N : bytes[(from - 1) + i] = x[i]
  BY DEF Stands
<1>5. x = [i \in 1..N |-> x[i]]
  OBVIOUS
<1> HIDE DEF N
<1> QED BY <1>2, <1>3, <1>4, <1>5 DEF N

\* It consists of bytes wherever it is.
LEMMA FieldBytes ==
  ASSUME NEW bytes \in Seq(Nat), NEW from \in Nat \ {0}, NEW n \in Nat
  PROVE  FR!Field(bytes, from, n) \in Seq(Nat)
<1> DEFINE M == Len(bytes)
           to == from + n - 1
           end == IF to > M THEN M ELSE to
<1>1. M \in Nat /\ to \in Nat /\ end \in Nat /\ end <= M
  OBVIOUS
<1>2. FR!Field(bytes, from, n) = SubSeq(bytes, from, end)
  BY Zenon DEF FR!Field
<1> HIDE DEF end
<1>3. \A i \in from..end : bytes[i] \in Nat
  BY <1>1
<1> QED BY <1>1, <1>2, <1>3

\* Where two sequences stand together each of them does.
LEMMA StandsParts ==
  ASSUME NEW bytes \in Seq(Nat), NEW from \in Nat \ {0}, NEW x \in Seq(Nat), NEW y \in Seq(Nat),
         Stands(bytes, from, x \o y)
  PROVE  Stands(bytes, from, x) /\ Stands(bytes, from + Len(x), y)
<1> DEFINE N == Len(x)
           K == Len(y)
           z == x \o y
<1>1. N \in Nat /\ K \in Nat /\ Len(z) = N + K /\ Len(bytes) \in Nat
  OBVIOUS
<1>2. \A i \in 1..N : z[i] = x[i]
  OBVIOUS
<1>3. \A i \in 1..K : z[N + i] = y[i]
  OBVIOUS
<1>4. from + Len(z) - 1 <= Len(bytes) /\ \A i \in 1..Len(z) : bytes[(from - 1) + i] = z[i]
  BY DEF Stands
<1> HIDE DEF N, K, z
<1>5. Stands(bytes, from, x)
  <2>1. from + N - 1 <= Len(bytes) /\ \A i \in 1..N : i \in 1..Len(z)
    BY <1>1, <1>4
  <2> QED BY <1>2, <1>4, <2>1 DEF Stands, N
<1>6. Stands(bytes, from + N, y)
  <2>1. (from + N) + K - 1 <= Len(bytes)
    BY <1>1, <1>4
  <2>2. \A i \in 1..K : N + i \in 1..Len(z) /\ ((from + N) - 1) + i = (from - 1) + (N + i)
    BY <1>1
  <2>3. \A i \in 1..K : bytes[((from + N) - 1) + i] = y[i]
    BY <1>3, <1>4, <2>2
  <2> QED BY <2>1, <2>3 DEF Stands, K
<1> QED BY <1>5, <1>6 DEF N

\* Each f[k] is f[k - 1] and what is put behind it.
Grown(f, pieces, E) ==
  /\ f[0] = <<>>
  /\ \A k \in Nat : f[k] \in Seq(E)
  /\ \A k \in 1..Len(pieces) : pieces[k] \in Seq(E) /\ f[k] = f[k - 1] \o pieces[k]

\* What stands at the front stays there.
LEMMA FrontIs ==
  ASSUME NEW x \in Seq(Nat), NEW z \in Seq(Nat)
  PROVE  Stands(x, 1, z) <=> Len(z) <= Len(x) /\ \A i \in 1..Len(z) : x[i] = z[i]
<1>1. Len(x) \in Nat /\ Len(z) \in Nat /\ 1 + Len(z) - 1 = Len(z)
  OBVIOUS
<1>2. \A i \in 1..Len(z) : (1 - 1) + i = i
  OBVIOUS
<1> QED BY <1>1, <1>2, Zenon DEF Stands

\* What stands in front stays when more is added behind.
LEMMA FrontStays ==
  ASSUME NEW x \in Seq(Nat), NEW y \in Seq(Nat), NEW z \in Seq(Nat), Stands(x, 1, z)
  PROVE  Stands(x \o y, 1, z)
<1>1. Len(z) \in Nat /\ Len(x) \in Nat /\ Len(y) \in Nat /\ x \o y \in Seq(Nat)
      /\ Len(x \o y) = Len(x) + Len(y)
  OBVIOUS
<1>2. Len(z) <= Len(x) /\ \A i \in 1..Len(z) : x[i] = z[i]
  BY FrontIs
<1>3. \A i \in 1..Len(x) : (x \o y)[i] = x[i]
  OBVIOUS
<1>4. Len(z) <= Len(x \o y) /\ \A i \in 1..Len(z) : i \in 1..Len(x)
  BY <1>1, <1>2
<1>5. \A i \in 1..Len(z) : (x \o y)[i] = z[i]
  BY <1>2, <1>3, <1>4
<1> QED BY <1>1, <1>4, <1>5, FrontIs

\* The first pieces stand at the front of all of them.
LEMMA FrontStands ==
  ASSUME NEW f, NEW pieces \in Seq(Seq(Nat)), Grown(f, pieces, Nat), NEW k \in 0..Len(pieces)
  PROVE  Stands(f[Len(pieces)], 1, f[k])
<1> DEFINE N == Len(pieces)
           T == {j \in Nat : k + j <= N => Stands(f[k + j], 1, f[k])}
<1>1. N \in Nat /\ k \in Nat /\ k <= N
  OBVIOUS
<1> HIDE DEF N
<1>2. \A n \in Nat : f[n] \in Seq(Nat) /\ Len(f[n]) \in Nat
  BY DEF Grown
<1>3. 0 \in T
  <2>1. Stands(f[k], 1, f[k])
    BY <1>1, <1>2 DEF Stands
  <2> QED BY <1>1, <2>1
<1>4. ASSUME NEW j \in Nat, j \in T PROVE j + 1 \in T
  <2> SUFFICES ASSUME k + (j + 1) <= N PROVE Stands(f[k + (j + 1)], 1, f[k])
    OBVIOUS
  <2> DEFINE n == k + j
  <2>1. /\ n \in Nat /\ n + 1 = k + (j + 1) /\ (n + 1) - 1 = n /\ n + 1 \in 1..N
        /\ Stands(f[n], 1, f[k])
    BY <1>1, <1>4
  <2> HIDE DEF n
  <2>2. f[n + 1] = f[n] \o pieces[n + 1] /\ pieces[n + 1] \in Seq(Nat)
    BY <2>1 DEF Grown, N
  <2> DEFINE x == f[n]
             y == pieces[n + 1]
             z == f[k]
  <2>3. x \in Seq(Nat) /\ y \in Seq(Nat) /\ z \in Seq(Nat)
    BY <1>1, <1>2, <2>1, <2>2
  <2>4. Stands(x, 1, z)
    BY <2>1
  <2> HIDE DEF x, y, z
  <2>7. Stands(x \o y, 1, z)
    BY <2>3, <2>4, FrontStays
  <2> QED BY <2>1, <2>2, <2>7 DEF x, y, z
<1> HIDE DEF T
<1>5. Nat \subseteq T
  BY <1>3, <1>4, SetInduction
<1>6. N - k \in Nat /\ k + (N - k) = N
  BY <1>1
<1>7. N - k \in T
  BY <1>5, <1>6
<1>8. Stands(f[k + (N - k)], 1, f[k])
  BY <1>1, <1>6, <1>7 DEF T
<1> QED BY <1>6, <1>8 DEF N

\* And each piece behind those before it.
LEMMA PieceStands ==
  ASSUME NEW f, NEW pieces \in Seq(Seq(Nat)), Grown(f, pieces, Nat), NEW k \in 1..Len(pieces)
  PROVE  Stands(f[Len(pieces)], Len(f[k - 1]) + 1, pieces[k])
<1> DEFINE bytes == f[Len(pieces)]
           x == f[k - 1]
           y == pieces[k]
<1>1. k \in Nat /\ k - 1 \in Nat /\ Len(pieces) \in Nat /\ k \in 0..Len(pieces)
  OBVIOUS
<1>2. bytes \in Seq(Nat) /\ x \in Seq(Nat) /\ y \in Seq(Nat) /\ f[k] = x \o y
  BY <1>1 DEF Grown
<1>3. Stands(bytes, 1, x \o y)
  BY <1>1, <1>2, FrontStands
<1> HIDE DEF bytes, x, y
<1>4. Stands(bytes, 1 + Len(x), y)
  BY <1>2, <1>3, StandsParts
<1>5. 1 + Len(x) = Len(x) + 1
  BY <1>2
<1> QED BY <1>4, <1>5 DEF bytes, x, y

\* A reader that has come to a byte and has so many elements of O.
Readers(O) == [at : Nat \ {0}, got : Seq(O)]

\* It has made N steps, whose results are h.
Reads(h, step, N, O) ==
  /\ h[0] = FR!Reader
  /\ \A n \in 1..N : h[n - 1] \in Readers(O) => h[n] = step[h[n - 1]]

\* They are steps of a reader.
LEMMA ReadersStep ==
  ASSUME NEW O, NEW step \in [Readers(O) -> Readers(O)], NEW N \in Nat, NEW h, Reads(h, step, N, O)
  PROVE  /\ \A n \in 0..N : h[n] \in Readers(O)
         /\ \A n \in 1..N : h[n] = step[h[n - 1]]
<1> DEFINE T == {n \in Nat : n <= N => h[n] \in Readers(O)}
<1>1. 0 \in T
  <2>1. <<>> \in Seq(O)
    OBVIOUS
  <2>2. [at |-> 1, got |-> <<>>] \in Readers(O)
    BY <2>1 DEF Readers
  <2>3. h[0] = [at |-> 1, got |-> <<>>]
    BY Zenon DEF Reads, FR!Reader
  <2> QED BY <2>2, <2>3
<1>2. ASSUME NEW n \in Nat, n \in T PROVE n + 1 \in T
  <2> SUFFICES ASSUME n + 1 <= N PROVE h[n + 1] \in Readers(O)
    OBVIOUS
  <2>1. n + 1 \in 1..N /\ (n + 1) - 1 = n /\ h[n] \in Readers(O)
    BY <1>2
  <2>2. h[n + 1] = step[h[n]]
    BY <2>1 DEF Reads
  <2> QED BY <2>1, <2>2
<1> HIDE DEF T
<1>3. Nat \subseteq T
  BY <1>1, <1>2, SetInduction
<1>4. \A n \in 0..N : h[n] \in Readers(O)
  BY <1>3 DEF T
<1>5. \A n \in 1..N : n - 1 \in 0..N
  OBVIOUS
<1> QED BY <1>4, <1>5 DEF Reads

\* Each piece is read by a step, except those that are empty; there is nothing
\* behind the last.
Follows(step, bytes, pieces, out, O) ==
  /\ \A r \in Readers(O) : r.at > Len(bytes) => step[r] = r
  /\ \A k \in 1..Len(pieces) :
       \/ pieces[k] = <<>> /\ out[k] = <<>>
       \/ /\ Len(pieces[k]) > 0
          /\ \A r \in Readers(O) : Stands(bytes, r.at, pieces[k]) =>
               step[r] = [at |-> r.at + Len(pieces[k]), got |-> r.got \o out[k]]

\* A reader of the pieces, which are f in the end, gets out, which is g.
ReadsAll(step, h, pieces, f, out, g, O) ==
  /\ pieces \in Seq(Seq(Nat)) /\ Len(out) = Len(pieces)
  /\ Grown(f, pieces, Nat) /\ Grown(g, out, O)
  /\ step \in [Readers(O) -> Readers(O)]
  /\ Reads(h, step, Len(f[Len(pieces)]), O)
  /\ Follows(step, f[Len(pieces)], pieces, out, O)

\* It comes to their end and has got what is in all of them.
AllGot(h, pieces, f, g) == h[Len(f[Len(pieces)])].got = g[Len(pieces)]

\* Then the reader gets what is in the pieces, one after the other.
LEMMA AllRead ==
  ASSUME NEW O, NEW pieces, NEW out, NEW f, NEW g, NEW step, NEW h,
         ReadsAll(step, h, pieces, f, out, g, O)
  PROVE  AllGot(h, pieces, f, g)
<1> DEFINE N == Len(pieces)
           bytes == f[N]
           M == Len(bytes)
           R(k) == [at |-> Len(f[k]) + 1, got |-> g[k]]
           Come(k) == \E m \in 0..Len(f[k]) : h[m] = R(k)
           T == {k \in Nat : k <= N => Come(k)}
<1>0. /\ pieces \in Seq(Seq(Nat)) /\ Len(out) = Len(pieces)
      /\ Grown(f, pieces, Nat) /\ Grown(g, out, O)
      /\ step \in [Readers(O) -> Readers(O)]
      /\ Reads(h, step, Len(f[Len(pieces)]), O)
      /\ Follows(step, f[Len(pieces)], pieces, out, O)
  BY Zenon DEF ReadsAll
<1> USE <1>0
<1>1. N \in Nat /\ \A k \in Nat : f[k] \in Seq(Nat) /\ Len(f[k]) \in Nat /\ g[k] \in Seq(O)
  BY DEF Grown
<1>2. \A k \in 0..N : Len(f[k]) <= M
  <2> TAKE k \in 0..N
  <2>1. Stands(bytes, 1, f[k])
    BY FrontStands
  <2> QED BY <1>1, <2>1, FrontIs
<1>3. M \in Nat /\ (\A n \in 0..M : h[n] \in Readers(O)) /\ (\A n \in 1..M : h[n] = step[h[n - 1]])
  <2>1. M \in Nat
    BY <1>1
  <2>2. Reads(h, step, M, O) /\ step \in [Readers(O) -> Readers(O)]
    OBVIOUS
  <2> HIDE <1>0
  <2> HIDE DEF M
  <2> QED BY <2>1, <2>2, ReadersStep
<1>4. /\ \A r \in Readers(O) : r.at > M => step[r] = r
      /\ \A k \in 1..N :
           \/ pieces[k] = <<>> /\ out[k] = <<>>
           \/ /\ Len(pieces[k]) > 0
              /\ \A r \in Readers(O) : Stands(bytes, r.at, pieces[k]) =>
                   step[r] = [at |-> r.at + Len(pieces[k]), got |-> r.got \o out[k]]
  BY Zenon DEF Follows
<1>5. 0 \in T
  <2>1. f[0] = <<>> /\ g[0] = <<>> /\ h[0] = FR!Reader
    BY DEF Grown, Reads
  <2>2. Len(f[0]) = 0 /\ 0 \in 0..0
    BY <2>1
  <2>3. h[0] = R(0)
    BY <2>1, <2>2 DEF FR!Reader
  <2> QED BY <2>2, <2>3
<1>6. ASSUME NEW j \in Nat, j \in T PROVE j + 1 \in T
  <2> SUFFICES ASSUME j + 1 <= N PROVE Come(j + 1)
    OBVIOUS
  <2> DEFINE k == j + 1
             x == f[j]
             p == pieces[k]
  <2>1. k \in 1..N /\ k - 1 = j /\ j \in 0..N /\ k \in 0..N /\ Come(j)
    BY <1>1, <1>6
  <2>2. /\ p \in Seq(Nat) /\ out[k] \in Seq(O)
        /\ f[k] = x \o p /\ g[k] = g[j] \o out[k] /\ x \in Seq(Nat) /\ g[j] \in Seq(O)
    <3> HIDE DEF k
    <3> QED BY <1>1, <2>1 DEF Grown
  <2>3. Len(f[k]) = Len(x) + Len(p) /\ Len(x) \in Nat /\ Len(p) \in Nat
    BY <2>2
  <2>4. PICK m \in 0..Len(x) : h[m] = R(j)
    BY <2>1
  <2>5. CASE p = <<>> /\ out[k] = <<>>
    <3>1. f[k] = x /\ g[k] = g[j]
      BY <2>2, <2>5
    <3>2. R(k) = R(j) /\ m \in 0..Len(f[k])
      BY <2>4, <3>1
    <3> QED BY <2>4, <3>2
  <2>6. CASE /\ Len(p) > 0
             /\ \A r \in Readers(O) : Stands(bytes, r.at, p) =>
                  step[r] = [at |-> r.at + Len(p), got |-> r.got \o out[k]]
    <3> DEFINE r == R(j)
    <3>1. r \in Readers(O) /\ r.at = Len(x) + 1 /\ r.got = g[j]
      BY <2>2, <2>3 DEF Readers
    <3>2. Stands(bytes, Len(x) + 1, p)
      <4> HIDE DEF k
      <4> QED BY <2>1, PieceStands DEF p
    <3>3. m + 1 \in 1..M /\ (m + 1) - 1 = m /\ m + 1 \in 0..Len(f[k])
      <4>1. Len(f[k]) <= M
        BY <1>2, <2>1
      <4>2. Len(p) > 0
        BY <2>6
      <4> DEFINE a == Len(x)
                 b == Len(p)
                 c == Len(f[k])
      <4>3. a \in Nat /\ b \in Nat /\ b > 0 /\ c = a + b /\ c <= M /\ m \in 0..a
        BY <2>3, <2>4, <4>1, <4>2
      <4>4. M \in Nat
        BY <1>3
      <4> HIDE DEF a, b, c, M
      <4>5. m + 1 \in 1..M /\ (m + 1) - 1 = m /\ m + 1 \in 0..c
        BY <4>3, <4>4
      <4> QED BY <4>5 DEF c
    <3>4. h[m + 1] = step[r]
      <4>1. h[m + 1] = step[h[(m + 1) - 1]]
        BY <1>3, <3>3
      <4> QED BY <2>4, <3>3, <4>1
    <3>5. step[r] = [at |-> r.at + Len(p), got |-> r.got \o out[k]]
      <4>1. Stands(bytes, r.at, p)
        BY <3>1, <3>2, Zenon
      <4>2. \A s \in Readers(O) : Stands(bytes, s.at, p) =>
               step[s] = [at |-> s.at + Len(p), got |-> s.got \o out[k]]
        BY <2>6, Zenon
      <4>3. r \in Readers(O)
        BY <3>1, Zenon
      <4> HIDE DEF r, p, k, bytes
      <4> QED BY <4>1, <4>2, <4>3, Zenon
    <3>6. (Len(x) + 1) + Len(p) = Len(f[k]) + 1
      <4> HIDE DEF x, p, k
      <4> QED BY <2>3
    <3>7. step[r] = R(k)
      <4>1. r.got \o out[k] = g[k]
        BY <2>2, <3>1, Zenon
      <4>2. r.at + Len(p) = Len(f[k]) + 1
        BY <3>1, <3>6, Zenon
      <4> HIDE DEF r, p, k
      <4> QED BY <3>5, <4>1, <4>2, Zenon
    <3> QED BY <3>3, <3>4, <3>7
  <2>7. \/ p = <<>> /\ out[k] = <<>>
        \/ /\ Len(p) > 0
           /\ \A r \in Readers(O) : Stands(bytes, r.at, p) =>
                step[r] = [at |-> r.at + Len(p), got |-> r.got \o out[k]]
    <3> HIDE DEF k, bytes, N
    <3> QED BY <1>4, <2>1, Zenon DEF p
  <2> HIDE DEF Come, k, p, x
  <2> QED BY <2>5, <2>6, <2>7 DEF k
<1> HIDE DEF T
<1>7. Nat \subseteq T
  BY <1>5, <1>6, SetInduction
<1>8. PICK m \in 0..M : h[m] = R(N)
  <2>1. N \in T
    BY <1>1, <1>7
  <2>2. Come(N)
    <3> HIDE <1>0
    <3> HIDE DEF Come
    <3> QED BY <1>1, <2>1 DEF T
  <2> QED BY <2>2
<1> DEFINE U == {i \in Nat : m + i <= M => h[m + i] = R(N)}
<1>9. 0 \in U
  BY <1>8
<1>10. ASSUME NEW i \in Nat, i \in U PROVE i + 1 \in U
  <2> SUFFICES ASSUME m + (i + 1) <= M PROVE h[m + (i + 1)] = R(N)
    OBVIOUS
  <2> DEFINE n == m + i
             r == R(N)
  <2>1. n \in Nat /\ m + (i + 1) = n + 1 /\ n + 1 \in 1..M /\ (n + 1) - 1 = n /\ h[n] = r /\ n \in 0..M
    BY <1>3, <1>8, <1>10
  <2> HIDE DEF n
  <2>2. h[n + 1] = step[r] /\ r \in Readers(O)
    <3>1. h[n + 1] = step[h[(n + 1) - 1]]
      BY <1>3, <2>1
    <3> QED BY <1>3, <2>1, <3>1
  <2>3. r.at > M
    BY <1>3
  <2> HIDE DEF r
  <2>4. step[r] = r
    BY <1>4, <2>2, <2>3
  <2> QED BY <2>1, <2>2, <2>4 DEF r
<1> HIDE DEF U
<1>11. Nat \subseteq U
  BY <1>9, <1>10, SetInduction
<1>12. h[M] = R(N)
  <2>1. M - m \in Nat /\ m + (M - m) = M
    BY <1>3, <1>8
  <2>2. M - m \in U
    BY <1>11, <2>1
  <2>3. h[m + (M - m)] = R(N)
    BY <1>3, <2>1, <2>2 DEF U
  <2> QED BY <2>1, <2>3
<1> QED BY <1>12 DEF AllGot

\* FlattenSeq as a sequence of sequences that grow.
LEMMA Flattened ==
  ASSUME NEW E, NEW pieces \in Seq(Seq(E))
  PROVE  \E f : Grown(f, pieces, E) /\ FR!FlattenSeq(pieces) = f[Len(pieces)]
<1>1. PICK f \in [Nat -> Seq(E)] : /\ f[0] = <<>>
                                   /\ \A n \in 1..Len(pieces) : f[n] = f[n - 1] \o pieces[n]
                                   /\ FlattenSeq(pieces) = f[Len(pieces)]
  BY Flattening
<1>2. FR!FlattenSeq(pieces) = FlattenSeq(pieces)
  BY Zenon DEF FR!FlattenSeq, FlattenSeq
<1>3. \A n \in 1..Len(pieces) : pieces[n] \in Seq(E)
  OBVIOUS
<1>4. Grown(f, pieces, E)
  BY <1>1, <1>3 DEF Grown
<1> QED BY <1>1, <1>2, <1>4

\* Sequences of one element make the sequence of the elements.
LEMMA Singles ==
  ASSUME NEW E, NEW s \in Seq(E), NEW f, Grown(f, [i \in DOMAIN s |-> <<s[i]>>], E)
  PROVE  f[Len(s)] = s
<1> DEFINE p == [i \in DOMAIN s |-> <<s[i]>>]
           N == Len(s)
           T == {k \in Nat : k <= N => Len(f[k]) = k /\ \A i \in 1..k : f[k][i] = s[i]}
<1>1. /\ N \in Nat /\ DOMAIN s = 1..N /\ \A i \in 1..N : s[i] \in E
      /\ Len(p) = N /\ \A i \in 1..N : p[i] = <<s[i]>>
  OBVIOUS
<1>2. /\ f[0] = <<>>
      /\ \A k \in Nat : f[k] \in Seq(E)
      /\ \A k \in 1..N : f[k] = f[k - 1] \o p[k]
  <2> HIDE DEF p, N
  <2> QED BY <1>1 DEF Grown, p
<1> HIDE DEF p, N
<1>3. 0 \in T
  BY <1>2
<1>4. ASSUME NEW k \in Nat, k \in T PROVE k + 1 \in T
  <2> SUFFICES ASSUME k + 1 <= N
               PROVE  Len(f[k + 1]) = k + 1 /\ \A i \in 1..(k + 1) : f[k + 1][i] = s[i]
    OBVIOUS
  <2> DEFINE x == f[k]
             e == s[k + 1]
  <2>1. k + 1 \in 1..N /\ (k + 1) - 1 = k
    BY <1>1
  <2>2. x \in Seq(E) /\ e \in E /\ f[k + 1] = x \o <<e>>
    <3>1. p[k + 1] = <<e>> /\ f[k + 1] = f[(k + 1) - 1] \o p[k + 1]
      BY <1>1, <1>2, <2>1
    <3> QED BY <1>1, <1>2, <2>1, <3>1
  <2>3. Len(x) = k /\ \A i \in 1..k : x[i] = s[i]
    BY <1>1, <1>4, <2>1
  <2> HIDE DEF x
  <2>4. Len(x \o <<e>>) = k + 1 /\ (x \o <<e>>)[k + 1] = e /\ \A i \in 1..k : (x \o <<e>>)[i] = x[i]
    <3> HIDE DEF e
    <3>1. Len(x) = k
      BY <2>3
    <3> QED BY <2>2, <3>1
  <2>5. \A i \in 1..(k + 1) : i = k + 1 \/ i \in 1..k
    OBVIOUS
  <2> QED BY <2>2, <2>3, <2>4, <2>5
<1> HIDE DEF T
<1>5. Nat \subseteq T
  BY <1>3, <1>4, SetInduction
<1>6. Len(f[N]) = N /\ (\A i \in 1..N : f[N][i] = s[i]) /\ f[N] \in Seq(E)
  <2>1. N \in T
    BY <1>1, <1>5
  <2> QED BY <1>1, <1>2, <2>1 DEF T
<1>7. f[N] = [i \in 1..N |-> f[N][i]] /\ s = [i \in 1..N |-> s[i]]
  <2>1. \A t \in Seq(E) : t = [i \in 1..Len(t) |-> t[i]]
    OBVIOUS
  <2>2. Len(s) = N
    BY DEF N
  <2> QED BY <1>6, <2>1, <2>2
<1> QED BY <1>6, <1>7 DEF N

\* What grows by at most c with each piece.
LEMMA GrownLength ==
  ASSUME NEW E, NEW pieces \in Seq(Seq(E)), NEW f, Grown(f, pieces, E), NEW c \in Nat,
         \A k \in 1..Len(pieces) : Len(pieces[k]) <= c
  PROVE  Len(f[Len(pieces)]) <= Len(pieces) * c
<1> DEFINE N == Len(pieces)
           T == {k \in Nat : k <= N => Len(f[k]) <= k * c}
<1>1. N \in Nat
  OBVIOUS
<1>2. /\ f[0] = <<>>
      /\ \A k \in Nat : f[k] \in Seq(E)
      /\ \A k \in 1..N : pieces[k] \in Seq(E) /\ f[k] = f[k - 1] \o pieces[k]
  BY Zenon DEF Grown
<1>3. \A k \in 1..N : Len(pieces[k]) <= c
  OBVIOUS
<1> HIDE DEF N
<1>4. 0 \in T
  <2>1. Len(f[0]) = 0 /\ 0 * c = 0
    BY <1>2
  <2> QED BY <2>1
<1>5. ASSUME NEW k \in Nat, k \in T PROVE k + 1 \in T
  <2> SUFFICES ASSUME k + 1 <= N PROVE Len(f[k + 1]) <= (k + 1) * c
    OBVIOUS
  <2> DEFINE x == f[k]
             y == pieces[k + 1]
  <2>1. k + 1 \in 1..N /\ (k + 1) - 1 = k /\ Len(x) <= k * c
    BY <1>1, <1>5
  <2>2. x \in Seq(E) /\ y \in Seq(E) /\ f[k + 1] = x \o y /\ Len(y) <= c
    BY <1>2, <1>3, <2>1
  <2> HIDE DEF x, y
  <2>3. Len(x \o y) = Len(x) + Len(y) /\ Len(x) \in Nat /\ Len(y) \in Nat
    BY <2>2
  <2>4. (k + 1) * c = (k * c) + c /\ k * c \in Nat
    OBVIOUS
  <2> QED BY <2>1, <2>2, <2>3, <2>4
<1> HIDE DEF T
<1>6. Nat \subseteq T
  BY <1>4, <1>5, SetInduction
<1>7. N \in T
  BY <1>1, <1>6
<1> QED BY <1>1, <1>7 DEF T, N

\* A reader can make its steps.
LEMMA Reading ==
  ASSUME NEW O, NEW step \in [Readers(O) -> Readers(O)], NEW bytes \in Seq(Nat)
  PROVE  \E h : h = [n \in 0..Len(bytes) |-> IF n = 0 THEN FR!Reader ELSE step[h[n - 1]]]
                /\ h \in [0..Len(bytes) -> Readers(O)]
<1> DEFINE S == Readers(O)
           next == [p \in S \X Nat |-> step[p[1]]]
           N == Len(bytes)
<1>1. FR!Reader \in S
  <2>1. [at |-> 1, got |-> <<>>] \in S
    BY DEF Readers
  <2> QED BY <2>1, Zenon DEF FR!Reader
<1>2. next \in [S \X Nat -> S]
  <2> HIDE DEF S
  <2>1. step \in [S -> S]
    BY DEF S
  <2> QED BY <2>1
<1>3. PICK h : Iterates(h, S, bytes, FR!Reader, next)
  <2> HIDE DEF S, next
  <2> QED BY <1>1, <1>2, Iteration
<1>4. /\ h \in [0..N -> S]
      /\ h = [n \in 0..N |-> IF n = 0 THEN FR!Reader ELSE next[<<h[n - 1], bytes[n]>>]]
  BY <1>3, Zenon DEF Iterates
<1>5. ASSUME NEW n \in 0..N, n # 0 PROVE next[<<h[n - 1], bytes[n]>>] = step[h[n - 1]]
  <2>1. n - 1 \in 0..N /\ n \in 1..N /\ bytes[n] \in Nat
    BY <1>5
  <2> HIDE DEF N, S
  <2>2. h[n - 1] \in S
    BY <1>4, <2>1
  <2> QED BY <2>1, <2>2
<1> HIDE DEF next, S, N
<1>6. h = [n \in 0..N |-> IF n = 0 THEN FR!Reader ELSE step[h[n - 1]]]
  BY <1>4, <1>5
<1> QED BY <1>4, <1>6 DEF S, N

\* A solution of the recursion of Strings.
StringReads(bytes, h) ==
  h = [n \in 0..Len(bytes) |-> IF n = 0 THEN FR!Reader ELSE FR!ReadString(bytes, h[n - 1])]

\* If there is one, the strings are one's.
LEMMA StringsAre ==
  ASSUME NEW bytes, \E h : StringReads(bytes, h)
  PROVE  \E h : StringReads(bytes, h) /\ FR!Strings(bytes) = h[Len(bytes)].got
<1> DEFINE g == CHOOSE h : StringReads(bytes, h)
<1>1. StringReads(bytes, g)
  BY Zenon
<1>2. FR!Strings(bytes) = g[Len(bytes)].got
  BY Zenon DEF FR!Strings, StringReads
<1> QED BY <1>1, <1>2, Zenon

\* A reader of strings as a function.
StringStep(bytes) == [r \in Readers(Seq(Nat)) |-> FR!ReadString(bytes, r)]

\* It is a reader after each string.
LEMMA StringStepIs ==
  ASSUME NEW bytes \in Seq(Nat)
  PROVE  StringStep(bytes) \in [Readers(Seq(Nat)) -> Readers(Seq(Nat))]
<1> SUFFICES ASSUME NEW r \in Readers(Seq(Nat)) PROVE FR!ReadString(bytes, r) \in Readers(Seq(Nat))
  BY DEF StringStep
<1> DEFINE len == FR!Number(FR!Field(bytes, r.at, 2), FALSE)
           v == FR!Field(bytes, r.at + 2, len)
<1>1. r.at \in Nat \ {0} /\ r.got \in Seq(Seq(Nat)) /\ r.at + 2 \in Nat \ {0}
  BY DEF Readers
<1>2. len \in Nat
  BY <1>1, FieldBytes, NumberIs
<1>3. v \in Seq(Nat)
  <2> HIDE DEF len
  <2> QED BY <1>1, <1>2, FieldBytes
<1>4. FR!ReadString(bytes, r) = IF r.at > Len(bytes) THEN r
                                ELSE [at |-> r.at + 2 + len, got |-> Append(r.got, v)]
  BY Zenon DEF FR!ReadString
<1> HIDE DEF len, v
<1>5. r.at + 2 + len \in Nat \ {0} /\ Append(r.got, v) \in Seq(Seq(Nat))
  BY <1>1, <1>2, <1>3
<1>6. [at |-> r.at + 2 + len, got |-> Append(r.got, v)] \in Readers(Seq(Nat))
  BY <1>5 DEF Readers
<1> QED BY <1>4, <1>6

\* The strings are what it has when it has gone through the bytes.
LEMMA StringLoop ==
  ASSUME NEW bytes \in Seq(Nat)
  PROVE  \E h : /\ Reads(h, StringStep(bytes), Len(bytes), Seq(Nat))
                /\ FR!Strings(bytes) = h[Len(bytes)].got
<1> DEFINE N == Len(bytes)
           S == Readers(Seq(Nat))
           step == StringStep(bytes)
<1>1. N \in Nat /\ step \in [S -> S]
  BY StringStepIs
<1>2. PICK g : /\ g = [n \in 0..N |-> IF n = 0 THEN FR!Reader ELSE step[g[n - 1]]]
               /\ g \in [0..N -> S]
  <2> HIDE DEF step
  <2> QED BY <1>1, Reading
<1>3. \A r \in S : step[r] = FR!ReadString(bytes, r)
  BY DEF StringStep
<1> HIDE DEF step, S, N
<1>4. g = [n \in 0..N |-> IF n = 0 THEN FR!Reader ELSE FR!ReadString(bytes, g[n - 1])]
  <2>1. ASSUME NEW n \in 0..N, n # 0 PROVE step[g[n - 1]] = FR!ReadString(bytes, g[n - 1])
    <3>1. n - 1 \in 0..N
      BY <1>1, <2>1
    <3> QED BY <1>2, <1>3, <3>1
  <2> QED BY <1>2, <2>1
<1>5. StringReads(bytes, g)
  BY <1>4 DEF StringReads, N
<1>6. PICK h : StringReads(bytes, h) /\ FR!Strings(bytes) = h[N].got
  BY <1>5, StringsAre DEF N
<1>7. h = [n \in 0..N |-> IF n = 0 THEN FR!Reader ELSE FR!ReadString(bytes, h[n - 1])]
  BY <1>6, Zenon DEF StringReads, N
<1>8. h[0] = FR!Reader /\ \A n \in 1..N : h[n] = FR!ReadString(bytes, h[n - 1])
  BY <1>1, <1>7
<1>9. Reads(h, step, N, Seq(Nat))
  BY <1>3, <1>8 DEF Reads, S
<1> QED BY <1>6, <1>9 DEF N, step

\* Any bytes are read as strings.
LEMMA StringsType ==
  ASSUME NEW bytes \in Seq(Nat)
  PROVE  FR!Strings(bytes) \in Seq(Seq(Nat))
<1> DEFINE N == Len(bytes)
<1>1. N \in Nat
  OBVIOUS
<1>2. PICK h : Reads(h, StringStep(bytes), N, Seq(Nat)) /\ FR!Strings(bytes) = h[N].got
  BY StringLoop
<1> HIDE DEF N
<1>3. h[N] \in Readers(Seq(Nat))
  BY <1>1, <1>2, StringStepIs, ReadersStep
<1> QED BY <1>2, <1>3 DEF Readers

\* The length of a string, low byte first on every host, and the string.
LEMMA PackedIs ==
  ASSUME NEW v \in Seq(Nat), NEW be \in BOOLEAN
  PROVE  FR!PackString(v, be) = FR!LE(Len(v), 2) \o v
<1> DEFINE s == FR!LE(Len(v), 2)
<1>1. s \in Seq(Nat) /\ Len(s) = 2
  BY LEBytes
<1>2. FR!HostBytes(Len(v), 2, be) = IF be THEN FR!Reverse(s) ELSE s
  BY Zenon DEF FR!HostBytes
<1> HIDE DEF s
<1>3. FR!Swab(FR!Reverse(s)) = s
  <2>1. FR!Reverse(s) = [i \in 1..2 |-> s[(2 - i) + 1]]
    BY <1>1 DEF FR!Reverse
  <2>2. FR!Reverse(s)[1] = s[2] /\ FR!Reverse(s)[2] = s[1]
    BY <2>1
  <2>3. FR!Swab(FR!Reverse(s)) = <<s[1], s[2]>>
    BY <2>2 DEF FR!Swab
  <2> QED BY <1>1, <2>3
<1>4. CASE be
  BY <1>2, <1>3, <1>4 DEF FR!PackString, s
<1>5. CASE ~be
  BY <1>2, <1>5 DEF FR!PackString, s
<1> QED BY <1>4, <1>5

\* What two sequences together are.
LEMMA LenConcat ==
  ASSUME NEW x \in Seq(Nat), NEW y \in Seq(Nat)
  PROVE  x \o y \in Seq(Nat) /\ Len(x \o y) = Len(x) + Len(y)
OBVIOUS

\* A string that stands somewhere is read there.
LEMMA StringRead ==
  ASSUME NEW bytes \in Seq(Nat), NEW v \in Seq(Nat), Len(v) < Base * Base,
         NEW r \in Readers(Seq(Nat)), Stands(bytes, r.at, FR!LE(Len(v), 2) \o v)
  PROVE  FR!ReadString(bytes, r) =
           [at |-> r.at + Len(FR!LE(Len(v), 2) \o v), got |-> r.got \o <<v>>]
<1> DEFINE n == Len(v)
           l == FR!LE(n, 2)
           a == r.at
<1>1. n \in Nat /\ l \in Seq(Nat) /\ Len(l) = 2 /\ a \in Nat \ {0} /\ r.got \in Seq(Seq(Nat))
  BY LEBytes DEF Readers
<1>2. FR!Number(l, FALSE) = n
  BY <1>1, NumberRead
<1> HIDE DEF n, l, a
<1>3. Stands(bytes, a, l \o v)
  BY DEF l, n, a
<1>4. Stands(bytes, a, l) /\ Stands(bytes, a + 2, v)
  BY <1>1, <1>3, StandsParts
<1>5. FR!Field(bytes, a, 2) = l
  BY <1>1, <1>4, FieldIs
<1>6. FR!Field(bytes, a + 2, n) = v
  <2>1. a + 2 \in Nat \ {0}
    BY <1>1
  <2> QED BY <1>4, <2>1, FieldIs DEF n
<1>7. ~(a > Len(bytes))
  <2>1. a + 2 - 1 <= Len(bytes) /\ Len(bytes) \in Nat
    BY <1>1, <1>4 DEF Stands
  <2> QED BY <1>1, <2>1
<1>8. FR!ReadString(bytes, r) = [at |-> a + 2 + n, got |-> Append(r.got, v)]
  <2>1. FR!Number(FR!Field(bytes, a, 2), FALSE) = n
    BY <1>2, <1>5
  <2>2. FR!ReadString(bytes, r) =
          [at |-> a + 2 + FR!Number(FR!Field(bytes, a, 2), FALSE),
           got |-> Append(r.got, FR!Field(bytes, a + 2, FR!Number(FR!Field(bytes, a, 2), FALSE)))]
    BY <1>7, Zenon DEF FR!ReadString, a
  <2> QED BY <1>6, <2>1, <2>2
<1>9. a + 2 + n = a + Len(l \o v)
  <2>1. Len(l \o v) = Len(l) + Len(v)
    BY <1>1, LenConcat
  <2>2. Len(v) = n
    BY DEF n
  <2> HIDE DEF n
  <2> QED BY <1>1, <2>1, <2>2
<1>10. Append(r.got, v) = r.got \o <<v>>
  <2>1. \A g \in Seq(Seq(Nat)) : Append(g, v) = g \o <<v>>
    OBVIOUS
  <2> QED BY <1>1, <2>1
<1> QED BY <1>8, <1>9, <1>10 DEF a, l, n

\* What DISKCHECK packs is bytes, so many more than the strings: their lengths.
LEMMA PackedBytes ==
  ASSUME NEW strings \in Seq(Seq(Nat)), NEW be \in BOOLEAN, NEW c \in Nat,
         \A i \in 1..Len(strings) : Len(strings[i]) + 2 <= c
  PROVE  /\ FR!Packed(strings, be) \in Seq(Nat)
         /\ Len(FR!Packed(strings, be)) <= Len(strings) * c
<1> DEFINE N == Len(strings)
           piece(v) == FR!LE(Len(v), 2) \o v
           pieces == [i \in DOMAIN strings |-> piece(strings[i])]
           bytes == FR!Packed(strings, be)
<1>1. N \in Nat /\ DOMAIN strings = 1..N
  OBVIOUS
<1>2. \A i \in 1..N : strings[i] \in Seq(Nat) /\ Len(strings[i]) + 2 <= c
  OBVIOUS
<1>3. ASSUME NEW i \in 1..N
      PROVE  LET v == strings[i] IN
             /\ piece(v) \in Seq(Nat) /\ Len(piece(v)) = 2 + Len(v) /\ FR!PackString(v, be) = piece(v)
  <2> DEFINE v == strings[i]
             l == FR!LE(Len(v), 2)
  <2>1. v \in Seq(Nat) /\ Len(v) \in Nat
    BY <1>2
  <2>2. l \in Seq(Nat) /\ Len(l) = 2 /\ FR!PackString(v, be) = l \o v
    <3> HIDE DEF v
    <3> QED BY <2>1, LEBytes, PackedIs
  <2> HIDE DEF v, l
  <2>3. l \o v \in Seq(Nat) /\ Len(l \o v) = 2 + Len(v)
    BY <2>1, <2>2, LenConcat
  <2> QED BY <2>2, <2>3 DEF v, l
<1> HIDE DEF piece
<1>4. /\ pieces \in Seq(Seq(Nat)) /\ Len(pieces) = N
      /\ \A i \in 1..N : pieces[i] = piece(strings[i])
  <2> HIDE DEF N
  <2> QED BY <1>1, <1>3
<1>5. bytes = FR!FlattenSeq(pieces)
  <2>1. [i \in DOMAIN strings |-> FR!PackString(strings[i], be)] = pieces
    <3> HIDE DEF N
    <3> QED BY <1>1, <1>3
  <2> HIDE DEF pieces
  <2> QED BY <2>1, Zenon DEF FR!Packed
<1> HIDE DEF pieces, bytes
<1>6. PICK f : Grown(f, pieces, Nat) /\ bytes = f[N]
  BY <1>4, <1>5, Flattened
<1>7. bytes \in Seq(Nat)
  <2> HIDE DEF N
  <2> QED BY <1>1, <1>6 DEF Grown
<1>8. \A k \in 1..N : Len(pieces[k]) <= c
  <2> TAKE k \in 1..N
  <2> DEFINE v == strings[k]
  <2>1. Len(pieces[k]) = 2 + Len(v) /\ Len(v) + 2 <= c /\ Len(v) \in Nat
    BY <1>2, <1>3, <1>4
  <2> HIDE DEF v
  <2> QED BY <2>1
<1>9. Len(f[N]) <= N * c
  <2> HIDE DEF N
  <2> QED BY <1>1, <1>4, <1>6, <1>8, GrownLength
<1> QED BY <1>6, <1>7, <1>9 DEF bytes, N

\* The strings of which two bytes tell the length.
ShortStrings == {v \in Seq(Nat) : Len(v) < Base * Base}

\* What DISKCHECK packs is read as the strings it packed.
LEMMA StringsOf ==
  ASSUME NEW strings \in Seq(ShortStrings), NEW be \in BOOLEAN
  PROVE  FR!Strings(FR!Packed(strings, be)) = strings
<1> DEFINE O == Seq(Nat)
           N == Len(strings)
           piece(v) == FR!LE(Len(v), 2) \o v
           pieces == [i \in DOMAIN strings |-> piece(strings[i])]
           out == [i \in DOMAIN strings |-> <<strings[i]>>]
           bytes == FR!Packed(strings, be)
<1>1. N \in Nat /\ DOMAIN strings = 1..N
  OBVIOUS
<1>2. \A i \in 1..N : strings[i] \in O /\ Len(strings[i]) < Base * Base
  <2>1. \A i \in 1..N : strings[i] \in ShortStrings
    BY <1>1
  <2> QED BY <2>1 DEF ShortStrings
<1>3. ASSUME NEW i \in 1..N
      PROVE  LET v == strings[i] IN
             /\ piece(v) \in Seq(Nat) /\ Len(piece(v)) = 2 + Len(v) /\ FR!PackString(v, be) = piece(v)
  <2> DEFINE v == strings[i]
             l == FR!LE(Len(v), 2)
  <2>1. v \in Seq(Nat) /\ Len(v) \in Nat
    BY <1>2
  <2>2. l \in Seq(Nat) /\ Len(l) = 2 /\ FR!PackString(v, be) = l \o v
    <3> HIDE DEF v
    <3> QED BY <2>1, LEBytes, PackedIs
  <2> HIDE DEF v, l
  <2>3. l \o v \in Seq(Nat) /\ Len(l \o v) = 2 + Len(v)
    BY <2>1, <2>2, LenConcat
  <2> QED BY <2>2, <2>3 DEF v, l
<1> HIDE DEF piece
<1>4. /\ pieces \in Seq(Seq(Nat)) /\ Len(pieces) = N
      /\ \A i \in 1..N : pieces[i] = piece(strings[i])
  <2> HIDE DEF N
  <2> QED BY <1>1, <1>3
<1>5. out \in Seq(Seq(O)) /\ Len(out) = N /\ \A i \in 1..N : out[i] = <<strings[i]>>
  <2> HIDE DEF N
  <2>1. \A i \in 1..N : <<strings[i]>> \in Seq(O)
    <3> HIDE DEF O
    <3> QED BY <1>2
  <2> HIDE DEF O
  <2> QED BY <1>1, <2>1
<1>6. bytes = FR!FlattenSeq(pieces)
  <2>1. [i \in DOMAIN strings |-> FR!PackString(strings[i], be)] = pieces
    <3> HIDE DEF N
    <3> QED BY <1>1, <1>3
  <2> HIDE DEF pieces
  <2> QED BY <2>1, Zenon DEF FR!Packed
<1> HIDE DEF pieces, bytes
<1>7. PICK f : Grown(f, pieces, Nat) /\ bytes = f[N]
  BY <1>4, <1>6, Flattened
<1>8. PICK g : Grown(g, out, O) /\ g[N] = strings
  <2>1. strings \in Seq(O)
    <3> HIDE DEF N, O
    <3> QED BY <1>1, <1>2
  <2>2. PICK g : Grown(g, out, O)
    <3> HIDE DEF out, O
    <3> QED BY <1>5, Flattened
  <2>3. g[N] = strings
    <3> HIDE DEF O
    <3> QED BY <2>1, <2>2, Singles
  <2> QED BY <2>2, <2>3
<1> HIDE DEF out
<1>9. bytes \in Seq(Nat)
  <2> HIDE DEF N
  <2> QED BY <1>1, <1>7 DEF Grown
<1>10. PICK h : Reads(h, StringStep(bytes), Len(bytes), O) /\ FR!Strings(bytes) = h[Len(bytes)].got
  BY <1>9, StringLoop
<1>11. Follows(StringStep(bytes), bytes, pieces, out, O)
  <2> DEFINE step == StringStep(bytes)
  <2>1. \A r \in Readers(O) : step[r] = FR!ReadString(bytes, r)
    BY Zenon DEF StringStep
  <2> HIDE DEF step
  <2>2. ASSUME NEW r \in Readers(O), r.at > Len(bytes) PROVE step[r] = r
    BY <2>1, <2>2, Zenon DEF FR!ReadString
  <2>3. ASSUME NEW k \in 1..N
        PROVE  /\ Len(pieces[k]) > 0
               /\ \A r \in Readers(O) : Stands(bytes, r.at, pieces[k]) =>
                    step[r] = [at |-> r.at + Len(pieces[k]), got |-> r.got \o out[k]]
    <3> DEFINE v == strings[k]
    <3>1. /\ v \in Seq(Nat) /\ Len(v) < Base * Base /\ pieces[k] = piece(v) /\ out[k] = <<v>>
          /\ Len(piece(v)) = 2 + Len(v)
      BY <1>2, <1>3, <1>4, <1>5
    <3> HIDE DEF v
    <3>2. Len(pieces[k]) > 0
      BY <3>1
    <3>3. ASSUME NEW r \in Readers(O), Stands(bytes, r.at, pieces[k])
          PROVE  step[r] = [at |-> r.at + Len(pieces[k]), got |-> r.got \o out[k]]
      <4>1. Stands(bytes, r.at, FR!LE(Len(v), 2) \o v)
        BY <3>1, <3>3 DEF piece
      <4>2. FR!ReadString(bytes, r) =
              [at |-> r.at + Len(FR!LE(Len(v), 2) \o v), got |-> r.got \o <<v>>]
        BY <1>9, <3>1, <4>1, StringRead
      <4> QED BY <2>1, <3>1, <4>2, Zenon DEF piece
    <3> QED BY <3>2, <3>3
  <2> HIDE DEF O, N
  <2>4. \A k \in 1..Len(pieces) : k \in 1..N
    BY <1>4
  <2> QED BY <2>2, <2>3, <2>4, Zenon DEF Follows, step
<1>12. h[Len(bytes)].got = g[N]
  <2>1. StringStep(bytes) \in [Readers(O) -> Readers(O)]
    BY <1>9, StringStepIs
  <2>2. Len(pieces) = N /\ Len(out) = Len(pieces) /\ bytes = f[Len(pieces)]
    BY <1>4, <1>5, <1>7
  <2> DEFINE step == StringStep(bytes)
  <2>3. step \in [Readers(O) -> Readers(O)] /\ pieces \in Seq(Seq(Nat))
    BY <1>4, <2>1
  <2> HIDE DEF O, N, step
  <2>4. Reads(h, step, Len(f[Len(pieces)]), O) /\ Follows(step, f[Len(pieces)], pieces, out, O)
    BY <1>10, <1>11, <2>2, Zenon DEF step
  <2>5. ReadsAll(step, h, pieces, f, out, g, O)
    <3>1. Grown(f, pieces, Nat) /\ Grown(g, out, O)
      BY <1>7, <1>8, Zenon
    <3>2. Len(out) = Len(pieces)
      BY <2>2
    <3> QED BY <2>3, <2>4, <3>1, <3>2, Zenon DEF ReadsAll
  <2>6. AllGot(h, pieces, f, g)
    BY <2>5, AllRead, Zenon
  <2> QED BY <2>2, <2>6 DEF AllGot
<1> QED BY <1>8, <1>10, <1>12 DEF bytes

\* The segments a reader has.
ReadSegments == [name : Seq(Nat), strings : Seq(Seq(Nat))]

\* A solution of the recursion of Parsed.
SegmentReads(bytes, be, h) ==
  h = [n \in 0..Len(bytes) |-> IF n = 0 THEN FR!Reader ELSE FR!ReadSegment(bytes, h[n - 1], be)]

\* If there is one, the segments are one's.
LEMMA ParsedIs ==
  ASSUME NEW bytes, NEW be, \E h : SegmentReads(bytes, be, h)
  PROVE  \E h : SegmentReads(bytes, be, h) /\ FR!Parsed(bytes, be) = h[Len(bytes)].got
<1> DEFINE g == CHOOSE h : SegmentReads(bytes, be, h)
<1>1. SegmentReads(bytes, be, g)
  BY Zenon
<1>2. FR!Parsed(bytes, be) = g[Len(bytes)].got
  BY Zenon DEF FR!Parsed, SegmentReads
<1> QED BY <1>1, <1>2, Zenon

\* A reader of segments as a function.
SegmentStep(bytes, be) == [r \in Readers(ReadSegments) |-> FR!ReadSegment(bytes, r, be)]

\* A number in front of a segment.
LEMMA FieldNumber ==
  ASSUME NEW bytes \in Seq(Nat), NEW from \in Nat \ {0}, NEW n \in Nat, NEW be \in BOOLEAN
  PROVE  FR!Number(FR!Field(bytes, from, n), be) \in Nat
BY FieldBytes, NumberIs

\* It is a reader after each segment.
LEMMA SegmentStepIs ==
  ASSUME NEW bytes \in Seq(Nat), NEW be \in BOOLEAN
  PROVE  SegmentStep(bytes, be) \in [Readers(ReadSegments) -> Readers(ReadSegments)]
<1> SUFFICES ASSUME NEW r \in Readers(ReadSegments)
             PROVE  FR!ReadSegment(bytes, r, be) \in Readers(ReadSegments)
  BY DEF SegmentStep
<1> DEFINE nameLen == FR!Number(FR!Field(bytes, r.at, 1), be)
           dataLen == FR!Number(FR!Field(bytes, r.at + 1, 4), be)
           data == r.at + 5 + nameLen
           name == FR!Field(bytes, r.at + 5, nameLen)
           strings == FR!Strings(FR!Field(bytes, data, dataLen))
<1>1. /\ r.at \in Nat \ {0} /\ r.got \in Seq(ReadSegments)
      /\ r.at + 1 \in Nat \ {0} /\ r.at + 5 \in Nat \ {0}
  BY DEF Readers
<1>2. nameLen \in Nat /\ dataLen \in Nat
  BY <1>1, FieldNumber
<1>3. FR!ReadSegment(bytes, r, be) =
        IF r.at > Len(bytes) THEN r
        ELSE [at |-> data + dataLen, got |-> Append(r.got, [name |-> name, strings |-> strings])]
  BY Zenon DEF FR!ReadSegment
<1> HIDE DEF nameLen, dataLen
<1>4. data \in Nat \ {0} /\ data + dataLen \in Nat \ {0}
  BY <1>1, <1>2
<1>5. name \in Seq(Nat)
  BY <1>1, <1>2, FieldBytes
<1> HIDE DEF data
<1>6. strings \in Seq(Seq(Nat))
  BY <1>2, <1>4, FieldBytes, StringsType
<1> HIDE DEF name, strings
<1>7. [name |-> name, strings |-> strings] \in ReadSegments
  BY <1>5, <1>6 DEF ReadSegments
<1>8. Append(r.got, [name |-> name, strings |-> strings]) \in Seq(ReadSegments)
  BY <1>1, <1>7
<1>9. [at |-> data + dataLen, got |-> Append(r.got, [name |-> name, strings |-> strings])]
        \in Readers(ReadSegments)
  BY <1>4, <1>8 DEF Readers
<1> QED BY <1>3, <1>9

\* The segments are what it has when it has gone through the bytes.
LEMMA SegmentLoop ==
  ASSUME NEW bytes \in Seq(Nat), NEW be \in BOOLEAN
  PROVE  \E h : /\ Reads(h, SegmentStep(bytes, be), Len(bytes), ReadSegments)
                /\ FR!Parsed(bytes, be) = h[Len(bytes)].got
<1> DEFINE N == Len(bytes)
           S == Readers(ReadSegments)
           step == SegmentStep(bytes, be)
<1>1. N \in Nat /\ step \in [S -> S]
  BY SegmentStepIs
<1>2. PICK g : /\ g = [n \in 0..N |-> IF n = 0 THEN FR!Reader ELSE step[g[n - 1]]]
               /\ g \in [0..N -> S]
  <2> HIDE DEF step
  <2> QED BY <1>1, Reading
<1>3. \A r \in S : step[r] = FR!ReadSegment(bytes, r, be)
  BY DEF SegmentStep
<1> HIDE DEF step, S, N
<1>4. g = [n \in 0..N |-> IF n = 0 THEN FR!Reader ELSE FR!ReadSegment(bytes, g[n - 1], be)]
  <2>1. ASSUME NEW n \in 0..N, n # 0 PROVE step[g[n - 1]] = FR!ReadSegment(bytes, g[n - 1], be)
    <3>1. n - 1 \in 0..N
      BY <1>1, <2>1
    <3> QED BY <1>2, <1>3, <3>1
  <2> QED BY <1>2, <2>1
<1>5. SegmentReads(bytes, be, g)
  BY <1>4 DEF SegmentReads, N
<1>6. PICK h : SegmentReads(bytes, be, h) /\ FR!Parsed(bytes, be) = h[N].got
  BY <1>5, ParsedIs DEF N
<1>7. h = [n \in 0..N |-> IF n = 0 THEN FR!Reader ELSE FR!ReadSegment(bytes, h[n - 1], be)]
  BY <1>6, Zenon DEF SegmentReads, N
<1>8. h[0] = FR!Reader /\ \A n \in 1..N : h[n] = FR!ReadSegment(bytes, h[n - 1], be)
  BY <1>1, <1>7
<1>9. Reads(h, step, N, ReadSegments)
  BY <1>3, <1>8 DEF Reads, S
<1> QED BY <1>6, <1>9 DEF N, step

\* A segment of which one byte tells the length of the name, and four that of the
\* strings.
FineSegment(s) ==
  /\ s.name \in Seq(Nat) /\ Len(s.name) < Base
  /\ s.strings \in Seq(Seq(Nat)) /\ Len(s.strings) <= MaxStrings
  /\ \A i \in 1..Len(s.strings) : Len(s.strings[i]) <= MaxText
  /\ s.function = "NULL" => s.strings = <<>>

\* Its data are the strings, if two bytes tell the length of each.
LEMMA SegmentData ==
  ASSUME NEW s, FineSegment(s), NEW be \in BOOLEAN
  PROVE  /\ FR!Data(s, be) \in Seq(Nat) /\ Len(FR!Data(s, be)) < (Base * Base) * (Base * Base)
         /\ s.strings \in Seq(ShortStrings) => FR!Strings(FR!Data(s, be)) = s.strings
<1> DEFINE data == FR!Packed(s.strings, be)
           c == MaxText + 2
           d == (Base * Base) * (Base * Base)
           n == Len(s.strings)
<1>1. /\ s.strings \in Seq(Seq(Nat)) /\ n \in Nat /\ n <= MaxStrings
      /\ \A i \in 1..n : Len(s.strings[i]) <= MaxText
      /\ s.function = "NULL" => s.strings = <<>>
  BY DEF FineSegment
<1>2. c \in Nat /\ MaxStrings \in Nat /\ MaxText \in Nat /\ d \in Nat /\ MaxStrings * c < d
  <2>1. Base \in Nat /\ MaxStrings \in Nat /\ MaxText \in Nat /\ MaxStrings * c < d
    BY FramingAssumption
  <2>2. \A m, k \in Nat : m * k \in Nat /\ m + 2 \in Nat
    OBVIOUS
  <2>3. Base * Base \in Nat
    BY <2>1, <2>2
  <2> QED BY <2>1, <2>2, <2>3, Zenon
<1>3. \A i \in 1..n : Len(s.strings[i]) + 2 <= c
  <2> TAKE i \in 1..n
  <2> DEFINE v == s.strings[i]
  <2>1. v \in Seq(Nat)
    BY <1>1
  <2>2. Len(v) \in Nat /\ Len(v) <= MaxText
    BY <1>1, <2>1
  <2> HIDE DEF v
  <2>3. Len(v) + 2 <= c
    BY <1>2, <2>2
  <2> QED BY <2>3 DEF v
<1> HIDE DEF c, d
<1>4. data \in Seq(Nat) /\ Len(data) <= n * c
  BY <1>1, <1>2, <1>3, PackedBytes
<1>5. s.strings \in Seq(ShortStrings) => FR!Strings(data) = s.strings
  BY StringsOf
<1>6. FR!Data(s, be) = data
  <2>1. CASE s.function = "NULL"
    <3>1. s.strings = <<>>
      BY <1>1, <2>1
    <3>2. [i \in DOMAIN s.strings |-> FR!PackString(s.strings[i], be)] = <<>>
      BY <3>1
    <3>3. data = FR!FlattenSeq(<<>>)
      BY <3>2, Zenon DEF FR!Packed
    <3>4. data = <<>>
      BY <3>3 DEF FR!FlattenSeq
    <3> HIDE DEF data
    <3> QED BY <2>1, <3>4 DEF FR!Data
  <2>2. CASE s.function # "NULL"
    BY <2>2, Zenon DEF FR!Data
  <2> QED BY <2>1, <2>2
<1> HIDE DEF data, n
<1>7. Len(data) < d
  <2>1. Len(data) \in Nat
    BY <1>4
  <2>2. n * c <= MaxStrings * c /\ n * c \in Nat /\ MaxStrings * c \in Nat
    BY <1>1, <1>2
  <2> QED BY <1>2, <1>4, <2>1, <2>2
<1> QED BY <1>4, <1>5, <1>6, <1>7 DEF d

\* What is put in front of a segment and the segment.
Framed(n, m, name, data, be) ==
  ((FR!HostBytes(n, 1, be) \o FR!HostBytes(m, 4, be)) \o name) \o data

\* A segment that stands somewhere is read there.
LEMMA SegmentRead ==
  ASSUME NEW bytes \in Seq(Nat), NEW be \in BOOLEAN, NEW name \in Seq(Nat), NEW data \in Seq(Nat),
         Len(name) < Base, Len(data) < (Base * Base) * (Base * Base),
         NEW r \in Readers(ReadSegments),
         Stands(bytes, r.at, Framed(Len(name), Len(data), name, data, be))
  PROVE  FR!ReadSegment(bytes, r, be) =
           [at  |-> r.at + Len(Framed(Len(name), Len(data), name, data, be)),
            got |-> r.got \o <<[name |-> name, strings |-> FR!Strings(data)]>>]
<1> DEFINE n == Len(name)
           m == Len(data)
           x == FR!HostBytes(n, 1, be)
           y == FR!HostBytes(m, 4, be)
           xy == x \o y
           xyn == xy \o name
           a == r.at
           e == [name |-> name, strings |-> FR!Strings(data)]
<1>1. n \in Nat /\ m \in Nat /\ a \in Nat \ {0} /\ r.got \in Seq(ReadSegments)
  BY DEF Readers
<1>2. /\ x \in Seq(Nat) /\ Len(x) = 1 /\ FR!Number(x, be) = n
      /\ y \in Seq(Nat) /\ Len(y) = 4 /\ FR!Number(y, be) = m
  <2>1. FR!Number(FR!LE(n, 1), FALSE) = n
    BY <1>1, NumberRead
  <2>2. FR!Number(FR!LE(m, 4), FALSE) = m
    BY <1>1, NumberRead
  <2> HIDE DEF n, m
  <2> QED BY <1>1, <2>1, <2>2, HostOrder
<1>3. Stands(bytes, a, xyn \o data) /\ Framed(n, m, name, data, be) = xyn \o data
  BY Zenon DEF Framed
<1> HIDE DEF x, y, a
<1>4. xy \in Seq(Nat) /\ Len(xy) = 5
  <2>1. x \o y \in Seq(Nat) /\ Len(x \o y) = Len(x) + Len(y)
    BY <1>2, LenConcat, Zenon
  <2>2. Len(x) = 1 /\ Len(y) = 4
    BY <1>2
  <2> QED BY <2>1, <2>2
<1> HIDE DEF n, m
<1>5. xyn \in Seq(Nat) /\ Len(xyn) = 5 + n
  <2> HIDE DEF xy
  <2> QED BY <1>4, LenConcat DEF n
<1>6. Stands(bytes, a, xyn) /\ Stands(bytes, a + Len(xyn), data)
  <2> HIDE DEF xyn
  <2> QED BY <1>1, <1>3, <1>5, StandsParts
<1>7. Stands(bytes, a, xy) /\ Stands(bytes, a + Len(xy), name)
  <2> HIDE DEF xy
  <2> QED BY <1>1, <1>4, <1>6, StandsParts
<1>8. Stands(bytes, a, x) /\ Stands(bytes, a + Len(x), y)
  BY <1>1, <1>2, <1>7, StandsParts
<1>9. FR!Field(bytes, a, 1) = x /\ FR!Field(bytes, a + 1, 4) = y
  <2>1. a + 1 \in Nat \ {0}
    BY <1>1
  <2>2. FR!Field(bytes, a, Len(x)) = x
    BY <1>1, <1>2, <1>8, FieldIs
  <2>3. Stands(bytes, a + 1, y)
    BY <1>2, <1>8
  <2>4. FR!Field(bytes, a + 1, Len(y)) = y
    BY <1>2, <2>1, <2>3, FieldIs
  <2> QED BY <1>2, <2>2, <2>4
<1>10. FR!Field(bytes, a + 5, n) = name
  <2>1. a + 5 \in Nat \ {0} /\ Stands(bytes, a + 5, name)
    BY <1>1, <1>4, <1>7
  <2> QED BY <2>1, FieldIs DEF n
<1>11. FR!Field(bytes, a + 5 + n, m) = data
  <2>1. a + 5 + n \in Nat \ {0} /\ a + 5 + n = a + Len(xyn)
    BY <1>1, <1>5
  <2>2. Stands(bytes, a + 5 + n, data)
    BY <1>6, <2>1
  <2> QED BY <2>1, <2>2, FieldIs DEF m
<1>12. ~(a > Len(bytes))
  <2>1. a + 1 - 1 <= Len(bytes) /\ Len(bytes) \in Nat
    BY <1>2, <1>8 DEF Stands
  <2> QED BY <1>1, <2>1
<1>13. FR!ReadSegment(bytes, r, be) = [at |-> a + 5 + n + m, got |-> Append(r.got, e)]
  <2> DEFINE nameLen == FR!Number(FR!Field(bytes, a, 1), be)
             dataLen == FR!Number(FR!Field(bytes, a + 1, 4), be)
  <2>1. nameLen = n /\ dataLen = m
    BY <1>2, <1>9
  <2>2. FR!ReadSegment(bytes, r, be) =
          [at |-> a + 5 + nameLen + dataLen,
           got |-> Append(r.got, [name |-> FR!Field(bytes, a + 5, nameLen),
                                  strings |-> FR!Strings(FR!Field(bytes, a + 5 + nameLen, dataLen))])]
    BY <1>12, Zenon DEF FR!ReadSegment, a
  <2> HIDE DEF nameLen, dataLen
  <2> QED BY <1>10, <1>11, <2>1, <2>2
<1>14. a + 5 + n + m = a + Len(xyn \o data)
  <2> HIDE DEF xyn
  <2>1. Len(xyn \o data) = Len(xyn) + Len(data)
    BY <1>5, LenConcat
  <2>2. Len(data) = m
    BY DEF m
  <2> QED BY <1>1, <1>5, <2>1, <2>2
<1>15. Append(r.got, e) = r.got \o <<e>>
  <2>1. e \in ReadSegments
    BY StringsType DEF ReadSegments
  <2>2. \A g \in Seq(ReadSegments), s \in ReadSegments : Append(g, s) = g \o <<s>>
    OBVIOUS
  <2> QED BY <1>1, <2>1, <2>2, Zenon
<1> HIDE DEF xyn, e
<1> QED BY <1>3, <1>13, <1>14, <1>15 DEF a, n, m, e

\* What is read of a segment: nothing if it had nothing to send, else what its data
\* are read as.
Sent(s, be) ==
  IF s.function = "nothing" THEN <<>>
  ELSE <<[name |-> s.name, strings |-> FR!Strings(FR!Data(s, be))]>>

\* What begins with something is something.
LEMMA BeginsWith ==
  ASSUME NEW x \in Seq(Nat), NEW y \in Seq(Nat), Len(x) > 0
  PROVE  x \o y \in Seq(Nat) /\ Len(x \o y) > 0
OBVIOUS

\* A message is read as the segments that were put into it and had something to send.
LEMMA MessageIs ==
  ASSUME NEW S, NEW segments \in Seq(S), \A s \in S : FineSegment(s), NEW be \in BOOLEAN
  PROVE  FR!Parsed(FR!Message(segments, be), be) =
           FR!FlattenSeq([i \in DOMAIN segments |-> Sent(segments[i], be)])
<1> DEFINE O == ReadSegments
           N == Len(segments)
           piece(s) == IF FR!Sends(s) THEN FR!Segment(s, be) ELSE <<>>
           pieces == [i \in DOMAIN segments |-> piece(segments[i])]
           out == [i \in DOMAIN segments |-> Sent(segments[i], be)]
           bytes == FR!Message(segments, be)
<1>1. N \in Nat /\ DOMAIN segments = 1..N /\ \A i \in 1..N : FineSegment(segments[i])
  OBVIOUS
<1>2. ASSUME NEW i \in 1..N, segments[i].function # "nothing"
      PROVE  LET s == segments[i]
                 data == FR!Data(s, be)
                 frame == Framed(Len(s.name), Len(data), s.name, data, be)
             IN  /\ piece(s) = frame
                 /\ s.name \in Seq(Nat) /\ Len(s.name) < Base
                 /\ data \in Seq(Nat) /\ Len(data) < (Base * Base) * (Base * Base)
                 /\ frame \in Seq(Nat) /\ Len(frame) > 0
                 /\ Sent(s, be) = <<[name |-> s.name, strings |-> FR!Strings(data)]>>
                 /\ [name |-> s.name, strings |-> FR!Strings(data)] \in ReadSegments
  <2> DEFINE s == segments[i]
             data == FR!Data(s, be)
             frame == Framed(Len(s.name), Len(data), s.name, data, be)
  <2>1. FineSegment(s) /\ s.function # "nothing"
    BY <1>1, <1>2
  <2> HIDE DEF s
  <2>2. s.name \in Seq(Nat) /\ Len(s.name) < Base
    BY <2>1, Zenon DEF FineSegment
  <2>3. data \in Seq(Nat) /\ Len(data) < (Base * Base) * (Base * Base)
    BY <2>1, SegmentData
  <2> HIDE DEF data
  <2>4. piece(s) = frame
    <3>1. piece(s) = FR!HostBytes(Len(s.name), 1, be) \o FR!HostBytes(Len(data), 4, be) \o s.name \o data
      BY <2>1, Zenon DEF FR!Sends, FR!Segment, data
    <3> QED BY <3>1, Zenon DEF Framed
  <2>5. frame \in Seq(Nat) /\ Len(frame) > 0
    <3> DEFINE x == FR!HostBytes(Len(s.name), 1, be)
               y == FR!HostBytes(Len(data), 4, be)
               name == s.name
    <3>1. x \in Seq(Nat) /\ Len(x) = 1 /\ y \in Seq(Nat)
      <4>1. Len(s.name) \in Nat /\ Len(data) \in Nat
        BY <2>2, <2>3
      <4> QED BY <4>1, HostOrder
    <3>2. name \in Seq(Nat)
      BY <2>2
    <3>3. frame = ((x \o y) \o name) \o data
      BY Zenon DEF Framed
    <3> HIDE DEF x, y, name, frame
    <3>4. Len(x) > 0
      BY <3>1
    <3>5. x \o y \in Seq(Nat) /\ Len(x \o y) > 0
      BY <3>1, <3>4, BeginsWith, Zenon
    <3>6. (x \o y) \o name \in Seq(Nat) /\ Len((x \o y) \o name) > 0
      BY <3>2, <3>5, BeginsWith, Zenon
    <3> QED BY <2>3, <3>3, <3>6, BeginsWith, Zenon
  <2>6. Sent(s, be) = <<[name |-> s.name, strings |-> FR!Strings(data)]>>
    BY <2>1, Zenon DEF Sent, data
  <2>7. [name |-> s.name, strings |-> FR!Strings(data)] \in ReadSegments
    <3>1. FR!Strings(data) \in Seq(Seq(Nat))
      BY <2>3, StringsType
    <3> QED BY <2>2, <3>1 DEF ReadSegments
  <2> HIDE DEF frame, piece
  <2> QED BY <2>2, <2>3, <2>4, <2>5, <2>6, <2>7 DEF s, data, frame
<1>3. ASSUME NEW i \in 1..N, segments[i].function = "nothing"
      PROVE  piece(segments[i]) = <<>> /\ Sent(segments[i], be) = <<>>
  BY <1>3, Zenon DEF FR!Sends, Sent
<1> HIDE DEF piece
<1>4. ASSUME NEW i \in 1..N
      PROVE  piece(segments[i]) \in Seq(Nat) /\ Sent(segments[i], be) \in Seq(O)
  <2>1. CASE segments[i].function = "nothing"
    <3>1. <<>> \in Seq(Nat) /\ <<>> \in Seq(O)
      OBVIOUS
    <3> QED BY <1>3, <2>1, <3>1
  <2>2. CASE segments[i].function # "nothing"
    <3> DEFINE e == [name |-> segments[i].name, strings |-> FR!Strings(FR!Data(segments[i], be))]
    <3>1. piece(segments[i]) \in Seq(Nat) /\ Sent(segments[i], be) = <<e>> /\ e \in O
      BY <1>2, <2>2
    <3> HIDE DEF e, O
    <3> QED BY <3>1
  <2> QED BY <2>1, <2>2
<1>5. /\ pieces \in Seq(Seq(Nat)) /\ Len(pieces) = N
      /\ \A i \in 1..N : pieces[i] = piece(segments[i])
  <2> HIDE DEF N
  <2> QED BY <1>1, <1>4
<1>6. /\ out \in Seq(Seq(O)) /\ Len(out) = N
      /\ \A i \in 1..N : out[i] = Sent(segments[i], be)
  <2> HIDE DEF N, O
  <2> QED BY <1>1, <1>4
<1>7. bytes = FR!FlattenSeq(pieces)
  BY Zenon DEF FR!Message, piece
<1> HIDE DEF pieces, out, bytes
<1>8. PICK f : Grown(f, pieces, Nat) /\ bytes = f[N]
  BY <1>5, <1>7, Flattened
<1>9. PICK g : Grown(g, out, O) /\ FR!FlattenSeq(out) = g[N]
  <2> HIDE DEF O
  <2> QED BY <1>6, Flattened
<1>10. bytes \in Seq(Nat)
  <2> HIDE DEF N
  <2> QED BY <1>1, <1>8 DEF Grown
<1> DEFINE step == SegmentStep(bytes, be)
<1>11. PICK h : Reads(h, step, Len(bytes), O) /\ FR!Parsed(bytes, be) = h[Len(bytes)].got
  BY <1>10, SegmentLoop
<1>12. Follows(step, bytes, pieces, out, O)
  <2>1. \A r \in Readers(O) : step[r] = FR!ReadSegment(bytes, r, be)
    BY Zenon DEF SegmentStep
  <2> HIDE DEF step
  <2>2. ASSUME NEW r \in Readers(O), r.at > Len(bytes) PROVE step[r] = r
    BY <2>1, <2>2, Zenon DEF FR!ReadSegment
  <2>3. ASSUME NEW k \in 1..N
        PROVE  \/ pieces[k] = <<>> /\ out[k] = <<>>
               \/ /\ Len(pieces[k]) > 0
                  /\ \A r \in Readers(O) : Stands(bytes, r.at, pieces[k]) =>
                       step[r] = [at |-> r.at + Len(pieces[k]), got |-> r.got \o out[k]]
    <3>1. CASE segments[k].function = "nothing"
      BY <1>3, <1>5, <1>6, <3>1
    <3>2. CASE segments[k].function # "nothing"
      <4> DEFINE s == segments[k]
                 data == FR!Data(s, be)
                 name == s.name
                 frame == Framed(Len(name), Len(data), name, data, be)
                 e == [name |-> name, strings |-> FR!Strings(data)]
      <4>1. /\ pieces[k] = frame /\ out[k] = <<e>> /\ Len(frame) > 0
            /\ name \in Seq(Nat) /\ Len(name) < Base
            /\ data \in Seq(Nat) /\ Len(data) < (Base * Base) * (Base * Base)
        BY <1>2, <1>5, <1>6, <3>2
      <4> HIDE DEF data, name, e
      <4>2. ASSUME NEW r \in Readers(O), Stands(bytes, r.at, pieces[k])
            PROVE  step[r] = [at |-> r.at + Len(pieces[k]), got |-> r.got \o out[k]]
        <5>1. Stands(bytes, r.at, frame)
          BY <4>1, <4>2, Zenon
        <5>2. FR!ReadSegment(bytes, r, be) = [at |-> r.at + Len(frame), got |-> r.got \o <<e>>]
          BY <1>10, <4>1, <5>1, SegmentRead DEF e
        <5> HIDE DEF frame
        <5> QED BY <2>1, <4>1, <5>2, Zenon
      <4> HIDE DEF frame
      <4>3. Len(pieces[k]) > 0
        BY <4>1
      <4> QED BY <4>2, <4>3
    <3> QED BY <3>1, <3>2
  <2> HIDE DEF O, N
  <2>4. \A k \in 1..Len(pieces) : k \in 1..N
    BY <1>5
  <2> QED BY <2>2, <2>3, <2>4, Zenon DEF Follows
<1>13. h[Len(bytes)].got = g[N]
  <2>1. Len(pieces) = N /\ Len(out) = Len(pieces) /\ bytes = f[Len(pieces)]
    BY <1>5, <1>6, <1>8
  <2>2. step \in [Readers(O) -> Readers(O)] /\ pieces \in Seq(Seq(Nat))
    BY <1>5, <1>10, SegmentStepIs
  <2> HIDE DEF O, N, step
  <2>3. Reads(h, step, Len(f[Len(pieces)]), O) /\ Follows(step, f[Len(pieces)], pieces, out, O)
    BY <1>11, <1>12, <2>1, Zenon
  <2>4. ReadsAll(step, h, pieces, f, out, g, O)
    <3>1. Grown(f, pieces, Nat) /\ Grown(g, out, O)
      BY <1>8, <1>9, Zenon
    <3>2. Len(out) = Len(pieces)
      BY <2>1
    <3> QED BY <2>2, <2>3, <3>1, <3>2, Zenon DEF ReadsAll
  <2>5. AllGot(h, pieces, f, g)
    BY <2>4, AllRead, Zenon
  <2> QED BY <2>1, <2>5 DEF AllGot
<1>14. FR!Parsed(bytes, be) = FR!FlattenSeq(out)
  BY <1>9, <1>11, <1>13
<1> QED BY <1>14 DEF bytes, out

\* The names of the two segments.
SegmentNames == {<<0>>, <<1>>}

\* The segments that messages are made of are such.
LEMMA SegmentsFine ==
  ASSUME NEW name \in SegmentNames, NEW s \in Segments(name)
  PROVE  FineSegment(s) /\ s.name = name
<1>1. Base \in Nat /\ Base > 1 /\ MaxStrings \in Nat /\ MaxText \in Nat
  BY FramingAssumption
<1>2. s.name = name /\ (s.strings = <<>> \/ (s.strings \in Sequences(Texts, MaxStrings) /\ s.function = "data"))
  BY DEF Segments
<1>3. s.name \in Seq(Nat) /\ Len(s.name) < Base
  <2>1. name \in Seq(Nat) /\ Len(name) = 1
    <3>1. <<0>> \in Seq(Nat) /\ <<1>> \in Seq(Nat) /\ Len(<<0>>) = 1 /\ Len(<<1>>) = 1
      OBVIOUS
    <3>2. name = <<0>> \/ name = <<1>>
      BY DEF SegmentNames
    <3> QED BY <3>1, <3>2, Zenon
  <2> QED BY <1>1, <1>2, <2>1
<1>4. CASE s.strings = <<>>
  <2>1. s.strings \in Seq(Seq(Nat)) /\ Len(s.strings) = 0
    BY <1>4
  <2> QED BY <1>1, <1>2, <1>3, <1>4, <2>1 DEF FineSegment
<1>5. CASE s.strings \in Sequences(Texts, MaxStrings) /\ s.function = "data"
  <2> DEFINE t == s.strings
  <2>1. PICK k \in 0..MaxStrings : t \in [1..k -> Texts]
    BY <1>5, Zenon DEF Sequences
  <2>2. ASSUME NEW v \in Texts PROVE v \in Seq(Nat) /\ Len(v) <= MaxText
    <3> DEFINE A == 0..(Base - 1)
    <3>1. v \in Seq(A) /\ Len(v) <= MaxText
      BY FramingAssumption
    <3>2. A \subseteq Nat
      BY <1>1
    <3> HIDE DEF A
    <3>3. Len(v) \in Nat /\ v = [i \in 1..Len(v) |-> v[i]] /\ \A i \in 1..Len(v) : v[i] \in A
      BY <3>1
    <3>4. \A i \in 1..Len(v) : v[i] \in Nat
      BY <3>2, <3>3
    <3> QED BY <3>1, <3>3, <3>4
  <2> HIDE DEF t
  <2>3. t \in Seq(Seq(Nat)) /\ Len(t) = k
    <3>1. t \in [1..k -> Seq(Nat)] /\ k \in Nat
      BY <1>1, <2>1, <2>2
    <3> QED BY <3>1
  <2>4. \A i \in 1..k : Len(t[i]) <= MaxText
    BY <2>1, <2>2
  <2>5. s.function # "NULL"
    BY <1>5
  <2>6. Len(t) <= MaxStrings
    BY <1>1, <2>1, <2>3
  <2> QED BY <1>2, <1>3, <2>3, <2>4, <2>5, <2>6 DEF FineSegment, t
<1> QED BY <1>2, <1>4, <1>5

\* Strings that fit are short ones.
LEMMA AllShortAre ==
  ASSUME NEW strings \in Seq(Seq(Nat)), AllShort(strings)
  PROVE  strings \in Seq(ShortStrings)
<1>1. ASSUME NEW i \in 1..Len(strings) PROVE strings[i] \in ShortStrings
  <2>1. strings[i] \in Seq(Nat) /\ Len(strings[i]) < Base * Base
    BY DEF AllShort
  <2> QED BY <2>1 DEF ShortStrings
<1>2. strings = [i \in 1..Len(strings) |-> strings[i]] /\ Len(strings) \in Nat
  OBVIOUS
<1> QED BY <1>1, <1>2

\* Two sequences flattened.
LEMMA FlattenTwo ==
  ASSUME NEW E, NEW x \in Seq(E), NEW y \in Seq(E)
  PROVE  FR!FlattenSeq(<<x, y>>) = x \o y
<1> DEFINE p == <<x, y>>
<1>1. p \in Seq(Seq(E)) /\ Len(p) = 2 /\ p[1] = x /\ p[2] = y
  OBVIOUS
<1> HIDE DEF p
<1>2. PICK f : Grown(f, p, E) /\ FR!FlattenSeq(p) = f[Len(p)]
  BY <1>1, Flattened
<1>3. f[0] = <<>> /\ f[1] = f[0] \o p[1] /\ f[2] = f[1] \o p[2]
  <2>1. 1 \in 1..Len(p) /\ 2 \in 1..Len(p) /\ 1 - 1 = 0 /\ 2 - 1 = 1
    BY <1>1
  <2> QED BY <1>2, <2>1 DEF Grown
<1>4. <<>> \o x = x
  OBVIOUS
<1> QED BY <1>1, <1>2, <1>3, <1>4 DEF p

\* At most one thing in a sequence.
LEMMA OneOrNone ==
  ASSUME NEW E, NEW e \in E, NEW x, x = <<>> \/ x = <<e>>
  PROVE  x \in Seq(E)
<1>1. <<>> \in Seq(E) /\ <<e>> \in Seq(E)
  OBVIOUS
<1> QED BY <1>1, Zenon

\* A message from any host can be read in its own order of bytes, for bytes of any
\* base and any strings and number of them of which four bytes can tell; a string
\* that two bytes cannot tell the length of spoils the strings of its segment only.
THEOREM MessageParsesCorrect == AlgorithmSpec => []MessageParses
<1>1. ASSUME Computed, Done("message") PROVE MessageParses
  <2> DEFINE segments == input.segments
             be == input.be
  <2>1. Result = FR!Message(segments, be)
    BY <1>1 DEF Computed, Gives, Done, Result
  <2>2. PICK a \in Segments(<<0>>), b \in Segments(<<1>>) : segments = <<a, b>> /\ be \in BOOLEAN
    <3>1. input \in Messages
      BY <1>1, Kinds DEF Done
    <3>2. PICK a \in Segments(<<0>>), b \in Segments(<<1>>), e \in BOOLEAN :
            input = [of |-> "message", segments |-> <<a, b>>, be |-> e]
      BY <3>1 DEF Messages
    <3> QED BY <3>2
  <2> DEFINE read(s) == [name |-> s.name, strings |-> FR!Strings(FR!Data(s, be))]
             parsed == FR!Parsed(Result, be)
  <2>3. /\ FineSegment(a) /\ FineSegment(b)
        /\ a.name = <<0>> /\ b.name = <<1>> /\ a.name # b.name
    <3>1. FineSegment(a) /\ FineSegment(b) /\ a.name = <<0>> /\ b.name = <<1>>
      BY SegmentsFine DEF SegmentNames
    <3>2. <<0>> # <<1>>
      OBVIOUS
    <3> QED BY <3>1, <3>2, Zenon
  <2> HIDE DEF segments, be
  <2>4. parsed = FR!FlattenSeq([i \in DOMAIN segments |-> Sent(segments[i], be)])
    <3> DEFINE S == {a, b}
    <3>1. segments \in Seq(S) /\ \A s \in S : FineSegment(s)
      BY <2>2, <2>3
    <3> HIDE DEF S
    <3> QED BY <2>1, <2>2, <3>1, MessageIs
  <2>5. /\ [i \in DOMAIN segments |-> Sent(segments[i], be)] = <<Sent(a, be), Sent(b, be)>>
        /\ DOMAIN segments = 1..2 /\ segments[1] = a /\ segments[2] = b
    BY <2>2
  <2>6. parsed = Sent(a, be) \o Sent(b, be)
    <3> DEFINE E == {read(a), read(b)}
    <3>1. Sent(a, be) \in Seq(E) /\ Sent(b, be) \in Seq(E)
      <4>1. read(a) \in E /\ read(b) \in E
        OBVIOUS
      <4>2. /\ Sent(a, be) = <<>> \/ Sent(a, be) = <<read(a)>>
            /\ Sent(b, be) = <<>> \/ Sent(b, be) = <<read(b)>>
        BY Zenon DEF Sent
      <4> HIDE DEF E, read
      <4> QED BY <4>1, <4>2, OneOrNone
    <3> HIDE DEF E, read
    <3> QED BY <2>4, <2>5, <3>1, FlattenTwo
  <2> DEFINE name(s) == IF FR!Sends(s) THEN <<s.name>> ELSE <<>>
  <2>7. FlattenSeq([i \in DOMAIN segments |-> IF FR!Sends(segments[i]) THEN <<segments[i].name>> ELSE <<>>])
          = name(a) \o name(b)
    <3>1. [i \in DOMAIN segments |-> IF FR!Sends(segments[i]) THEN <<segments[i].name>> ELSE <<>>]
            = <<name(a), name(b)>>
      BY <2>5
    <3> DEFINE E == {a.name, b.name}
    <3>2. name(a) \in Seq(E) /\ name(b) \in Seq(E)
      <4>1. a.name \in E /\ b.name \in E
        OBVIOUS
      <4>2. /\ name(a) = <<>> \/ name(a) = <<a.name>>
            /\ name(b) = <<>> \/ name(b) = <<b.name>>
        BY Zenon
      <4> HIDE DEF E, name
      <4> QED BY <4>1, <4>2, OneOrNone
    <3> HIDE DEF E, name
    <3>3. FR!FlattenSeq(<<name(a), name(b)>>) = name(a) \o name(b)
      BY <3>2, FlattenTwo
    <3>4. \A x : FlattenSeq(x) = FR!FlattenSeq(x)
      BY Zenon DEF FR!FlattenSeq, FlattenSeq
    <3> QED BY <3>1, <3>3, <3>4
  <2>8. /\ (Sent(a, be) = <<>> /\ name(a) = <<>>) \/ (Sent(a, be) = <<read(a)>> /\ name(a) = <<a.name>>)
        /\ (Sent(b, be) = <<>> /\ name(b) = <<>>) \/ (Sent(b, be) = <<read(b)>> /\ name(b) = <<b.name>>)
    BY Zenon DEF Sent, FR!Sends
  <2>9. /\ read(a).name = a.name /\ read(b).name = b.name
        /\ AllShort(a.strings) => read(a).strings = a.strings
        /\ AllShort(b.strings) => read(b).strings = b.strings
    <3>1. \A s : read(s).name = s.name /\ read(s).strings = FR!Strings(FR!Data(s, be))
      OBVIOUS
    <3>2. ASSUME NEW s, FineSegment(s), AllShort(s.strings) PROVE FR!Strings(FR!Data(s, be)) = s.strings
      <4>1. s.strings \in Seq(ShortStrings)
        BY <3>2, AllShortAre DEF FineSegment
      <4> QED BY <2>2, <3>2, <4>1, SegmentData
    <3> HIDE DEF read
    <3> QED BY <2>3, <3>1, <3>2
  <2> HIDE DEF read, name, parsed
  <2>10. /\ [i \in DOMAIN parsed |-> parsed[i].name] = name(a) \o name(b)
         /\ \A i \in DOMAIN parsed, k \in 1..2 :
              parsed[i].name = segments[k].name /\ AllShort(segments[k].strings) =>
                parsed[i].strings = segments[k].strings
    <3>1. CASE Sent(a, be) = <<>> /\ Sent(b, be) = <<>>
      BY <2>3, <2>5, <2>6, <2>8, <2>9, <3>1
    <3>2. CASE Sent(a, be) = <<>> /\ Sent(b, be) # <<>>
      BY <2>3, <2>5, <2>6, <2>8, <2>9, <3>2
    <3>3. CASE Sent(a, be) # <<>> /\ Sent(b, be) = <<>>
      BY <2>3, <2>5, <2>6, <2>8, <2>9, <3>3
    <3>4. CASE Sent(a, be) # <<>> /\ Sent(b, be) # <<>>
      <4>1. parsed = <<read(a), read(b)>> /\ name(a) \o name(b) = <<a.name, b.name>>
        <5>1. Sent(a, be) = <<read(a)>> /\ Sent(b, be) = <<read(b)>>
          BY <2>8, <3>4, Zenon
        <5>2. name(a) = <<a.name>> /\ name(b) = <<b.name>>
          BY <2>8, <3>4, Zenon
        <5>3. ASSUME NEW x, NEW y PROVE <<x>> \o <<y>> = <<x, y>>
          <6>1. <<x>> \in Seq({x, y}) /\ <<y>> \in Seq({x, y})
            OBVIOUS
          <6>2. Len(<<x>> \o <<y>>) = 2 /\ <<x>> \o <<y>> \in Seq({x, y})
            BY <6>1
          <6>3. (<<x>> \o <<y>>)[1] = x /\ (<<x>> \o <<y>>)[2] = y
            BY <6>1
          <6> DEFINE E == {x, y}
                     z == <<x>> \o <<y>>
          <6>4. z \in Seq(E) /\ Len(z) = 2 /\ z[1] = x /\ z[2] = y
            BY <6>2, <6>3, Zenon
          <6> HIDE DEF E, z
          <6>5. z = [i \in 1..2 |-> z[i]]
            BY ONLY <6>4
          <6>6. z = <<x, y>>
            BY ONLY <6>4, <6>5
          <6> QED BY <6>6, Zenon DEF z
        <5> QED BY <2>6, <5>1, <5>2, <5>3, Zenon
      <4>2. DOMAIN parsed = 1..2 /\ parsed[1] = read(a) /\ parsed[2] = read(b)
        BY <4>1
      <4>3. parsed[1].name = a.name /\ parsed[2].name = b.name
        BY ONLY <2>9, <4>2
      <4>4. [i \in DOMAIN parsed |-> parsed[i].name] = <<a.name, b.name>>
        <5> DEFINE y == [i \in DOMAIN parsed |-> parsed[i].name]
        <5>1. y = [i \in 1..2 |-> y[i]] /\ y[1] = a.name /\ y[2] = b.name
          BY ONLY <4>2, <4>3
        <5> HIDE DEF y
        <5>2. y = <<a.name, b.name>>
          BY ONLY <5>1
        <5> QED BY <5>2 DEF y
      <4>5. ASSUME NEW i \in DOMAIN parsed, NEW k \in 1..2,
                   parsed[i].name = segments[k].name, AllShort(segments[k].strings)
            PROVE  parsed[i].strings = segments[k].strings
        <5>1. (i = 1 \/ i = 2) /\ (k = 1 \/ k = 2)
          BY ONLY <4>2, i \in DOMAIN parsed, k \in 1..2
        <5>2. CASE i = 1 /\ k = 1
          BY <2>5, <2>9, <4>2, <4>5, <5>2, Zenon
        <5>3. CASE i = 2 /\ k = 2
          BY <2>5, <2>9, <4>2, <4>5, <5>3, Zenon
        <5>4. CASE i = 1 /\ k = 2
          BY <2>3, <2>5, <4>3, <4>5, <5>4, Zenon
        <5>5. CASE i = 2 /\ k = 1
          BY <2>3, <2>5, <4>3, <4>5, <5>5, Zenon
        <5> QED BY <5>1, <5>2, <5>3, <5>4, <5>5
      <4> QED BY <4>1, <4>4, <4>5
    <3> QED BY <3>1, <3>2, <3>3, <3>4
  <2>11. ParsesWith(be)
    BY <2>5, <2>7, <2>10 DEF ParsesWith, parsed, segments
  <2> QED BY <2>2, <2>11, Zenon DEF MessageParses, be
<1>2. Computed => MessageParses
  BY <1>1 DEF MessageParses
<1> QED BY <1>2, ComputedAlways, PTL

-----------------------------------------------------------------------------
(* The records of a DNS reply                                            *)

\* What stands in x stands where x does.
LEMMA StandsIn ==
  ASSUME NEW bytes \in Seq(Nat), NEW x \in Seq(Nat), NEW z \in Seq(Nat),
         NEW from \in Nat \ {0}, NEW p \in Nat \ {0}, Stands(bytes, from, x), Stands(x, p, z)
  PROVE  Stands(bytes, (from - 1) + p, z)
<1> DEFINE N == Len(bytes)
           K == Len(x)
           L == Len(z)
<1>1. N \in Nat /\ K \in Nat /\ L \in Nat
  OBVIOUS
<1>2. from + K - 1 <= N /\ \A i \in 1..K : bytes[(from - 1) + i] = x[i]
  BY Zenon DEF Stands
<1>3. p + L - 1 <= K /\ \A i \in 1..L : x[(p - 1) + i] = z[i]
  BY Zenon DEF Stands
<1> HIDE DEF N, K, L
<1>4. ((from - 1) + p) + L - 1 <= N
  BY <1>1, <1>2, <1>3
<1>5. ASSUME NEW i \in 1..L PROVE bytes[(((from - 1) + p) - 1) + i] = z[i]
  <2>1. (p - 1) + i \in 1..K /\ (from - 1) + ((p - 1) + i) = (((from - 1) + p) - 1) + i
    BY <1>1, <1>3
  <2> QED BY <1>2, <1>3, <2>1
<1> QED BY <1>4, <1>5 DEF Stands, N, L

\* Labels that no pointer is taken for.
FineName(labels) ==
  /\ labels \in Seq(Seq(Nat))
  /\ \A i \in 1..Len(labels) : Len(labels[i]) \in 1..191

\* From byte from on there are K labels: each begins with its length.
Labelled(o, K, bytes, from) ==
  /\ o \in [0..K -> Nat] /\ o[0] = 0
  /\ \A n \in 1..K : /\ bytes[from + o[n - 1]] \in 1..191
                     /\ o[n] = o[n - 1] + bytes[from + o[n - 1]] + 1

\* A label takes two bytes or more.
LEMMA LabelsShort ==
  ASSUME NEW o, NEW K \in Nat, NEW bytes, NEW from \in Nat, Labelled(o, K, bytes, from)
  PROVE  2 * K <= o[K]
<1> DEFINE T == {n \in Nat : n <= K => 2 * n <= o[n]}
<1>1. 0 \in T
  BY DEF Labelled
<1>2. ASSUME NEW n \in Nat, n \in T PROVE n + 1 \in T
  <2> SUFFICES ASSUME n + 1 <= K PROVE 2 * (n + 1) <= o[n + 1]
    OBVIOUS
  <2>1. n + 1 \in 1..K /\ (n + 1) - 1 = n /\ n \in 0..K /\ n + 1 \in 0..K /\ 2 * n <= o[n]
    BY <1>2
  <2>2. bytes[from + o[n]] \in 1..191 /\ o[n + 1] = o[n] + bytes[from + o[n]] + 1
    BY <2>1 DEF Labelled
  <2>3. o[n] \in Nat
    BY <2>1 DEF Labelled
  <2> QED BY <2>1, <2>2, <2>3
<1> HIDE DEF T
<1>3. Nat \subseteq T
  BY <1>1, <1>2, SetInduction
<1> QED BY <1>3 DEF T

\* The labels of a name, each behind its length.
Lengthened(labels) == [i \in 1..Len(labels) |-> <<Len(labels[i])>> \o labels[i]]

\* A name on the wire is its labels and what it ends in.
LEMMA WireIs ==
  ASSUME NEW labels, FineName(labels), NEW end \in Seq(Nat)
  PROVE  /\ Lengthened(labels) \in Seq(Seq(Nat)) /\ Len(Lengthened(labels)) = Len(labels)
         /\ D!Wire(labels, end) \in Seq(Nat)
         /\ \E f : Grown(f, Lengthened(labels), Nat) /\ D!Wire(labels, end) = f[Len(labels)] \o end
<1> DEFINE K == Len(labels)
           w == Lengthened(labels)
<1>1. labels \in Seq(Seq(Nat)) /\ K \in Nat
  BY DEF FineName
<1>2. ASSUME NEW i \in 1..K PROVE w[i] \in Seq(Nat)
  <2>1. labels[i] \in Seq(Nat) /\ Len(labels[i]) \in Nat
    BY <1>1, ElementOfSeq
  <2> QED BY <2>1 DEF Lengthened
<1>3. w \in Seq(Seq(Nat)) /\ Len(w) = K
  <2>1. w = [i \in 1..K |-> w[i]]
    BY DEF Lengthened
  <2> HIDE DEF w, K
  <2>2. w \in [1..K -> Seq(Nat)]
    BY <1>2, <2>1
  <2> QED BY <1>1, <2>2
<1>4. D!Wire(labels, end) = FR!FlattenSeq(w) \o end
  BY Zenon DEF D!Wire, Lengthened, D!FlattenSeq, FR!FlattenSeq
<1> HIDE DEF w
<1>5. PICK f : Grown(f, w, Nat) /\ FR!FlattenSeq(w) = f[Len(w)]
  BY <1>3, Flattened
<1>6. f[K] \in Seq(Nat)
  BY <1>1, <1>5 DEF Grown
<1> HIDE DEF K
<1>7. D!Wire(labels, end) = f[K] \o end
  BY <1>3, <1>4, <1>5
<1>8. D!Wire(labels, end) \in Seq(Nat)
  BY <1>6, <1>7
<1> QED BY <1>3, <1>5, <1>7, <1>8 DEF w, K

\* Where a name stands its labels do, one behind the other, and then its end.
LEMMA NameStands ==
  ASSUME NEW labels, FineName(labels), NEW end \in Seq(Nat), NEW bytes \in Seq(Nat),
         NEW from \in Nat \ {0}, Stands(bytes, from, D!Wire(labels, end))
  PROVE  \E o : /\ Labelled(o, Len(labels), bytes, from)
                /\ Stands(bytes, from + o[Len(labels)], end)
                /\ Len(D!Wire(labels, end)) = o[Len(labels)] + Len(end)
<1> DEFINE K == Len(labels)
           w == Lengthened(labels)
           wire == D!Wire(labels, end)
<1>1. K \in Nat /\ w \in Seq(Seq(Nat)) /\ Len(w) = K
  <2>1. labels \in Seq(Seq(Nat))
    BY DEF FineName
  <2> QED BY <2>1, WireIs
<1>2. PICK f : Grown(f, w, Nat) /\ wire = f[K] \o end
  BY WireIs
<1> DEFINE o == [n \in 0..K |-> Len(f[n])]
<1>3. \A n \in 0..K : f[n] \in Seq(Nat) /\ Len(f[n]) \in Nat
  BY <1>1, <1>2 DEF Grown
<1>4. f[K] \in Seq(Nat) /\ Stands(bytes, from, f[K] \o end)
  BY <1>1, <1>2, <1>3
<1>5. Stands(bytes, from, f[K]) /\ Stands(bytes, from + Len(f[K]), end)
  <2> DEFINE x == f[K]
  <2>1. x \in Seq(Nat) /\ Stands(bytes, from, x \o end)
    BY <1>4
  <2> HIDE DEF x
  <2>2. Stands(bytes, from, x) /\ Stands(bytes, from + Len(x), end)
    BY <2>1, StandsParts
  <2> QED BY <2>2 DEF x
<1>6. Len(wire) = Len(f[K]) + Len(end)
  BY <1>2, <1>4, LenConcat
<1>7. ASSUME NEW n \in 1..K
      PROVE  /\ bytes[from + o[n - 1]] \in 1..191
             /\ o[n] = o[n - 1] + bytes[from + o[n - 1]] + 1
  <2> DEFINE l == labels[n]
             x == f[n - 1]
             c == Len(l)
  <2>1. n - 1 \in 0..K /\ n \in 0..K /\ n \in 1..Len(w)
    BY <1>1
  <2>2. l \in Seq(Nat) /\ c \in 1..191
    <3>1. labels \in Seq(Seq(Nat)) /\ n \in 1..Len(labels)
      BY DEF FineName
    <3>2. l \in Seq(Nat)
      BY <3>1, ElementOfSeq
    <3> QED BY <3>1, <3>2 DEF FineName
  <2>3. w[n] = <<c>> \o l
    BY DEF Lengthened
  <2>4. f[n] = x \o w[n] /\ x \in Seq(Nat)
    BY <1>2, <1>3, <2>1 DEF Grown
  <2>5. Stands(f[K], Len(x) + 1, w[n])
    <3>1. Stands(f[Len(w)], Len(f[n - 1]) + 1, w[n])
      BY <1>1, <1>2, <2>1, PieceStands
    <3> QED BY <1>1, <3>1
  <2> HIDE DEF l, x, c, w
  <2>6. w[n] \in Seq(Nat) /\ Len(w[n]) = c + 1 /\ w[n][1] = c
    BY <2>2, <2>3, SMTT(60) DEF c
  <2>7. Stands(bytes, (from - 1) + (Len(x) + 1), w[n])
    <3> DEFINE y == f[K]
               z == w[n]
               p == Len(x) + 1
    <3>1. y \in Seq(Nat) /\ z \in Seq(Nat) /\ p \in Nat \ {0} /\ Stands(bytes, from, y) /\ Stands(y, p, z)
      BY <1>4, <1>5, <2>4, <2>5, <2>6, SMTT(60)
    <3> HIDE DEF y, z, p
    <3>2. Stands(bytes, (from - 1) + p, z)
      BY <3>1, StandsIn
    <3> QED BY <3>2 DEF z, p
  <2>8. bytes[from + Len(x)] = c
    <3>1. 1 \in 1..Len(w[n]) /\ (((from - 1) + (Len(x) + 1)) - 1) + 1 = from + Len(x)
      BY <2>2, <2>4, <2>6
    <3>2. bytes[(((from - 1) + (Len(x) + 1)) - 1) + 1] = w[n][1]
      BY <2>7, <3>1, Zenon DEF Stands
    <3> QED BY <2>6, <3>1, <3>2
  <2>9. Len(f[n]) = Len(x) + (c + 1)
    BY <2>4, <2>6, LenConcat
  <2>10. o[n - 1] = Len(x) /\ o[n] = Len(f[n])
    BY <2>1 DEF x
  <2>11. Len(x) \in Nat
    BY <2>4
  <2> HIDE DEF o
  <2>12. bytes[from + o[n - 1]] = c
    BY <2>8, <2>10, Zenon
  <2>13. o[n] = o[n - 1] + c + 1
    <3>1. c \in Nat
      BY <2>2
    <3> HIDE DEF c
    <3> QED BY <2>9, <2>10, <2>11, <3>1
  <2> QED BY <2>2, <2>12, <2>13
<1>8. o[0] = 0 /\ o \in [0..K -> Nat] /\ o[K] = Len(f[K])
  <2>1. f[0] = <<>>
    BY <1>2 DEF Grown
  <2> QED BY <1>1, <1>3, <2>1
<1> HIDE DEF o
<1>9. Labelled(o, K, bytes, from)
  BY <1>7, <1>8 DEF Labelled
<1> HIDE DEF K, wire
<1> QED BY <1>5, <1>6, <1>8, <1>9 DEF K, wire

\* How far the loop over a name is, before a pointer and behind one.
Direct(at, len) == [at |-> at, followed |-> FALSE, len |-> len]
Pointed(at, len) == [at |-> at, followed |-> TRUE, len |-> len]

\* A solution of the recursion of ParseDNSName.
Walk(bytes, offset, h) ==
  h = [n \in 0..Len(bytes) |->
         IF n = 0 THEN Direct(offset, 1)
         ELSE D!ReadLabel(bytes, h[n - 1])]

\* If there is one, the bytes to skip are one's.
LEMMA WalkIs ==
  ASSUME NEW bytes, NEW offset, \E h : Walk(bytes, offset, h)
  PROVE  \E h : Walk(bytes, offset, h) /\ D!ParseDNSName(bytes, offset) = h[Len(bytes)].len
<1> DEFINE g == CHOOSE h : Walk(bytes, offset, h)
<1>1. Walk(bytes, offset, g)
  BY Zenon
<1>2. D!ParseDNSName(bytes, offset) = g[Len(bytes)].len
  BY Zenon DEF D!ParseDNSName, Walk, Direct
<1> QED BY <1>1, <1>2, Zenon

\* There is only one.
LEMMA WalkOnce ==
  ASSUME NEW bytes \in Seq(Nat), NEW offset, NEW g, Walk(bytes, offset, g)
  PROVE  D!ParseDNSName(bytes, offset) = g[Len(bytes)].len
<1> DEFINE N == Len(bytes)
<1>1. N \in Nat
  OBVIOUS
<1>2. PICK h : Walk(bytes, offset, h) /\ D!ParseDNSName(bytes, offset) = h[N].len
  BY WalkIs
<1> DEFINE T == {n \in Nat : n <= N => g[n] = h[n]}
<1>3. /\ g = [n \in 0..N |-> IF n = 0 THEN Direct(offset, 1)
                             ELSE D!ReadLabel(bytes, g[n - 1])]
      /\ h = [n \in 0..N |-> IF n = 0 THEN Direct(offset, 1)
                             ELSE D!ReadLabel(bytes, h[n - 1])]
  BY <1>2, Zenon DEF Walk
<1> HIDE DEF N
<1>4. 0 \in T
  <2>1. 0 \in 0..N
    BY <1>1
  <2>2. g[0] = Direct(offset, 1)
    BY <1>3, <2>1
  <2>3. h[0] = Direct(offset, 1)
    BY <1>3, <2>1
  <2> QED BY <2>2, <2>3
<1>5. ASSUME NEW n \in Nat, n \in T PROVE n + 1 \in T
  <2> SUFFICES ASSUME n + 1 <= N PROVE g[n + 1] = h[n + 1]
    OBVIOUS
  <2>1. n + 1 \in 0..N /\ n + 1 # 0 /\ (n + 1) - 1 = n /\ g[n] = h[n]
    BY <1>1, <1>5
  <2>2. g[n + 1] = D!ReadLabel(bytes, g[n])
    BY <1>3, <2>1
  <2>3. h[n + 1] = D!ReadLabel(bytes, h[n])
    BY <1>3, <2>1
  <2> QED BY <2>1, <2>2, <2>3
<1> HIDE DEF T
<1>6. Nat \subseteq T
  BY <1>4, <1>5, SetInduction
<1>7. g[N] = h[N]
  BY <1>1, <1>6 DEF T
<1> QED BY <1>2, <1>7 DEF N

\* A step of the loop over a name, with a byte b.
NameStep(s, b) ==
  IF b = 0 THEN s
  ELSE IF ~s.followed /\ b >= 192
  THEN [at |-> 12 + (b % 64), followed |-> TRUE, len |-> s.len + 1]
  ELSE [at |-> (s.at + b) + 1, followed |-> s.followed,
        len |-> IF s.followed THEN s.len ELSE (s.len + b) + 1]

\* It is what ReadLabel makes of a place.
LEMMA StepIs ==
  ASSUME NEW bytes, NEW s
  PROVE  D!ReadLabel(bytes, s) = NameStep(s, bytes[s.at + 1])
BY Zenon DEF D!ReadLabel, D!Byte, D!HeaderSize, NameStep

\* At the end it stays.
LEMMA EndStep ==
  ASSUME NEW bytes, NEW at, NEW len, bytes[at + 1] = 0
  PROVE  /\ D!ReadLabel(bytes, Direct(at, len)) = Direct(at, len)
         /\ D!ReadLabel(bytes, Pointed(at, len)) = Pointed(at, len)
<1>1. ASSUME NEW s, s.at = at PROVE D!ReadLabel(bytes, s) = s
  <2>1. D!ReadLabel(bytes, s) = NameStep(s, 0)
    BY <1>1, StepIs
  <2> QED BY <2>1, Zenon DEF NameStep
<1>2. Direct(at, len).at = at /\ Pointed(at, len).at = at
  BY DEF Direct, Pointed
<1> QED BY <1>1, <1>2, Zenon

\* A pointer to the first 256 bytes is taken to lead behind the header.
LEMMA PointerStep ==
  ASSUME NEW bytes, NEW at, NEW len, bytes[at + 1] = 192
  PROVE  D!ReadLabel(bytes, Direct(at, len)) = Pointed(12, len + 1)
<1> DEFINE s == Direct(at, len)
<1>1. s.followed = FALSE /\ s.len = len /\ s.at = at
  BY DEF Direct
<1>2. 192 # 0 /\ 192 >= 192 /\ 12 + (192 % 64) = 12
  OBVIOUS
<1> HIDE DEF s
<1>3. D!ReadLabel(bytes, s) = NameStep(s, 192)
  BY <1>1, StepIs
<1>4. NameStep(s, 192) = [at |-> 12, followed |-> TRUE, len |-> len + 1]
  BY <1>1, <1>2, Zenon DEF NameStep
<1> QED BY <1>3, <1>4, Zenon DEF s, Pointed

\* A label is passed, and counted before a pointer.
LEMMA LabelStep ==
  ASSUME NEW bytes, NEW at, NEW len, NEW b \in 1..191, bytes[at + 1] = b
  PROVE  /\ D!ReadLabel(bytes, Direct(at, len)) = Direct((at + b) + 1, (len + b) + 1)
         /\ D!ReadLabel(bytes, Pointed(at, len)) = Pointed((at + b) + 1, len)
<1>1. b # 0 /\ ~(b >= 192)
  OBVIOUS
<1>2. D!ReadLabel(bytes, Direct(at, len)) = Direct((at + b) + 1, (len + b) + 1)
  <2> DEFINE s == Direct(at, len)
  <2>1. s.at = at /\ s.followed = FALSE /\ s.len = len
    BY DEF Direct
  <2> HIDE DEF s
  <2>2. D!ReadLabel(bytes, s) = NameStep(s, b)
    BY <2>1, StepIs
  <2>3. NameStep(s, b) = [at |-> (at + b) + 1, followed |-> FALSE, len |-> (len + b) + 1]
    BY <1>1, <2>1, Zenon DEF NameStep
  <2> QED BY <2>2, <2>3, Zenon DEF s, Direct
<1>3. D!ReadLabel(bytes, Pointed(at, len)) = Pointed((at + b) + 1, len)
  <2> DEFINE s == Pointed(at, len)
  <2>1. s.at = at /\ s.followed = TRUE /\ s.len = len
    BY DEF Pointed
  <2> HIDE DEF s
  <2>2. D!ReadLabel(bytes, s) = NameStep(s, b)
    BY <2>1, StepIs
  <2>3. NameStep(s, b) = [at |-> (at + b) + 1, followed |-> TRUE, len |-> len]
    BY <1>1, <2>1, Zenon DEF NameStep
  <2> QED BY <2>2, <2>3, Zenon DEF s, Pointed
<1> QED BY <1>2, <1>3

\* Bytes are counted from 1, offsets from 0.
LEMMA NextOffset ==
  /\ \A x, y \in Nat : (x + y) + 1 = (x + 1) + y /\ x + y \in Nat /\ 1 + x \in Nat
  /\ \A x, y, z \in Nat : /\ ((x + y) + z) + 1 = x + (y + z + 1)
                          /\ ((1 + y) + z) + 1 = 1 + (y + z + 1)
OBVIOUS

\* What the loop over a name goes through: s.
Walks(s, bytes, offset) ==
  /\ s[0] = Direct(offset, 1)
  /\ \A n \in 1..Len(bytes) : s[n] = D!ReadLabel(bytes, s[n - 1])

\* The bytes to skip are what it has counted in the end.
LEMMA WalkEnds ==
  ASSUME NEW bytes \in Seq(Nat), NEW offset, NEW s, Walks(s, bytes, offset)
  PROVE  D!ParseDNSName(bytes, offset) = s[Len(bytes)].len
<1> DEFINE N == Len(bytes)
           g == [n \in 0..N |-> s[n]]
<1>1. N \in Nat
  OBVIOUS
<1>2. s[0] = Direct(offset, 1)
      /\ \A n \in 1..N : s[n] = D!ReadLabel(bytes, s[n - 1])
  BY Zenon DEF Walks
<1> HIDE DEF N
<1>3. ASSUME NEW n \in 0..N
      PROVE  g[n] = IF n = 0 THEN Direct(offset, 1)
                    ELSE D!ReadLabel(bytes, g[n - 1])
  <2>1. CASE n = 0
    BY <1>2, <2>1
  <2>2. CASE n # 0
    <3>1. n \in 1..N /\ n - 1 \in 0..N
      BY <1>1, <2>2
    <3>2. g[n] = s[n] /\ g[n - 1] = s[n - 1]
      BY <3>1
    <3> QED BY <1>2, <2>2, <3>1, <3>2
  <2> QED BY <2>1, <2>2
<1>4. g = [n \in 0..N |-> g[n]] /\ g[N] = s[N]
  BY <1>1
<1> HIDE DEF g
<1>5. Walk(bytes, offset, g)
  <2>1. g = [n \in 0..N |-> IF n = 0 THEN Direct(offset, 1)
                            ELSE D!ReadLabel(bytes, g[n - 1])]
    BY <1>3, <1>4
  <2> QED BY <2>1 DEF Walk, N
<1> QED BY <1>4, <1>5, WalkOnce DEF N

\* A label is passed, before a pointer or behind one.
LEMMA LabelPassed ==
  ASSUME NEW bytes, NEW offset \in Nat, NEW o, NEW K \in Nat,
         Labelled(o, K, bytes, offset + 1), NEW n \in 1..K, NEW len \in Nat
  PROVE  /\ o[n - 1] \in Nat /\ o[n] \in Nat
         /\ D!ReadLabel(bytes, Direct(offset + o[n - 1], 1 + o[n - 1])) = Direct(offset + o[n], 1 + o[n])
         /\ D!ReadLabel(bytes, Pointed(offset + o[n - 1], len)) = Pointed(offset + o[n], len)
<1> DEFINE a == o[n - 1]
           c == o[n]
           b == bytes[(offset + 1) + a]
           at == offset + a
<1>1. n - 1 \in 0..K /\ n \in 0..K
  OBVIOUS
<1>2. a \in Nat /\ c \in Nat /\ b \in 1..191 /\ c = a + b + 1
  BY <1>1 DEF Labelled
<1>3. bytes[at + 1] = b
  <2> HIDE DEF a
  <2> QED BY <1>2, NextOffset, Zenon
<1> HIDE DEF a, b, c
<1>4. (at + b) + 1 = offset + c /\ ((1 + a) + b) + 1 = 1 + c
  BY <1>2
<1> HIDE DEF at
<1>5. D!ReadLabel(bytes, Direct(at, 1 + a)) = Direct((at + b) + 1, ((1 + a) + b) + 1)
  BY <1>2, <1>3, LabelStep
<1>6. D!ReadLabel(bytes, Pointed(at, len)) = Pointed((at + b) + 1, len)
  BY <1>2, <1>3, LabelStep
<1> QED BY <1>2, <1>4, <1>5, <1>6 DEF at, a, c

\* The same behind a pointer alone.
LEMMA PointedPassed ==
  ASSUME NEW bytes, NEW d \in Nat, NEW p, NEW H \in Nat, Labelled(p, H, bytes, d + 1),
         NEW m \in 1..H, NEW len \in Nat
  PROVE  D!ReadLabel(bytes, Pointed(d + p[m - 1], len)) = Pointed(d + p[m], len)
BY LabelPassed

\* A name that ends in 0.
LEMMA NameEnded ==
  ASSUME NEW bytes \in Seq(Nat), NEW offset \in Nat, NEW o, NEW K \in Nat,
         Labelled(o, K, bytes, offset + 1), bytes[(offset + 1) + o[K]] = 0, K <= Len(bytes)
  PROVE  D!ParseDNSName(bytes, offset) = o[K] + 1
<1> DEFINE N == Len(bytes)
           At(n) == Direct(offset + o[n], 1 + o[n])
           s == [n \in Nat |-> IF n <= K THEN At(n) ELSE At(K)]
<1>1. N \in Nat /\ K \in 0..K /\ K <= N
  OBVIOUS
<1>2. o[0] = 0 /\ o[K] \in Nat
  BY <1>1 DEF Labelled
<1> HIDE DEF N
<1>3. s[0] = Direct(offset, 1)
  <2>1. At(0) = Direct(offset, 1)
    <3>1. offset + 0 = offset /\ 1 + 0 = 1
      OBVIOUS
    <3> QED BY <1>2, <3>1, Zenon
  <2> HIDE DEF At
  <2> QED BY <2>1
<1>4. ASSUME NEW n \in 1..N PROVE s[n] = D!ReadLabel(bytes, s[n - 1])
  <2>1. CASE n <= K
    <3>1. n \in 1..K /\ n - 1 <= K
      BY <2>1
    <3>2. s[n] = At(n) /\ s[n - 1] = At(n - 1)
      <4> HIDE DEF At
      <4> QED BY <3>1
    <3> HIDE DEF s
    <3>3. D!ReadLabel(bytes, Direct(offset + o[n - 1], 1 + o[n - 1])) = Direct(offset + o[n], 1 + o[n])
      <4>1. 0 \in Nat
        OBVIOUS
      <4> QED BY <3>1, <4>1, LabelPassed
    <3> QED BY <3>2, <3>3, Zenon
  <2>2. CASE ~(n <= K)
    <3> DEFINE at == offset + o[K]
               len == 1 + o[K]
    <3>1. s[n] = At(K) /\ s[n - 1] = At(K)
      <4>1. n = K + 1 \/ ~(n - 1 <= K)
        BY <2>2
      <4>2. n - 1 = K \/ ~(n - 1 <= K)
        BY <4>1
      <4> HIDE DEF At
      <4> QED BY <2>2, <4>2, SMTT(60)
    <3>2. At(K) = Direct(at, len)
      BY Zenon
    <3>3. at \in Nat /\ len \in Nat /\ bytes[at + 1] = 0
      BY <1>2, NextOffset, Zenon
    <3> HIDE DEF s, At, at, len
    <3>4. D!ReadLabel(bytes, Direct(at, len)) =
            Direct(at, len)
      BY <3>3, EndStep, Zenon
    <3> QED BY <3>1, <3>2, <3>4
  <2> QED BY <2>1, <2>2
<1>5. s[N].len = 1 + o[K]
  <2>1. s[N] = At(K)
    <3>1. N = K \/ ~(N <= K)
      BY <1>1
    <3> HIDE DEF At
    <3> QED BY <1>1, <3>1
  <2> HIDE DEF s
  <2> QED BY <2>1 DEF Direct, Pointed
<1> HIDE DEF s
<1>6. D!ParseDNSName(bytes, offset) = s[N].len
  <2>1. Walks(s, bytes, offset)
    BY <1>3, <1>4 DEF Walks, N
  <2> QED BY <2>1, WalkEnds DEF N
<1> QED BY <1>2, <1>5, <1>6

\* Where a reply has its question.
BehindHeader(offset) == offset = D!HeaderSize

\* A name that ends in a pointer, wherever in the first 256 bytes it leads to: the
\* name behind the header is gone over.
LEMMA NamePointed ==
  ASSUME NEW bytes \in Seq(Nat), NEW offset \in Nat, NEW o, NEW K \in Nat,
         Labelled(o, K, bytes, offset + 1), bytes[(offset + 1) + o[K]] = 192,
         NEW d \in Nat, BehindHeader(d),
         NEW p, NEW H \in Nat, Labelled(p, H, bytes, d + 1), bytes[(d + 1) + p[H]] = 0,
         (K + 1) + H <= Len(bytes)
  PROVE  D!ParseDNSName(bytes, offset) = o[K] + 2
<1> DEFINE N == Len(bytes)
           J == K + 1
           L == 2 + o[K]
           At(n) == Direct(offset + o[n], 1 + o[n])
           There(m) == Pointed(d + p[m], L)
           s == [n \in Nat |-> IF n <= K THEN At(n)
                               ELSE IF n - J <= H THEN There(n - J) ELSE There(H)]
<1>1. N \in Nat /\ K \in 0..K /\ H \in 0..H /\ J + H <= N /\ J = K + 1 /\ J \in Nat
  OBVIOUS
<1>2. o[0] = 0 /\ o[K] \in Nat /\ p[0] = 0 /\ p[H] \in Nat
  BY <1>1 DEF Labelled
<1>3. L \in Nat /\ L = (1 + o[K]) + 1
  <2> DEFINE c == o[K]
  <2>1. c \in Nat
    BY <1>2
  <2> HIDE DEF c
  <2>2. 2 + c \in Nat /\ 2 + c = (1 + c) + 1
    BY <2>1
  <2> QED BY <2>2 DEF c
<1> HIDE DEF N, J, L
<1>4. s[0] = Direct(offset, 1)
  <2>1. At(0) = Direct(offset, 1)
    <3>1. offset + 0 = offset /\ 1 + 0 = 1
      OBVIOUS
    <3> QED BY <1>2, <3>1, Zenon
  <2> HIDE DEF At, There
  <2> QED BY <2>1
<1>5. ASSUME NEW n \in 1..N PROVE s[n] = D!ReadLabel(bytes, s[n - 1])
  <2>1. CASE n <= K
    <3>1. n \in 1..K /\ n - 1 <= K
      BY <2>1
    <3>2. s[n] = At(n) /\ s[n - 1] = At(n - 1)
      <4> HIDE DEF At, There
      <4> QED BY <3>1
    <3> HIDE DEF s
    <3>3. D!ReadLabel(bytes, Direct(offset + o[n - 1], 1 + o[n - 1])) = Direct(offset + o[n], 1 + o[n])
      <4>1. 0 \in Nat
        OBVIOUS
      <4> QED BY <3>1, <4>1, LabelPassed, SMTT(60)
    <3> QED BY <3>2, <3>3, Zenon
  <2>2. CASE n = J
    <3> DEFINE at == offset + o[K]
               len == 1 + o[K]
    <3>1. s[n] = There(0) /\ s[n - 1] = At(K)
      <4>1. n - 1 = K /\ n - J = 0 /\ ~(n <= K) /\ 0 <= H
        BY <1>1, <2>2
      <4> HIDE DEF At, There
      <4> QED BY <4>1
    <3>2. There(0) = Pointed(12, L)
      <4>1. d + 0 = 12
        BY DEF BehindHeader, D!HeaderSize
      <4> QED BY <1>2, <4>1, Zenon
    <3>3. At(K) = Direct(at, len)
      BY Zenon
    <3>4. bytes[at + 1] = 192 /\ len + 1 = L
      <4>1. at + 1 = (offset + 1) + o[K]
        <5> DEFINE c == o[K]
        <5>1. c \in Nat
          BY <1>2
        <5> HIDE DEF c
        <5>2. (offset + c) + 1 = (offset + 1) + c
          BY <5>1
        <5> QED BY <5>2 DEF c
      <4> QED BY <1>3, <4>1, Zenon
    <3> HIDE DEF s, At, There, at, len
    <3>5. D!ReadLabel(bytes, Direct(at, len)) =
            Pointed(12, len + 1)
      BY <3>4, PointerStep, Zenon
    <3> QED BY <3>1, <3>2, <3>3, <3>4, <3>5
  <2>3. CASE n - J \in 1..H
    <3> DEFINE m == n - J
    <3>1. m \in 1..H /\ (n - 1) - J = m - 1 /\ ~(n <= K) /\ ~(n - 1 <= K) /\ m <= H /\ m - 1 <= H
      BY <1>1, <2>3
    <3>2. s[n] = There(m) /\ s[n - 1] = There(m - 1)
      <4> HIDE DEF At, There
      <4> QED BY <3>1
    <3> HIDE DEF s, m
    <3>3. D!ReadLabel(bytes, Pointed(d + p[m - 1], L)) =
            Pointed(d + p[m], L)
      <4>1. m \in 1..H /\ L \in Nat
        BY <1>3, <3>1
      <4>2. \A j \in 1..H : D!ReadLabel(bytes, Pointed(d + p[j - 1], L)) = Pointed(d + p[j], L)
        BY <4>1, PointedPassed, SMTT(60)
      <4> HIDE DEF m
      <4> QED BY <4>1, <4>2, Zenon
    <3> QED BY <3>2, <3>3, Zenon
  <2>4. CASE n - J > H
    <3> DEFINE at == d + p[H]
    <3>1. s[n] = There(H) /\ s[n - 1] = There(H)
      <4>1. ~(n <= K) /\ ~(n - J <= H) /\ ~(n - 1 <= K) /\ (n - 1) - J \in Nat
            /\ ((n - 1) - J = H \/ ~((n - 1) - J <= H))
        BY <1>1, <2>4
      <4> HIDE DEF At, There
      <4> QED BY <4>1
    <3>2. There(H) = Pointed(at, L)
      BY Zenon
    <3>3. bytes[at + 1] = 0
      <4>1. at + 1 = (d + 1) + p[H]
        <5> DEFINE c == p[H]
        <5>1. c \in Nat
          BY <1>2
        <5> HIDE DEF c
        <5>2. (d + c) + 1 = (d + 1) + c
          BY <5>1
        <5> QED BY <5>2 DEF c
      <4> QED BY <4>1, Zenon
    <3> HIDE DEF s, There, at
    <3>4. D!ReadLabel(bytes, Pointed(at, L)) =
            Pointed(at, L)
      BY <3>3, EndStep, Zenon
    <3> QED BY <3>1, <3>2, <3>4
  <2>5. n <= K \/ n = J \/ n - J \in 1..H \/ n - J > H
    BY <1>1
  <2> HIDE DEF s
  <2> QED BY <2>1, <2>2, <2>3, <2>4, <2>5
<1>6. s[N].len = L
  <2>1. s[N] = There(H)
    <3>1. ~(N <= K) /\ (N - J = H \/ ~(N - J <= H))
      BY <1>1
    <3> HIDE DEF At, There
    <3> QED BY <1>1, <3>1
  <2> HIDE DEF s
  <2> QED BY <2>1 DEF Direct, Pointed
<1> HIDE DEF s
<1>7. D!ParseDNSName(bytes, offset) = s[N].len
  <2>1. Walks(s, bytes, offset)
    BY <1>4, <1>5 DEF Walks, N
  <2> QED BY <2>1, WalkEnds DEF N
<1> QED BY <1>2, <1>6, <1>7 DEF L

\* What a name may end in: a 0, or a pointer to the first 256 bytes.
FineEnd(end) ==
  \/ end = D!End
  \/ end \in Seq(Nat) /\ Len(end) = 2 /\ end[1] = 192

\* A name that stands in a reply is skipped as a whole.
LEMMA NameSkipped ==
  ASSUME NEW bytes \in Seq(Nat), NEW offset \in Nat,
         NEW labels, FineName(labels), NEW end, FineEnd(end),
         Stands(bytes, offset + 1, D!Wire(labels, end)),
         NEW host, FineName(host), Stands(bytes, D!HeaderSize + 1, D!Wire(host, D!End))
  PROVE  D!ParseDNSName(bytes, offset) = Len(D!Wire(labels, end))
<1> DEFINE N == Len(bytes)
           K == Len(labels)
           H == Len(host)
           d == D!HeaderSize
           from == offset + 1
           there == d + 1
<1>1. N \in Nat /\ K \in Nat /\ H \in Nat
  <2>1. labels \in Seq(Seq(Nat)) /\ host \in Seq(Seq(Nat))
    BY DEF FineName
  <2> QED BY <2>1
<1>2. d \in Nat /\ BehindHeader(d) /\ from \in Nat \ {0} /\ there \in Nat \ {0}
  BY DEF D!HeaderSize, BehindHeader
<1>3. end \in Seq(Nat) /\ Len(end) \in Nat \ {0} /\ 1 \in 1..Len(end)
  <2>1. CASE end = D!End
    <3>1. end = <<0>>
      BY <2>1 DEF D!End
    <3> QED BY <3>1
  <2>2. CASE end \in Seq(Nat) /\ Len(end) = 2
    BY <2>2
  <2> QED BY <2>1, <2>2 DEF FineEnd
<1>4. D!End \in Seq(Nat) /\ Len(D!End) = 1 /\ D!End[1] = 0
  BY DEF D!End
<1>5. Stands(bytes, from, D!Wire(labels, end)) /\ Stands(bytes, there, D!Wire(host, D!End))
  OBVIOUS
<1> HIDE DEF N, K, H, d, from, there
<1>6. PICK o : /\ Labelled(o, K, bytes, from) /\ Stands(bytes, from + o[K], end)
               /\ Len(D!Wire(labels, end)) = o[K] + Len(end)
  BY <1>2, <1>3, <1>5, NameStands DEF K
<1>7. PICK p : Labelled(p, H, bytes, there) /\ Stands(bytes, there + p[H], D!End)
  BY <1>2, <1>4, <1>5, NameStands DEF H
<1> DEFINE a == o[K]
           c == p[H]
<1>8. a \in Nat /\ c \in Nat /\ 2 * K <= a /\ 2 * H <= c
  <2>1. K \in 0..K /\ H \in 0..H /\ from \in Nat /\ there \in Nat
    BY <1>1, <1>2
  <2>2. a \in Nat /\ c \in Nat
    BY <1>6, <1>7, <2>1 DEF Labelled
  <2> QED BY <1>1, <1>6, <1>7, <2>1, <2>2, LabelsShort
<1> HIDE DEF a, c
<1>9. bytes[from + a] = end[1] /\ (from + a) + Len(end) - 1 <= N
  <2>1. Stands(bytes, from + a, end)
    BY <1>6 DEF a
  <2>2. (from + a) + Len(end) - 1 <= N /\ bytes[((from + a) - 1) + 1] = end[1]
    BY <1>3, <2>1, Zenon DEF Stands, N
  <2>3. ((from + a) - 1) + 1 = from + a
    BY <1>2, <1>8
  <2> QED BY <2>2, <2>3, Zenon
<1>10. bytes[there + c] = 0 /\ (there + c) + 1 - 1 <= N
  <2> DEFINE e == D!End
  <2>1. Stands(bytes, there + c, e) /\ Len(e) = 1 /\ e[1] = 0
    BY <1>4, <1>7 DEF c
  <2> HIDE DEF e
  <2>2. (there + c) + 1 - 1 <= N /\ 1 \in 1..Len(e) /\ bytes[((there + c) - 1) + 1] = 0
    <3>1. 1 \in 1..1
      OBVIOUS
    <3> QED BY <2>1, <3>1, Zenon DEF Stands, N
  <2>3. ((there + c) - 1) + 1 = there + c
    BY <1>2, <1>8
  <2> QED BY <2>2, <2>3, Zenon
<1>11. K <= N /\ (K + 1) + H <= N
  <2>1. from >= 1 /\ there = 13
    BY <1>2 DEF from, there, d, D!HeaderSize
  <2>2. from \in Nat /\ Len(end) \in Nat /\ Len(end) >= 1
    BY <1>2, <1>3
  <2>3. (from + a) <= N /\ 13 + c <= N
    BY <1>1, <1>8, <1>9, <1>10, <2>1, <2>2
  <2> QED BY <1>1, <1>8, <2>1, <2>2, <2>3
<1>12. CASE end = D!End
  <2>1. D!ParseDNSName(bytes, offset) = o[K] + 1
    <3>1. Labelled(o, K, bytes, offset + 1) /\ bytes[(offset + 1) + o[K]] = 0
      BY <1>4, <1>6, <1>9, <1>12 DEF a, from
    <3> QED BY <1>1, <1>11, <3>1, NameEnded DEF N
  <2> QED BY <1>4, <1>6, <1>12, <2>1
<1>13. CASE Len(end) = 2 /\ end[1] = 192
  <2>1. D!ParseDNSName(bytes, offset) = o[K] + 2
    <3>1. Labelled(o, K, bytes, offset + 1) /\ bytes[(offset + 1) + o[K]] = 192
      BY <1>6, <1>9, <1>13 DEF a, from
    <3>2. Labelled(p, H, bytes, d + 1) /\ bytes[(d + 1) + p[H]] = 0
      BY <1>7, <1>10 DEF c, there
    <3> QED BY <1>1, <1>2, <1>11, <3>1, <3>2, NamePointed, SMTT(60) DEF N
  <2> QED BY <1>6, <1>13, <2>1
<1> QED BY <1>12, <1>13 DEF FineEnd

\* How far the loop over the answers is.
Answered(at, got) == [at |-> at, got |-> got]

\* What is in front of the data of a record, but for the name.
RecordHead(type, class, size) ==
  <<0, type, 0, class, 0, 0, 0, 0, size \div 256, size % 256>>

\* What a record of a reply adds to the addresses.
Holds(type, class, data) ==
  IF type = D!DNS_TYPE_A /\ class = D!DNS_CLASS_IN THEN <<data>> ELSE <<>>

\* A record that stands in a reply is passed, and its address is got.
LEMMA AnswerRead ==
  ASSUME NEW bytes \in Seq(Nat), NEW at \in Nat, NEW got \in Seq(Seq(Nat)),
         NEW name \in Seq(Nat), NEW type \in Nat, NEW class \in Nat, NEW data \in Seq(Nat),
         type = D!DNS_TYPE_A /\ class = D!DNS_CLASS_IN => Len(data) = 4,
         Stands(bytes, at + 1, D!Record(name, type, class, data)),
         D!ParseDNSName(bytes, at) = Len(name)
  PROVE  /\ D!Record(name, type, class, data) \in Seq(Nat)
         /\ D!ReadAnswer(bytes, Answered(at, got)) =
              Answered(at + Len(D!Record(name, type, class, data)), got \o Holds(type, class, data))
<1> DEFINE size == Len(data)
           head == RecordHead(type, class, size)
           x == head \o data
           answer == at + Len(name)
           first == (at + 1) + Len(name)
<1>1. size \in Nat /\ size \div 256 \in Nat /\ size % 256 \in Nat
      /\ (size \div 256) * 256 + (size % 256) = size
  <2>1. size \in Nat
    OBVIOUS
  <2> HIDE DEF size
  <2> QED BY <2>1
<1>2. head \in Seq(Nat) /\ Len(head) = 10
  <2> HIDE DEF size
  <2> QED BY <1>1 DEF RecordHead
<1>3. D!Record(name, type, class, data) = name \o x
  BY Zenon DEF D!Record, RecordHead
<1>4. x \in Seq(Nat) /\ Len(x) = 10 + size
  <2> HIDE DEF head
  <2> QED BY <1>2, LenConcat
<1>5. name \o x \in Seq(Nat) /\ Len(name \o x) = Len(name) + (10 + size)
  <2> HIDE DEF x, size
  <2> QED BY <1>4, LenConcat, ZenonT(60)
<1>6. Stands(bytes, first, x)
  <2>1. at + 1 \in Nat \ {0} /\ Stands(bytes, at + 1, name \o x)
    BY <1>3
  <2> HIDE DEF x
  <2> QED BY <1>4, <2>1, StandsParts
<1>7. first \in Nat \ {0} /\ answer \in Nat /\ first = answer + 1
  OBVIOUS
<1>8. Stands(bytes, first, head) /\ Stands(bytes, first + 10, data)
  <2> HIDE DEF head, first
  <2> QED BY <1>2, <1>6, <1>7, StandsParts
<1> HIDE DEF answer, first
<1>9. ASSUME NEW j \in 0..9 PROVE D!Byte(bytes, answer + j) = head[j + 1]
  <2>1. bytes[(first - 1) + (j + 1)] = head[j + 1]
    <3>1. j + 1 \in 1..Len(head)
      BY <1>2
    <3> HIDE DEF head
    <3> QED BY <1>8, <3>1, Zenon DEF Stands
  <2>2. (first - 1) + (j + 1) = (answer + j) + 1
    BY <1>7
  <2> HIDE DEF head
  <2> QED BY <2>1, <2>2, Zenon DEF D!Byte
<1>10. /\ head[1] = 0 /\ head[2] = type /\ head[3] = 0 /\ head[4] = class
       /\ head[9] = size \div 256 /\ head[10] = size % 256
  BY Zenon DEF RecordHead
<1> HIDE DEF head, size
<1>11. /\ D!Byte(bytes, answer) = 0 /\ D!Byte(bytes, answer + 1) = type
       /\ D!Byte(bytes, answer + 2) = 0 /\ D!Byte(bytes, answer + 3) = class
       /\ D!Byte(bytes, answer + 8) = size \div 256 /\ D!Byte(bytes, answer + 9) = size % 256
  <2>1. answer + 0 = answer
    BY <1>7
  <2>2. /\ 0 \in 0..9 /\ 1 \in 0..9 /\ 2 \in 0..9 /\ 3 \in 0..9 /\ 8 \in 0..9 /\ 9 \in 0..9
        /\ 0 + 1 = 1 /\ 1 + 1 = 2 /\ 2 + 1 = 3 /\ 3 + 1 = 4 /\ 8 + 1 = 9 /\ 9 + 1 = 10
    OBVIOUS
  <2>3. D!Byte(bytes, answer) = 0
    BY <1>9, <1>10, <2>1, <2>2, ZenonT(60)
  <2>4. D!Byte(bytes, answer + 1) = type
    BY <1>9, <1>10, <2>2, ZenonT(60)
  <2>5. D!Byte(bytes, answer + 2) = 0
    BY <1>9, <1>10, <2>2, Zenon
  <2>6. D!Byte(bytes, answer + 3) = class
    BY <1>9, <1>10, <2>2, ZenonT(60)
  <2>7. D!Byte(bytes, answer + 8) = size \div 256
    BY <1>9, <1>10, <2>2, ZenonT(60)
  <2>8. D!Byte(bytes, answer + 9) = size % 256
    BY <1>9, <1>10, <2>2, Zenon
  <2> QED BY <2>3, <2>4, <2>5, <2>6, <2>7, <2>8
<1>12. /\ D!Short(bytes, answer) = type /\ D!Short(bytes, answer + 2) = class
       /\ D!Short(bytes, answer + 8) = size
  <2>1. (answer + 2) + 1 = answer + 3 /\ (answer + 8) + 1 = answer + 9
    BY <1>7
  <2>2. D!Short(bytes, answer) = 0 * 256 + type
    BY <1>11, Zenon DEF D!Short
  <2>3. D!Short(bytes, answer + 2) = 0 * 256 + class
    BY <1>11, <2>1, Zenon DEF D!Short
  <2>4. D!Short(bytes, answer + 8) = (size \div 256) * 256 + (size % 256)
    BY <1>11, <2>1, ZenonT(60) DEF D!Short
  <2> QED BY <1>1, <2>2, <2>3, <2>4
<1>13. D!RecordSize(bytes, answer) = 10 + size
  BY <1>12, Zenon DEF D!RecordSize, D!AnswerSize
<1>14. D!HoldsAddress(bytes, answer) <=> type = D!DNS_TYPE_A /\ class = D!DNS_CLASS_IN
  BY <1>12 DEF D!HoldsAddress, size
<1> DEFINE found == [i \in 1..4 |-> D!Byte(bytes, answer + D!AnswerSize + i - 1)]
<1>15. ASSUME type = D!DNS_TYPE_A /\ class = D!DNS_CLASS_IN PROVE found = data
  <2>1. size = 4
    BY <1>15 DEF size
  <2>2. data = [i \in 1..4 |-> data[i]]
    BY <2>1 DEF size
  <2>3. ASSUME NEW i \in 1..4 PROVE D!Byte(bytes, answer + D!AnswerSize + i - 1) = data[i]
    <3>1. bytes[((first + 10) - 1) + i] = data[i]
      BY <1>8, <2>1, Zenon DEF Stands, size
    <3>2. ((first + 10) - 1) + i = (answer + D!AnswerSize + i - 1) + 1
      BY <1>7 DEF D!AnswerSize
    <3> QED BY <3>1, <3>2, Zenon DEF D!Byte
  <2> QED BY <2>2, <2>3
<1>16. D!ReadAnswer(bytes, Answered(at, got)) =
         Answered(answer + (10 + size), IF D!HoldsAddress(bytes, answer) THEN Append(got, found) ELSE got)
  <2> DEFINE r == Answered(at, got)
  <2>1. r.at = at /\ r.got = got
    BY DEF Answered
  <2> HIDE DEF r
  <2>2. at + D!ParseDNSName(bytes, at) = answer
    BY DEF answer
  <2>3. r.at + D!ParseDNSName(bytes, r.at) = answer
    BY <2>1, <2>2, Zenon
  <2>4. D!ReadAnswer(bytes, r) =
          [at  |-> answer + D!RecordSize(bytes, answer),
           got |-> IF D!HoldsAddress(bytes, answer) THEN Append(r.got, found) ELSE r.got]
    BY <2>3, Zenon DEF D!ReadAnswer
  <2> HIDE DEF found
  <2> QED BY <1>13, <2>1, <2>4, Zenon DEF r, Answered
<1> HIDE DEF found
<1>17. (IF D!HoldsAddress(bytes, answer) THEN Append(got, found) ELSE got) = got \o Holds(type, class, data)
  <2>1. CASE type = D!DNS_TYPE_A /\ class = D!DNS_CLASS_IN
    <3>1. Holds(type, class, data) = <<data>>
      BY <2>1, Zenon DEF Holds
    <3>2. Append(got, data) = got \o <<data>>
      <4> DEFINE E == Seq(Nat)
      <4>1. data \in E /\ got \in Seq(E)
        OBVIOUS
      <4> HIDE DEF E
      <4> QED BY <4>1, SMTT(60)
    <3> QED BY <1>14, <1>15, <2>1, <3>1, <3>2, Zenon
  <2>2. CASE ~(type = D!DNS_TYPE_A /\ class = D!DNS_CLASS_IN)
    <3>1. Holds(type, class, data) = <<>>
      BY <2>2, Zenon DEF Holds
    <3>2. got \o <<>> = got
      OBVIOUS
    <3> QED BY <1>14, <2>2, <3>1, <3>2, Zenon
  <2> QED BY <2>1, <2>2
<1>18. answer + (10 + size) = at + (Len(name) + (10 + size))
  <2>1. Len(name) \in Nat
    OBVIOUS
  <2> QED BY <1>1, <2>1 DEF answer
<1> HIDE DEF x
<1> QED BY <1>3, <1>5, <1>16, <1>17, <1>18, Zenon

\* A solution of the recursion of Addresses.
AnswerWalk(bytes, offset, count, h) ==
  h = [n \in 0..count |-> IF n = 0 THEN Answered(offset, <<>>) ELSE D!ReadAnswer(bytes, h[n - 1])]

\* If there is one, the addresses are one's.
LEMMA AddressesAre ==
  ASSUME NEW bytes, NEW offset, NEW count, \E h : AnswerWalk(bytes, offset, count, h)
  PROVE  \E h : AnswerWalk(bytes, offset, count, h) /\ D!Addresses(bytes, offset, count) = h[count].got
<1> DEFINE g == CHOOSE h : AnswerWalk(bytes, offset, count, h)
<1>1. AnswerWalk(bytes, offset, count, g)
  BY Zenon
<1>2. D!Addresses(bytes, offset, count) = g[count].got
  BY Zenon DEF D!Addresses, AnswerWalk, Answered
<1> QED BY <1>1, <1>2, Zenon

\* What the loop over the answers goes through: s.
AnswersWalked(s, bytes, offset, count) ==
  /\ s[0] = Answered(offset, <<>>)
  /\ \A n \in 1..count : s[n] = D!ReadAnswer(bytes, s[n - 1])

\* The addresses are what it has got in the end.
LEMMA AnswersEnd ==
  ASSUME NEW bytes, NEW offset, NEW count \in Nat, NEW s, AnswersWalked(s, bytes, offset, count)
  PROVE  D!Addresses(bytes, offset, count) = s[count].got
<1> DEFINE g == [n \in 0..count |-> s[n]]
<1>1. s[0] = Answered(offset, <<>>) /\ \A n \in 1..count : s[n] = D!ReadAnswer(bytes, s[n - 1])
  BY Zenon DEF AnswersWalked
<1>2. ASSUME NEW n \in 0..count
      PROVE  g[n] = IF n = 0 THEN Answered(offset, <<>>) ELSE D!ReadAnswer(bytes, g[n - 1])
  <2>1. CASE n = 0
    BY <1>1, <2>1
  <2>2. CASE n # 0
    <3>1. n \in 1..count /\ n - 1 \in 0..count
      BY <2>2
    <3>2. g[n] = s[n] /\ g[n - 1] = s[n - 1]
      BY <3>1
    <3> QED BY <1>1, <2>2, <3>1, <3>2
  <2> QED BY <2>1, <2>2
<1>3. g = [n \in 0..count |-> g[n]]
  OBVIOUS
<1> HIDE DEF g
<1>4. AnswerWalk(bytes, offset, count, g)
  <2>1. g = [n \in 0..count |-> IF n = 0 THEN Answered(offset, <<>>) ELSE D!ReadAnswer(bytes, g[n - 1])]
    BY <1>2, <1>3
  <2> QED BY <2>1 DEF AnswerWalk
<1>5. PICK h : AnswerWalk(bytes, offset, count, h) /\ D!Addresses(bytes, offset, count) = h[count].got
  BY <1>4, AddressesAre
<1> DEFINE T == {n \in Nat : n <= count => s[n] = h[n]}
<1>6. h = [n \in 0..count |-> IF n = 0 THEN Answered(offset, <<>>) ELSE D!ReadAnswer(bytes, h[n - 1])]
  BY <1>5, Zenon DEF AnswerWalk
<1>7. 0 \in T
  <2>1. h[0] = Answered(offset, <<>>)
    BY <1>6
  <2> QED BY <1>1, <2>1
<1>8. ASSUME NEW n \in Nat, n \in T PROVE n + 1 \in T
  <2> SUFFICES ASSUME n + 1 <= count PROVE s[n + 1] = h[n + 1]
    OBVIOUS
  <2>1. n + 1 \in 0..count /\ n + 1 \in 1..count /\ n + 1 # 0 /\ (n + 1) - 1 = n /\ s[n] = h[n]
    BY <1>8
  <2>2. s[n + 1] = D!ReadAnswer(bytes, s[n])
    BY <1>1, <2>1
  <2>3. h[n + 1] = D!ReadAnswer(bytes, h[n])
    BY <1>6, <2>1
  <2> QED BY <2>1, <2>2, <2>3
<1> HIDE DEF T
<1>9. Nat \subseteq T
  BY <1>7, <1>8, SetInduction
<1>10. s[count] = h[count]
  BY <1>9 DEF T
<1> QED BY <1>5, <1>10

\* An answer: a name that may end in a pointer, and an address of four bytes.
FineAnswer(a) ==
  /\ \E labels, end : FineName(labels) /\ FineEnd(end) /\ a.name = D!Wire(labels, end)
  /\ a.type \in Nat /\ a.class \in Nat /\ a.data \in Seq(Nat)
  /\ a.type = D!DNS_TYPE_A /\ a.class = D!DNS_CLASS_IN => Len(a.data) = 4

Recorded(a) == D!Record(a.name, a.type, a.class, a.data)
HeldBy(a) == Holds(a.type, a.class, a.data)

\* A reply has the name asked for in its question.
Asks(bytes, host) ==
  FineName(host) /\ Stands(bytes, D!HeaderSize + 1, D!Wire(host, D!End))

\* A record consists of bytes, first those of its name.
LEMMA RecordedIs ==
  ASSUME NEW a, FineAnswer(a)
  PROVE  /\ Recorded(a) \in Seq(Nat) /\ HeldBy(a) \in Seq(Seq(Nat)) /\ a.name \in Seq(Nat)
         /\ \E rest \in Seq(Nat) : Recorded(a) = a.name \o rest
<1> DEFINE n == Len(a.data)
           head == RecordHead(a.type, a.class, n)
           rest == head \o a.data
<1>1. a.type \in Nat /\ a.class \in Nat /\ a.data \in Seq(Nat)
  BY Zenon DEF FineAnswer
<1>2. a.name \in Seq(Nat)
  <2>1. PICK labels, end : FineName(labels) /\ FineEnd(end) /\ a.name = D!Wire(labels, end)
    BY Zenon DEF FineAnswer
  <2>2. end \in Seq(Nat)
    <3>1. <<0>> \in Seq(Nat)
      OBVIOUS
    <3> QED BY <2>1, <3>1, Zenon DEF FineEnd, D!End
  <2> QED BY <2>1, <2>2, WireIs
<1>3. head \in Seq(Nat)
  <2>1. n \in Nat
    BY <1>1
  <2> HIDE DEF n
  <2>2. n \div 256 \in Nat /\ n % 256 \in Nat
    BY <2>1
  <2> QED BY <1>1, <2>2 DEF RecordHead
<1>4. Recorded(a) = a.name \o rest
  BY Zenon DEF Recorded, D!Record, RecordHead
<1> HIDE DEF head
<1>5. rest \in Seq(Nat)
  BY <1>1, <1>3, LenConcat
<1> HIDE DEF rest
<1>6. Recorded(a) \in Seq(Nat)
  <2>1. a.name \o rest \in Seq(Nat)
    BY <1>2, <1>5, LenConcat
  <2> QED BY <1>4, <2>1
<1>7. HeldBy(a) \in Seq(Seq(Nat))
  <2> DEFINE E == Seq(Nat)
             d == a.data
  <2>1. d \in E
    BY <1>1
  <2> HIDE DEF E, d
  <2>2. <<d>> \in Seq(E) /\ <<>> \in Seq(E)
    BY <2>1
  <2> QED BY <2>2, Zenon DEF HeldBy, Holds, E, d
<1> QED BY <1>2, <1>4, <1>5, <1>6, <1>7

\* The answer that stands at an offset is read.
LEMMA FineRead ==
  ASSUME NEW bytes \in Seq(Nat), NEW at \in Nat, NEW got \in Seq(Seq(Nat)), NEW a, FineAnswer(a),
         NEW host, Asks(bytes, host), Stands(bytes, at + 1, Recorded(a))
  PROVE  D!ReadAnswer(bytes, Answered(at, got)) =
           Answered(at + Len(Recorded(a)), got \o HeldBy(a))
<1>1. PICK labels, end : FineName(labels) /\ FineEnd(end) /\ a.name = D!Wire(labels, end)
  BY Zenon DEF FineAnswer
<1> DEFINE name == a.name
           type == a.type
           class == a.class
           data == a.data
<1>2. /\ type \in Nat /\ class \in Nat /\ data \in Seq(Nat)
      /\ type = D!DNS_TYPE_A /\ class = D!DNS_CLASS_IN => Len(data) = 4
  BY Zenon DEF FineAnswer
<1>3. PICK rest \in Seq(Nat) : Recorded(a) = name \o rest
  BY RecordedIs
<1>4. name \in Seq(Nat)
  BY RecordedIs
<1>5. Stands(bytes, at + 1, D!Record(name, type, class, data))
  BY Zenon DEF Recorded
<1> HIDE DEF name, type, class, data
<1>6. D!ParseDNSName(bytes, at) = Len(name)
  <2>1. Stands(bytes, at + 1, name)
    <3>1. at + 1 \in Nat \ {0} /\ Stands(bytes, at + 1, name \o rest)
      BY <1>3
    <3> QED BY <1>4, <3>1, StandsParts
  <2>2. Stands(bytes, at + 1, D!Wire(labels, end))
    BY <1>1, <2>1, Zenon DEF name
  <2>3. D!ParseDNSName(bytes, at) = Len(D!Wire(labels, end))
    BY <1>1, <2>2, NameSkipped DEF Asks
  <2> QED BY <1>1, <2>3, Zenon DEF name
<1>7. D!ReadAnswer(bytes, Answered(at, got)) =
        Answered(at + Len(D!Record(name, type, class, data)), got \o Holds(type, class, data))
  <2>1. name \in Seq(Nat) /\ type \in Nat /\ class \in Nat /\ data \in Seq(Nat)
    BY <1>2, <1>4, Zenon
  <2>2. type = D!DNS_TYPE_A /\ class = D!DNS_CLASS_IN => Len(data) = 4
    BY <1>2, Zenon
  <2>3. bytes \in Seq(Nat) /\ at \in Nat /\ got \in Seq(Seq(Nat))
    OBVIOUS
  <2>4. Stands(bytes, at + 1, D!Record(name, type, class, data))
    BY <1>5, Zenon
  <2>5. D!ParseDNSName(bytes, at) = Len(name)
    BY <1>6, Zenon
  <2> QED BY ONLY <2>1, <2>2, <2>3, <2>4, <2>5, AnswerRead, SMTT(60)
<1> QED BY <1>7, Zenon DEF Recorded, HeldBy, name, type, class, data

\* Answers and what they become: their records, pieces, which stand one behind the
\* other at an offset of a reply, and the addresses they hold, out.
Ordered(answers, N, pieces, out, f, g, bytes, offset, host) ==
  /\ N \in Nat /\ \A i \in 1..N : FineAnswer(answers[i])
  /\ pieces \in Seq(Seq(Nat)) /\ Len(pieces) = N /\ \A i \in 1..N : pieces[i] = Recorded(answers[i])
  /\ Len(out) = N /\ \A i \in 1..N : out[i] = HeldBy(answers[i])
  /\ Grown(f, pieces, Nat) /\ Grown(g, out, Seq(Nat))
  /\ bytes \in Seq(Nat) /\ offset \in Nat /\ Stands(bytes, offset + 1, f[N]) /\ Asks(bytes, host)

\* Answers that stand one behind the other are read one after the other.
LEMMA AnswersRead ==
  ASSUME NEW answers, NEW N, NEW pieces, NEW out, NEW f, NEW g, NEW bytes, NEW offset, NEW host,
         Ordered(answers, N, pieces, out, f, g, bytes, offset, host)
  PROVE  D!Addresses(bytes, offset, N) = g[N]
<1> SUFFICES ASSUME N \in Nat, \A i \in 1..N : FineAnswer(answers[i]),
                    pieces \in Seq(Seq(Nat)), Len(pieces) = N,
                    \A i \in 1..N : pieces[i] = Recorded(answers[i]),
                    Len(out) = N, \A i \in 1..N : out[i] = HeldBy(answers[i]),
                    Grown(f, pieces, Nat), Grown(g, out, Seq(Nat)),
                    bytes \in Seq(Nat), offset \in Nat, Stands(bytes, offset + 1, f[N]),
                    Asks(bytes, host)
             PROVE  D!Addresses(bytes, offset, N) = g[N]
  BY Zenon DEF Ordered
<1> DEFINE At(n) == Answered(offset + Len(f[n]), g[n])
           s == [n \in Nat |-> At(n)]
<1>1. \A n \in Nat : f[n] \in Seq(Nat) /\ Len(f[n]) \in Nat /\ g[n] \in Seq(Seq(Nat))
  <2>1. ASSUME NEW n \in Nat PROVE f[n] \in Seq(Nat) /\ g[n] \in Seq(Seq(Nat))
    BY Zenon DEF Grown
  <2>2. ASSUME NEW n \in Nat PROVE Len(f[n]) \in Nat
    BY ONLY <2>1, <2>2
  <2> QED BY ONLY <2>1, <2>2
<1>2. s[0] = Answered(offset, <<>>)
  <2>1. f[0] = <<>> /\ g[0] = <<>>
    BY DEF Grown
  <2>2. Len(f[0]) = 0
    BY <2>1
  <2>3. offset + 0 = offset /\ s[0] = At(0)
    OBVIOUS
  <2> HIDE DEF s
  <2> QED BY <2>1, <2>2, <2>3, Zenon
<1>3. ASSUME NEW n \in 1..N PROVE s[n] = D!ReadAnswer(bytes, s[n - 1])
  <2> DEFINE a == answers[n]
             x == f[n - 1]
             got == g[n - 1]
             at == offset + Len(x)
             piece == pieces[n]
  <2>1. n - 1 \in Nat /\ n \in Nat /\ n \in 1..Len(pieces) /\ n \in 1..Len(out)
    OBVIOUS
  <2>2. s[n] = At(n) /\ s[n - 1] = Answered(at, got)
    BY <2>1
  <2>3. FineAnswer(a) /\ piece = Recorded(a) /\ out[n] = HeldBy(a)
    OBVIOUS
  <2>4. /\ x \in Seq(Nat) /\ got \in Seq(Seq(Nat)) /\ piece \in Seq(Nat)
        /\ f[n] = x \o piece /\ g[n] = got \o out[n]
    BY <1>1, <2>1 DEF Grown
  <2>5. Stands(f[N], Len(x) + 1, piece)
    BY <2>1, PieceStands
  <2>6. f[N] \in Seq(Nat)
    BY <1>1
  <2> HIDE DEF s, x, got, piece, a
  <2>7. at \in Nat /\ Stands(bytes, at + 1, piece)
    <3> DEFINE p == Len(x) + 1
               y == f[N]
    <3>1. Len(x) \in Nat /\ offset + 1 \in Nat \ {0} /\ p \in Nat \ {0}
      BY <2>4, SMTT(60)
    <3>2. y \in Seq(Nat) /\ Stands(bytes, offset + 1, y) /\ Stands(y, p, piece)
      BY <2>5, <2>6
    <3>3. ((offset + 1) - 1) + p = at + 1 /\ at \in Nat
      BY <3>1
    <3> HIDE DEF p, y, at
    <3>4. Stands(bytes, ((offset + 1) - 1) + p, piece)
      BY <2>4, <3>1, <3>2, StandsIn
    <3> QED BY <3>3, <3>4
  <2> HIDE DEF at
  <2>8. D!ReadAnswer(bytes, Answered(at, got)) = Answered(at + Len(piece), got \o HeldBy(a))
    BY <2>3, <2>4, <2>7, FineRead
  <2>9. at + Len(piece) = offset + Len(f[n])
    <3>1. Len(f[n]) = Len(x) + Len(piece) /\ Len(x) \in Nat /\ Len(piece) \in Nat
      BY <2>4, LenConcat
    <3> QED BY <3>1 DEF at
  <2>10. got \o HeldBy(a) = g[n]
    BY <2>3, <2>4
  <2> QED BY <2>2, <2>8, <2>9, <2>10, Zenon
<1> HIDE DEF s
<1>4. AnswersWalked(s, bytes, offset, N)
  BY <1>2, <1>3 DEF AnswersWalked
<1>5. D!Addresses(bytes, offset, N) = s[N].got
  BY <1>4, AnswersEnd
<1>6. s[N].got = g[N]
  BY DEF s, Answered
<1> QED BY <1>5, <1>6

\* A reply to the question for a host is read as the addresses its answers hold.
LEMMA ReplyIs ==
  ASSUME NEW host, FineName(host), NEW S, NEW answers \in Seq(S), \A a \in S : FineAnswer(a)
  PROVE  D!ReadReply(D!Reply(host, Records(answers)), Len(answers)) =
           FlattenSeq([i \in DOMAIN answers |-> HeldBy(answers[i])])
<1> DEFINE N == Len(answers)
           pieces == Records(answers)
           out == [i \in DOMAIN answers |-> HeldBy(answers[i])]
           bytes == D!Reply(host, pieces)
           front == [i \in 1..D!HeaderSize |-> 0]
           wire == D!Wire(host, D!End)
           rest == <<0, D!DNS_TYPE_A, 0, D!DNS_CLASS_IN>>
<1>1. N \in Nat /\ DOMAIN answers = 1..N /\ \A i \in 1..N : FineAnswer(answers[i])
  OBVIOUS
<1>2. \A i \in 1..N : Recorded(answers[i]) \in Seq(Nat) /\ HeldBy(answers[i]) \in Seq(Seq(Nat))
  BY <1>1, RecordedIs
<1>3. pieces = [i \in 1..N |-> Recorded(answers[i])] /\ out = [i \in 1..N |-> HeldBy(answers[i])]
  BY <1>1, Zenon DEF Records, Recorded
<1> HIDE DEF pieces, out, N
<1>4. /\ pieces \in Seq(Seq(Nat)) /\ Len(pieces) = N /\ out \in Seq(Seq(Seq(Nat))) /\ Len(out) = N
      /\ \A i \in 1..N : pieces[i] = Recorded(answers[i]) /\ out[i] = HeldBy(answers[i])
  <2> DEFINE E == Seq(Nat)
             F == Seq(E)
  <2>1. pieces \in [1..N -> E] /\ out \in [1..N -> F]
    BY <1>2, <1>3
  <2>2. \A i \in 1..N : pieces[i] = Recorded(answers[i]) /\ out[i] = HeldBy(answers[i])
    BY <1>3
  <2> HIDE DEF E, F
  <2>3. pieces \in Seq(E) /\ Len(pieces) = N
    BY <1>1, <2>1
  <2>4. out \in Seq(F) /\ Len(out) = N
    BY <1>1, <2>1
  <2> QED BY <2>2, <2>3, <2>4 DEF E, F
<1>5. PICK f : Grown(f, pieces, Nat) /\ FR!FlattenSeq(pieces) = f[N]
  BY <1>4, Flattened
<1>6. PICK g : Grown(g, out, Seq(Nat)) /\ FR!FlattenSeq(out) = g[N]
  <2> DEFINE E == Seq(Nat)
  <2>1. out \in Seq(Seq(E))
    BY <1>4
  <2> HIDE DEF E
  <2>2. PICK g : Grown(g, out, E) /\ FR!FlattenSeq(out) = g[Len(out)]
    BY <2>1, Flattened
  <2> QED BY <1>4, <2>2 DEF E
<1> DEFINE z == f[N]
           y == rest \o z
           x == front \o wire
<1>7. bytes = x \o y
  <2>1. D!FlattenSeq(pieces) = z
    BY <1>5, Zenon DEF D!FlattenSeq, FR!FlattenSeq
  <2>2. bytes = (front \o wire) \o (rest \o D!FlattenSeq(pieces))
    BY Zenon DEF D!Reply
  <2> HIDE DEF rest, front, wire, z
  <2> QED BY <2>1, <2>2
<1>8. /\ front \in Seq(Nat) /\ Len(front) = 12
      /\ rest \in Seq(Nat) /\ Len(rest) = 4
      /\ wire \in Seq(Nat) /\ z \in Seq(Nat)
  <2>1. front \in Seq(Nat) /\ Len(front) = 12
    BY DEF D!HeaderSize
  <2>2. rest \in Seq(Nat) /\ Len(rest) = 4
    BY DEF D!DNS_TYPE_A, D!DNS_CLASS_IN
  <2>3. wire \in Seq(Nat)
    <3>1. D!End \in Seq(Nat)
      BY DEF D!End
    <3> QED BY <3>1, WireIs
  <2>4. z \in Seq(Nat)
    BY <1>1, <1>5 DEF Grown
  <2> QED BY <2>1, <2>2, <2>3, <2>4
<1> HIDE DEF bytes, front, wire, rest, z
<1>9. /\ x \in Seq(Nat) /\ Len(x) = 12 + Len(wire) /\ y \in Seq(Nat) /\ Len(wire) \in Nat
  <2>1. x \in Seq(Nat) /\ Len(x) = Len(front) + Len(wire)
    BY <1>8, LenConcat
  <2>2. y \in Seq(Nat)
    BY <1>8, LenConcat
  <2>3. Len(wire) \in Nat
    BY <1>8
  <2> HIDE DEF x, y
  <2> QED BY <1>8, <2>1, <2>2, <2>3
<1>10. bytes \in Seq(Nat) /\ Stands(bytes, 1, x) /\ Stands(bytes, 1 + Len(x), y)
  <2> HIDE DEF x, y
  <2> DEFINE b == x \o y
  <2>1. b \in Seq(Nat) /\ Len(b) \in Nat
    BY <1>9, LenConcat
  <2> HIDE DEF b
  <2>2. Stands(b, 1, b)
    BY <2>1, FrontIs
  <2>3. Stands(b, 1, x \o y)
    BY <2>2 DEF b
  <2>4. 1 \in Nat \ {0}
    OBVIOUS
  <2>5. Stands(b, 1, x) /\ Stands(b, 1 + Len(x), y)
    BY <1>9, <2>1, <2>3, <2>4, StandsParts
  <2> QED BY <1>7, <2>1, <2>5, Zenon DEF b
<1> DEFINE first == 12 + Len(wire) + 4
<1>11. Stands(bytes, D!HeaderSize + 1, wire)
  <2>1. Stands(bytes, 1 + Len(front), wire)
    <3>1. 1 \in Nat \ {0} /\ Stands(bytes, 1, front \o wire)
      BY <1>10
    <3> QED BY <1>8, <1>10, <3>1, StandsParts
  <2>2. 1 + Len(front) = D!HeaderSize + 1
    BY <1>8 DEF D!HeaderSize
  <2> QED BY <2>1, <2>2, Zenon
<1>12. first \in Nat /\ Stands(bytes, first + 1, z)
  <2> DEFINE from == 1 + Len(x)
  <2>1. from \in Nat \ {0} /\ first \in Nat /\ from + 4 = first + 1
    BY <1>9
  <2>2. Stands(bytes, from, rest \o z)
    BY <1>10
  <2> HIDE DEF from, first
  <2>3. Stands(bytes, from + Len(rest), z)
    BY <1>8, <1>10, <2>1, <2>2, StandsParts
  <2> QED BY <1>8, <2>1, <2>3, Zenon
<1> HIDE DEF x, y
<1>13. Asks(bytes, host)
  BY <1>11 DEF Asks, wire
<1>14. D!ParseDNSName(bytes, D!HeaderSize) = Len(wire)
  <2>1. D!HeaderSize \in Nat /\ FineEnd(D!End)
    BY DEF D!HeaderSize, FineEnd
  <2> QED BY <1>10, <1>11, <2>1, NameSkipped DEF wire
<1>15. D!ReadReply(bytes, N) = D!Addresses(bytes, first, N)
  <2>1. D!HeaderSize + Len(wire) + D!QuestionSize = first
    BY DEF D!HeaderSize, D!QuestionSize
  <2> HIDE DEF first
  <2> QED BY <1>14, <2>1, Zenon DEF D!ReadReply
<1> HIDE DEF first
<1>16. D!Addresses(bytes, first, N) = g[N]
  <2>1. Stands(bytes, first + 1, f[N])
    BY <1>12, Zenon DEF z
  <2>2. Ordered(answers, N, pieces, out, f, g, bytes, first, host)
    BY <1>1, <1>4, <1>5, <1>6, <1>10, <1>12, <1>13, <2>1, Zenon DEF Ordered
  <2> QED BY ONLY <2>2, AnswersRead
<1>17. FlattenSeq(out) = g[N]
  BY <1>6, Zenon DEF FR!FlattenSeq, FlattenSeq
<1> QED BY <1>15, <1>16, <1>17 DEF N, bytes, pieces, out

\* The names and the answers that replies are made of are such.
LEMMA AnswersFine ==
  FineName(Host) /\ \A a \in Answers : FineAnswer(a)
<1> DEFINE other == <<<<97, 97>>>>
           e == D!PointerTo(D!HeaderSize)
           c == D!PointerTo(D!HeaderSize + 2)
<1>1. FineName(Host) /\ FineName(other) /\ FineName(<<>>)
  <2>1. ASSUME NEW s, s \in Seq(Seq(Nat)), \A i \in 1..Len(s) : Len(s[i]) \in 1..191
        PROVE  FineName(s)
    BY <2>1 DEF FineName
  <2>2. FineName(Host)
    <3> DEFINE k == <<97>>
               l == <<98, 98>>
               s == <<k, l>>
               E == Seq(Nat)
    <3>1. k \in E /\ l \in E /\ Len(k) \in 1..191 /\ Len(l) \in 1..191
      OBVIOUS
    <3> HIDE DEF k, l, E
    <3>2. s \in Seq(E) /\ Len(s) = 2 /\ s[1] = k /\ s[2] = l
      BY <3>1
    <3> HIDE DEF s
    <3>3. FineName(s)
      BY <3>1, <3>2 DEF FineName, E
    <3> QED BY <3>3 DEF Host, s, k, l
  <2>3. FineName(other)
    <3> DEFINE l == <<97, 97>>
               s == <<l>>
               E == Seq(Nat)
    <3>1. l \in E /\ Len(l) \in 1..191
      OBVIOUS
    <3> HIDE DEF l, E
    <3>2. s \in Seq(E) /\ Len(s) = 1 /\ s[1] = l
      BY <3>1
    <3> HIDE DEF s
    <3>3. FineName(s)
      BY <3>1, <3>2 DEF FineName, E
    <3> QED BY <3>3 DEF s, l
  <2>4. FineName(<<>>)
    <3>1. <<>> \in Seq(Seq(Nat)) /\ Len(<<>>) = 0 /\ 1..0 = {}
      OBVIOUS
    <3> QED BY <3>1, Zenon DEF FineName
  <2> QED BY <2>2, <2>3, <2>4
<1>2. FineEnd(e) /\ FineEnd(c) /\ FineEnd(D!End) /\ e \in Seq(Nat) /\ c \in Seq(Nat) /\ D!End \in Seq(Nat)
  <2>1. e = <<192, 12>> /\ c = <<192, 14>>
    BY DEF D!PointerTo, D!HeaderSize
  <2> HIDE DEF e, c
  <2>2. ASSUME NEW p, NEW n \in Nat, p = <<192, n>> PROVE p \in Seq(Nat) /\ Len(p) = 2 /\ p[1] = 192
    BY <2>2
  <2>3. FineEnd(e) /\ FineEnd(c) /\ e \in Seq(Nat) /\ c \in Seq(Nat)
    BY <2>1, <2>2 DEF FineEnd
  <2>4. D!End \in Seq(Nat) /\ FineEnd(D!End)
    BY DEF D!End, FineEnd
  <2> QED BY <2>3, <2>4
<1>3. D!Wire(<<>>, e) = e
  <2> HIDE DEF e
  <2>1. PICK f : Grown(f, Lengthened(<<>>), Nat) /\ D!Wire(<<>>, e) = f[Len(<<>>)] \o e
    BY <1>1, <1>2, WireIs
  <2>2. f[0] = <<>> /\ Len(<<>>) = 0
    BY <2>1 DEF Grown
  <2>3. <<>> \o e = e
    BY <1>2
  <2> QED BY <2>1, <2>2, <2>3
<1>4. ASSUME NEW name \in AnswerNames
      PROVE  \E labels, end : FineName(labels) /\ FineEnd(end) /\ name = D!Wire(labels, end)
  <2>1. name = D!Wire(Host, D!End) \/ name = e \/ name = D!Wire(other, c)
    BY Zenon DEF AnswerNames
  <2> HIDE DEF e, c, other
  <2> QED BY <1>1, <1>2, <1>3, <2>1, Zenon
<1>5. D!Wire(Host, D!End) \in Seq(Nat)
  BY <1>1, <1>2, WireIs
<1> HIDE DEF e, c, other
<1>6. ASSUME NEW a \in Answers PROVE FineAnswer(a)
  <2>1. a.name \in AnswerNames
    BY DEF Answers
  <2>2. /\ a.type \in {1, 5} /\ a.class \in {1, 3}
        /\ a.data \in {<<10, 0, 0, 1>>, <<0, 192, 1, 0>>, D!Wire(Host, D!End), <<0>>, <<0, 0, 7, 9>>}
        /\ a.type = 1 /\ a.class = 1 => a.data \in {<<10, 0, 0, 1>>, <<0, 192, 1, 0>>}
    BY DEF Answers, D!DNS_TYPE_A, D!DNS_CLASS_IN
  <2>3. a.type \in Nat /\ a.class \in Nat
    BY <2>2
  <2>4. a.data \in Seq(Nat)
    <3>1. <<10, 0, 0, 1>> \in Seq(Nat) /\ <<0, 192, 1, 0>> \in Seq(Nat) /\ <<0>> \in Seq(Nat)
          /\ <<0, 0, 7, 9>> \in Seq(Nat)
      OBVIOUS
    <3> QED BY <1>5, <2>2, <3>1, Zenon
  <2>5. a.type = D!DNS_TYPE_A /\ a.class = D!DNS_CLASS_IN => Len(a.data) = 4
    <3>1. Len(<<10, 0, 0, 1>>) = 4 /\ Len(<<0, 192, 1, 0>>) = 4
      OBVIOUS
    <3> QED BY <2>2, <3>1, Zenon DEF D!DNS_TYPE_A, D!DNS_CLASS_IN
  <2>6. \E labels, end : FineName(labels) /\ FineEnd(end) /\ a.name = D!Wire(labels, end)
    BY <1>4, <2>1
  <2> QED BY <2>3, <2>4, <2>5, <2>6, Zenon DEF FineAnswer
<1> QED BY <1>1, <1>6

\* However many answers, in whatever order: the addresses that a reply holds are
\* found, each once and in their order, and names that end in a pointer, and
\* records of other types and classes, are passed as a whole.
THEOREM AddressesFoundCorrect == AlgorithmSpec => []AddressesFound
<1>1. ASSUME Computed, Done("reply") PROVE AddressesFound
  <2> DEFINE answers == input.answers
  <2>1. Result = D!ReadReply(D!Reply(Host, Records(answers)), Len(answers))
    BY <1>1 DEF Computed, Gives, Done, Result
  <2>2. answers \in Sequences(Answers, MaxAnswers)
    BY <1>1, Kinds DEF Done, Replies
  <2> HIDE DEF answers
  <2>3. answers \in Seq(Answers)
    <3>1. PICK k \in 0..MaxAnswers : answers \in [1..k -> Answers]
      BY <2>2 DEF Sequences
    <3>2. k \in Nat
      OBVIOUS
    <3> QED BY <3>1, <3>2
  <2>4. Result = FlattenSeq([i \in DOMAIN answers |-> HeldBy(answers[i])])
    BY <2>1, <2>3, AnswersFine, ReplyIs
  <2> QED BY <2>4, Zenon DEF AddressesFound, answers, HeldBy, Holds
<1>2. Computed => AddressesFound
  BY <1>1 DEF AddressesFound
<1> QED BY <1>2, ComputedAlways, PTL
=============================================================================
