----------------------------- MODULE TotalsProofs -----------------------------
(***************************************************************************)
(* Proofs about what is added up: sums over finite sets, the statistics of *)
(* a user (Behavior) and the series of /metrics (Metrics).                 *)
(***************************************************************************)
EXTENDS Behavior, Metrics, MonitorProofs, FiniteSetTheorems, TLAPS

-----------------------------------------------------------------------------
\* Sums over finite sets.  The induction is over a set: of the sets for which a
\* statement fails, one is minimal.
LEMMA MinimalSet ==
  ASSUME NEW S, IsFiniteSet(S), NEW P, P \subseteq SUBSET S, P # {}
  PROVE  \E U \in P : \A V \in P : V \subseteq U => V = U
<1>1. \A U \in P : IsFiniteSet(U)
  BY FS_Subset
<1>2. P \subseteq FiniteSubsetsOf(S)
  BY <1>1 DEF FiniteSubsetsOf
<1>3. PICK U \in P : \A V \in P : <<V, U>> \notin StrictSubsetOrdering(S)
  BY <1>2, FS_StrictSubsetOrderingWellFounded, WFMin
<1>4. ASSUME NEW V \in P, V \subseteq U, V # U
      PROVE  FALSE
  <2>1. <<V, U>> \in StrictSubsetOrdering(S)
    BY <1>4 DEF StrictSubsetOrdering
  <2> QED BY <1>3, <2>1
<1> QED BY <1>4

\* An element of each set, the one a fold takes first.
Pick(s) == CHOOSE x \in s : TRUE

\* g gives the sum of f over each subset of S.
Sums(g, f, S) ==
  g = [s \in SUBSET S |-> IF s = {} THEN 0 ELSE f[Pick(s)] + g[s \ {Pick(s)}]]

\* So it does for the sets of at most n elements.
SumsUpTo(n, f, S) ==
  LET D == {s \in SUBSET S : Cardinality(s) <= n}
  IN  \E g : g = [s \in D |-> IF s = {} THEN 0
                              ELSE f[Pick(s)] + g[s \ {Pick(s)}]]

LEMMA SumsStep ==
  ASSUME NEW S, IsFiniteSet(S), NEW f, NEW n \in Nat, SumsUpTo(n, f, S)
  PROVE  SumsUpTo(n + 1, f, S)
<1> DEFINE D(m) == {s \in SUBSET S : Cardinality(s) <= m}
<1>1. PICK g : g = [s \in D(n) |-> IF s = {} THEN 0
                                   ELSE f[Pick(s)] + g[s \ {Pick(s)}]]
  BY DEF SumsUpTo
<1> DEFINE h == [s \in D(n + 1) |-> IF s = {} THEN 0
                                    ELSE f[Pick(s)] + g[s \ {Pick(s)}]]
<1>2. ASSUME NEW s \in D(n)
      PROVE  s \in D(n + 1) /\ h[s] = g[s]
  <2>1. Cardinality(s) \in Nat
    BY FS_Subset, FS_CardinalityType
  <2>2. s \in D(n + 1)
    BY <2>1
  <2> QED BY <1>1, <2>2
<1>3. ASSUME NEW s \in D(n + 1), s # {}
      PROVE  s \ {Pick(s)} \in D(n)
  <2>1. Pick(s) \in s
    BY <1>3 DEF Pick
  <2>2. IsFiniteSet(s) /\ Cardinality(s) \in Nat
    BY FS_Subset, FS_CardinalityType
  <2>3. Cardinality(s \ {Pick(s)}) = Cardinality(s) - 1
    BY <2>1, <2>2, FS_RemoveElement
  <2> QED BY <2>2, <2>3
<1>4. ASSUME NEW s \in D(n + 1), s # {}
      PROVE  h[s \ {Pick(s)}] = g[s \ {Pick(s)}]
  BY <1>2, <1>3, <1>4
<1>5. h = [s \in D(n + 1) |-> IF s = {} THEN 0
                              ELSE f[Pick(s)] + h[s \ {Pick(s)}]]
  BY <1>4
<1> HIDE DEF h
<1> QED BY <1>5 DEF SumsUpTo

LEMMA SumsExist ==
  ASSUME NEW S, IsFiniteSet(S), NEW f
  PROVE  \E g : Sums(g, f, S)
<1> DEFINE N == Cardinality(S)
           P == {1 .. n : n \in {k \in 0 .. N : ~SumsUpTo(k, f, S)}}
<1>1. N \in Nat /\ IsFiniteSet(1 .. N)
  BY FS_CardinalityType, FS_Interval
<1>2. SumsUpTo(0, f, S)
  <2> DEFINE D == {s \in SUBSET S : Cardinality(s) <= 0}
             g == [s \in D |-> 0]
  <2>1. ASSUME NEW s \in D PROVE s = {}
    BY FS_Subset, FS_CardinalityType, FS_EmptySet
  <2>2. g = [s \in D |-> IF s = {} THEN 0 ELSE f[Pick(s)] + g[s \ {Pick(s)}]]
    BY <2>1
  <2> HIDE DEF g
  <2> QED BY <2>2 DEF SumsUpTo
<1>3. ASSUME P # {} PROVE FALSE
  <2>1. P \subseteq SUBSET (1 .. N)
    BY <1>1
  <2>2. PICK U \in P : \A V \in P : V \subseteq U => V = U
    <3> DEFINE I == 1 .. N
    <3>1. IsFiniteSet(I) /\ P \subseteq SUBSET I /\ P # {}
      BY <1>1, <1>3, <2>1
    <3> HIDE DEF P, I
    <3> QED BY <3>1, MinimalSet
  <2>3. PICK n \in 0 .. N : U = 1 .. n /\ ~SumsUpTo(n, f, S)
    OBVIOUS
  <2>4. n # 0 /\ n - 1 \in 0 .. N /\ n - 1 \in Nat
    BY <1>1, <1>2, <2>3
  <2>5. ~SumsUpTo(n - 1, f, S)
    BY <2>3, <2>4, SumsStep
  <2>6. 1 .. (n - 1) \in P
    BY <2>4, <2>5
  <2>7. n \in U /\ n \notin 1 .. (n - 1) /\ 1 .. (n - 1) \subseteq U
    BY <1>1, <2>3, <2>4
  <2> QED BY <2>2, <2>6, <2>7
<1>4. SumsUpTo(N, f, S)
  BY <1>1, <1>3
<1>5. SUBSET S = {s \in SUBSET S : Cardinality(s) <= N}
  BY FS_Subset
<1> QED BY <1>4, <1>5 DEF SumsUpTo, Sums

LEMMA SumsRule ==
  ASSUME NEW S, NEW f, NEW g, Sums(g, f, S)
  PROVE  /\ g[{}] = 0
         /\ \A s \in SUBSET S : s # {} =>
              /\ Pick(s) \in s
              /\ s \ {Pick(s)} \in SUBSET S
              /\ g[s] = f[Pick(s)] + g[s \ {Pick(s)}]
  BY DEF Sums, Pick

\* A sum is at most the number of its terms times a bound of them.
LEMMA SumsBound ==
  ASSUME NEW S, IsFiniteSet(S), NEW f, NEW g, Sums(g, f, S),
         NEW b \in Nat, \A x \in S : f[x] \in 0 .. b
  PROVE  g[S] \in 0 .. b * Cardinality(S)
<1> DEFINE P == {s \in SUBSET S : g[s] \notin 0 .. b * Cardinality(s)}
<1>1. ASSUME P # {} PROVE FALSE
  <2>1. PICK U \in P : \A V \in P : V \subseteq U => V = U
    <3>1. P \subseteq SUBSET S
      OBVIOUS
    <3> HIDE DEF P
    <3> QED BY <1>1, <3>1, MinimalSet
  <2>2. U # {}
    <3>1. {} \in SUBSET S /\ g[{}] = 0 /\ Cardinality({}) = 0 /\ b * 0 = 0
      BY SumsRule, FS_EmptySet
    <3> QED BY <3>1
  <2> DEFINE x == Pick(U)
             V == U \ {x}
  <2>3. x \in U /\ V \in SUBSET S /\ g[U] = f[x] + g[V]
    BY <2>2, SumsRule
  <2>4. V \notin P
    BY <2>1, <2>3
  <2>5. IsFiniteSet(U) /\ Cardinality(U) \in Nat /\ Cardinality(V) \in Nat
        /\ Cardinality(V) = Cardinality(U) - 1
    BY <2>3, FS_Subset, FS_CardinalityType, FS_RemoveElement
  <2>6. g[V] \in 0 .. b * Cardinality(V) /\ f[x] \in 0 .. b
    BY <2>3, <2>4
  <2>7. /\ b * Cardinality(V) \in Nat
        /\ b * Cardinality(U) = b * Cardinality(V) + b
    BY <2>5
  <2>8. g[U] \in 0 .. b * Cardinality(U)
    BY <2>3, <2>6, <2>7
  <2> QED BY <2>8
<1> QED BY <1>1

\* A sum of integers changes by as much as its one term that does.
LEMMA SumsUpdate ==
  ASSUME NEW S, IsFiniteSet(S), NEW f, NEW g, NEW h, NEW k,
         Sums(g, f, S), Sums(h, k, S),
         \A y \in S : f[y] \in Int /\ k[y] \in Int,
         NEW x, \A y \in S \ {x} : f[y] = k[y]
  PROVE  g[S] \in Int /\ h[S] = g[S] + IF x \in S THEN k[x] - f[x] ELSE 0
<1> DEFINE Goal(s) == /\ g[s] \in Int
                      /\ h[s] = g[s] + IF x \in s THEN k[x] - f[x] ELSE 0
           P == {s \in SUBSET S : ~Goal(s)}
<1>1. ASSUME P # {} PROVE FALSE
  <2>1. PICK U \in P : \A V \in P : V \subseteq U => V = U
    <3>1. P \subseteq SUBSET S
      OBVIOUS
    <3> HIDE DEF P
    <3> QED BY <1>1, <3>1, MinimalSet
  <2>2. U # {}
    <3>1. g[{}] = 0 /\ h[{}] = 0
      BY SumsRule
    <3>2. Goal({})
      BY <3>1
    <3> QED BY <3>2
  <2> DEFINE y == Pick(U)
             V == U \ {y}
  <2>3. /\ y \in U /\ y \in S /\ V \in SUBSET S
        /\ g[U] = f[y] + g[V] /\ h[U] = k[y] + h[V]
    BY <2>2, SumsRule
  <2>4. Goal(V)
    BY <2>1, <2>3
  <2>5. f[y] \in Int /\ k[y] \in Int /\ g[V] \in Int
    BY <2>3, <2>4
  <2>6. CASE x = y
    BY <2>3, <2>4, <2>5, <2>6
  <2>7. CASE x # y
    <3>1. f[y] = k[y] /\ (x \in U <=> x \in V)
      BY <2>3, <2>7
    <3>2. x \in S => k[x] \in Int /\ f[x] \in Int
      OBVIOUS
    <3> QED BY <2>3, <2>4, <2>5, <3>1, <3>2
  <2> QED BY <2>6, <2>7
<1> QED BY <1>1

\* Sums as the community modules write them.
SumOver(f, S) == MapThenSumSet(LAMBDA x : f[x], S)

\* The community module's sum is one.
LEMMA SumOverSums ==
  ASSUME NEW S, IsFiniteSet(S), NEW f
  PROVE  \E g : Sums(g, f, S) /\ SumOver(f, S) = g[S]
<1> DEFINE Rule(g) == g = [s \in SUBSET S |->
                             IF s = {} THEN 0
                             ELSE f[CHOOSE x \in s : TRUE]
                                    + g[s \ {CHOOSE x \in s : TRUE}]]
           G == CHOOSE g : Rule(g)
<1>1. SumOver(f, S) = G[S]
  BY Zenon DEF SumOver, MapThenSumSet, MapThenFoldSet
<1>2. ASSUME NEW g
      PROVE  Rule(g) <=> Sums(g, f, S)
  BY DEF Sums, Pick
<1>3. \E g : Sums(g, f, S)
  BY SumsExist
<1>4. Rule(G)
  <2> HIDE DEF Rule
  <2>1. \E g : Rule(g)
    BY <1>2, <1>3
  <2> QED BY <2>1
<1>5. Sums(G, f, S)
  BY <1>2, <1>4
<1> HIDE DEF G
<1> QED BY <1>1, <1>5

\* A sum changes with the one term that does.
LEMMA SumOverUpdate ==
  ASSUME NEW S, IsFiniteSet(S), NEW f, NEW k,
         \A y \in S : f[y] \in Int /\ k[y] \in Int,
         NEW x \in S, \A y \in S \ {x} : f[y] = k[y]
  PROVE  SumOver(k, S) = SumOver(f, S) + (k[x] - f[x])
<1>1. PICK g : Sums(g, f, S) /\ SumOver(f, S) = g[S]
  BY SumOverSums
<1>2. PICK h : Sums(h, k, S) /\ SumOver(k, S) = h[S]
  BY SumOverSums
<1>3. h[S] = g[S] + IF x \in S THEN k[x] - f[x] ELSE 0
  BY <1>1, <1>2, SumsUpdate
<1> QED BY <1>1, <1>2, <1>3

\* A sum does not depend on the order in which its terms are taken: an element
\* that joins the set adds its term.
LEMMA SumsAdd ==
  ASSUME NEW S, IsFiniteSet(S), NEW f, NEW g, Sums(g, f, S),
         \A y \in S : f[y] \in Int,
         NEW t \in SUBSET S, NEW u \in S \ t
  PROVE  g[t \cup {u}] = g[t] + f[u]
<1> DEFINE Goal(s) == /\ g[s] \in Int
                      /\ \A x \in S \ s : g[s \cup {x}] = g[s] + f[x]
           P == {s \in SUBSET S : ~Goal(s)}
<1>0. \A s \in SUBSET S : s # {} =>
        Pick(s) \in s /\ g[s] = f[Pick(s)] + g[s \ {Pick(s)}]
  BY DEF Sums, Pick
<1>1. ASSUME P # {} PROVE FALSE
  <2>1. PICK U \in P : \A V \in P : V \subseteq U => V = U
    <3>1. P \subseteq SUBSET S
      OBVIOUS
    <3> HIDE DEF P
    <3> QED BY <1>1, <3>1, MinimalSet
  <2>2. U \in SUBSET S /\ ~Goal(U) /\ \A V \in SUBSET U : V # U => Goal(V)
    BY <2>1
  <2> HIDE DEF P
  <2>3. g[U] \in Int
    <3>1. CASE U = {}
      BY <3>1, SumsRule
    <3>2. CASE U # {}
      <4>1. /\ Pick(U) \in U /\ Pick(U) \in S
            /\ g[U] = f[Pick(U)] + g[U \ {Pick(U)}]
        BY <1>0, <2>2, <3>2
      <4>2. g[U \ {Pick(U)}] \in Int
        BY <2>2, <4>1
      <4> QED BY <4>1, <4>2
    <3> QED BY <3>1, <3>2
  <2>4. ASSUME NEW x \in S \ U
        PROVE  g[U \cup {x}] = g[U] + f[x]
    <3> DEFINE W == U \cup {x}
               y == Pick(W)
               V == U \ {y}
    <3>1. W \in SUBSET S /\ W # {}
      BY <2>2
    <3> HIDE DEF W
    <3>2. y \in W /\ y \in S /\ g[W] = f[y] + g[W \ {y}]
      BY <1>0, <3>1
    <3> HIDE DEF y
    <3>3. CASE y = x
      <4>1. W \ {y} = U
        BY <3>3 DEF W
      <4>2. g[W] = f[x] + g[U] /\ f[x] \in Int
        BY <3>2, <3>3, <4>1
      <4> QED BY <2>3, <4>2 DEF W
    <3>4. CASE y # x
      <4>1. /\ y \in U /\ W \ {y} = V \cup {x} /\ V \cup {y} = U
            /\ V \in SUBSET U /\ V # U /\ x \in S \ V /\ y \in S \ V
        BY <3>2, <3>4 DEF W
      <4>2. Goal(V)
        BY <2>2, <4>1
      <4>3. /\ g[V] \in Int /\ f[x] \in Int /\ f[y] \in Int
            /\ g[W \ {y}] = g[V] + f[x] /\ g[U] = g[V] + f[y]
        BY <3>2, <4>1, <4>2
      <4> QED BY <3>2, <4>3 DEF W
    <3> QED BY <3>3, <3>4
  <2> QED BY <2>2, <2>3, <2>4
<1> QED BY <1>1

\* The sum over a set does not depend on the set it is seen in.
LEMMA SumsAgree ==
  ASSUME NEW S, IsFiniteSet(S), NEW T, S \subseteq T, NEW f,
         NEW g, NEW h, Sums(g, f, S), Sums(h, f, T)
  PROVE  g[S] = h[S]
<1> DEFINE P == {s \in SUBSET S : g[s] # h[s]}
<1>1. ASSUME P # {} PROVE FALSE
  <2>1. PICK U \in P : \A V \in P : V \subseteq U => V = U
    <3>1. P \subseteq SUBSET S
      OBVIOUS
    <3> HIDE DEF P
    <3> QED BY <1>1, <3>1, MinimalSet
  <2>2. U \in SUBSET S /\ U \in SUBSET T /\ g[U] # h[U]
    BY <2>1
  <2>3. U # {}
    <3>1. g[{}] = 0 /\ h[{}] = 0
      BY SumsRule
    <3> QED BY <2>2, <3>1
  <2>4. /\ Pick(U) \in U /\ U \ {Pick(U)} \in SUBSET S
        /\ g[U] = f[Pick(U)] + g[U \ {Pick(U)}]
        /\ h[U] = f[Pick(U)] + h[U \ {Pick(U)}]
    BY <2>2, <2>3, SumsRule
  <2>5. g[U \ {Pick(U)}] = h[U \ {Pick(U)}]
    BY <2>1, <2>4
  <2> QED BY <2>2, <2>4, <2>5
<1> QED BY <1>1

LEMMA SumOverEmpty ==
  ASSUME NEW f
  PROVE  SumOver(f, {}) = 0
  BY FS_EmptySet, SumOverSums, SumsRule

\* An element that joins the set adds its term to the sum.
Joins(x, S, T) == x \notin S /\ T = S \cup {x}

LEMMA SumOverAdd ==
  ASSUME NEW S, IsFiniteSet(S), NEW x, NEW T, Joins(x, S, T),
         NEW f, \A y \in T : f[y] \in Int
  PROVE  IsFiniteSet(T) /\ SumOver(f, T) = SumOver(f, S) + f[x]
<1>1. T = S \cup {x} /\ IsFiniteSet(S \cup {x})
  BY FS_AddElement DEF Joins
<1>2. IsFiniteSet(T)
  BY <1>1
<1>3. S \in SUBSET T /\ S \subseteq T /\ x \in T \ S
  BY DEF Joins
<1>4. PICK g : Sums(g, f, S) /\ SumOver(f, S) = g[S]
  BY SumOverSums
<1>5. PICK h : Sums(h, f, T) /\ SumOver(f, T) = h[T]
  BY <1>2, SumOverSums
<1>6. h[S \cup {x}] = h[S] + f[x]
  BY <1>2, <1>3, <1>5, SumsAdd
<1>7. h[T] = h[S] + f[x]
  BY <1>1, <1>6, Zenon
<1>8. g[S] = h[S]
  BY <1>3, <1>4, <1>5, SumsAgree
<1> QED BY <1>2, <1>4, <1>5, <1>7, <1>8

One(p) == IF p THEN 1 ELSE 0

\* The size of a set changes with the one element that enters or leaves it.
LEMMA CardinalityUpdate ==
  ASSUME NEW S, IsFiniteSet(S), NEW A, A \subseteq S, NEW B, B \subseteq S,
         NEW x \in S, A \ {x} = B \ {x}
  PROVE  /\ Cardinality(A) \in Nat /\ Cardinality(B) \in Nat
         /\ Cardinality(B) = Cardinality(A) + (IF x \in B THEN 1 ELSE 0)
                             - (IF x \in A THEN 1 ELSE 0)
<1>1. IsFiniteSet(A) /\ IsFiniteSet(B)
  BY FS_Subset
<1>2. Cardinality(A) \in Nat /\ Cardinality(B) \in Nat
  BY <1>1, FS_CardinalityType
<1>3. \A C \in {A, B} :
        Cardinality(C \ {x}) = Cardinality(C) - IF x \in C THEN 1 ELSE 0
  <2> SUFFICES ASSUME NEW C \in {A, B}
               PROVE  Cardinality(C \ {x}) =
                        Cardinality(C) - IF x \in C THEN 1 ELSE 0
    OBVIOUS
  <2>1. IsFiniteSet(C) /\ Cardinality(C) \in Nat
    BY <1>1, <1>2
  <2>2. CASE x \in C
    BY <2>1, <2>2, FS_RemoveElement
  <2>3. CASE x \notin C
    <3>1. C \ {x} = C
      BY <2>3
    <3>2. Cardinality(C \ {x}) = Cardinality(C)
      BY <3>1
    <3> QED BY <2>1, <2>3, <3>2
  <2> QED BY <2>2, <2>3
<1>4. Cardinality(A \ {x}) = Cardinality(B \ {x})
  OBVIOUS
<1> QED BY <1>2, <1>3, <1>4

-----------------------------------------------------------------------------
\* The statistics of a user.
LEMMA SizesNat == \A n \in Sizes \cup {0} : n \in Nat
<1>1. Sizes \subseteq Nat
  BY BehaviorAssumption DEF BehaviorAssumption
<1> QED BY <1>1

LEMMA BehaviorTypeInit == BehaviorInit => BehaviorTypeOK
<1> SUFFICES ASSUME BehaviorInit PROVE BehaviorTypeOK
  OBVIOUS
<1> USE BehaviorAssumption DEF BehaviorAssumption
<1>1. now \in 1 .. MaxTime /\ 0 \in 0 .. NoTTL
  BY DEF BehaviorInit, NoTTL
<1>2. NoLocals \in [at : 0 .. MaxTime, bytes : Sizes \cup {0},
                    tries : 0 .. MaxRetries]
  BY DEF NoLocals
<1>3. /\ until \in [Keys -> 0 .. NoTTL]
      /\ local \in [Callers -> [at : 0 .. MaxTime, bytes : Sizes \cup {0},
                                tries : 0 .. MaxRetries]]
      /\ begun \in Seq(Records) /\ acked \in Seq(Records)
  BY <1>1, <1>2 DEF BehaviorInit
<1> QED BY <1>1, <1>3 DEF BehaviorInit, BehaviorTypeOK

\* A pipeline of a caller records something.
Pending == \A c \in Callers : cmd[c] # "none" => Member(c) \in Records

LEMMA BehaviorTypeNext ==
  BehaviorTypeOK /\ Pending /\ [BehaviorNext]_bvars => BehaviorTypeOK' /\ Pending'
<1> SUFFICES ASSUME BehaviorTypeOK, Pending, [BehaviorNext]_bvars
             PROVE  BehaviorTypeOK' /\ Pending'
  OBVIOUS
<1> USE BehaviorAssumption DEF BehaviorAssumption
<1>1. /\ NoTTL \in Nat /\ TTL \in Nat /\ MaxTime \in Nat
      /\ NoTTL >= MaxTime + TTL
  BY DEF NoTTL, TTL
<1>2. ASSUME NEW k \in Keys, Made(k)
      PROVE  until' \in [Keys -> 0 .. NoTTL]
  BY <1>1, <1>2 DEF Made, BehaviorTypeOK
<1>3. ASSUME NEW k \in Keys, Renewed(k)
      PROVE  until' \in [Keys -> 0 .. NoTTL]
  <2>1. now + TTL \in 0 .. NoTTL
    BY <1>1 DEF BehaviorTypeOK
  <2> QED BY <1>3, <2>1 DEF Renewed, BehaviorTypeOK
<1>4. CASE Tick
  BY <1>4 DEF Tick, BehaviorTypeOK, Pending, Member
<1>5. ASSUME NEW c \in Callers, NEW bytes \in Sizes, BeginRecord(c, bytes)
      PROVE  BehaviorTypeOK' /\ Pending'
  <2>1. [at |-> now, bytes |-> bytes] \in Records
    BY DEF Records, BehaviorTypeOK
  <2>2. begun' \in Seq(Records)
    BY <1>5, <2>1 DEF BeginRecord, BehaviorTypeOK
  <2>3. /\ cmd' = [cmd EXCEPT ![c] = "zadd"]
        /\ local' = [local EXCEPT ![c] = [at |-> now, bytes |-> bytes,
                                          tries |-> 0]]
    BY <1>5 DEF BeginRecord, Goes
  <2>4. BehaviorTypeOK'
    BY <1>5, <2>2, <2>3 DEF BeginRecord, BehaviorTypeOK
  <2> QED BY <2>1, <2>3, <2>4 DEF BehaviorTypeOK, Pending, Member
<1>6. ASSUME NEW c \in Callers, ZAdd(c)
      PROVE  BehaviorTypeOK' /\ Pending'
  <2>1. entries' \subseteq Records
    BY <1>6 DEF ZAdd, Goes, Pending, BehaviorTypeOK
  <2>2. until' \in [Keys -> 0 .. NoTTL]
    BY <1>2, <1>6 DEF ZAdd, Keys
  <2> QED
    BY <1>6, <2>1, <2>2 DEF ZAdd, Goes, BehaviorTypeOK, Pending, Member
<1>7. ASSUME NEW c \in Callers, TrimAge(c) \/ TrimRank(c)
      PROVE  BehaviorTypeOK' /\ Pending'
  <2>1. entries' \subseteq entries
    BY <1>7 DEF TrimAge, TrimRank, Trimmed, Newest
  <2> QED
    BY <1>7, <2>1
    DEF TrimAge, TrimRank, Goes, BehaviorTypeOK, Pending, Member
<1>8. ASSUME NEW c \in Callers, IncrSum(c)
      PROVE  BehaviorTypeOK' /\ Pending'
  <2>1. local[c].bytes \in Nat
    <3>1. local[c].bytes \in Sizes \cup {0}
      BY DEF BehaviorTypeOK
    <3> QED BY <3>1, SizesNat
  <2>2. until' \in [Keys -> 0 .. NoTTL]
    BY <1>2, <1>8 DEF IncrSum, Keys
  <2> QED
    BY <1>8, <2>1, <2>2 DEF IncrSum, Goes, BehaviorTypeOK, Pending, Member
<1>9. ASSUME NEW c \in Callers, IncrCount(c)
      PROVE  BehaviorTypeOK' /\ Pending'
  <2>1. until' \in [Keys -> 0 .. NoTTL]
    BY <1>2, <1>9 DEF IncrCount, Keys
  <2> QED
    BY <1>9, <2>1 DEF IncrCount, Goes, BehaviorTypeOK, Pending, Member
<1>10. ASSUME NEW c \in Callers, Expire(c)
       PROVE  BehaviorTypeOK' /\ Pending'
  <2>1. PICK k \in Keys :
          \E from \in {"expireBytes", "expireSum", "expireCount"},
             to \in {"expireSum", "expireCount", "reply"} :
            ExpireKey(c, k, from, to)
    BY <1>10 DEF Expire, Keys
  <2>2. until' \in [Keys -> 0 .. NoTTL]
    BY <1>3, <2>1 DEF ExpireKey
  <2> QED
    BY <2>1, <2>2 DEF ExpireKey, Goes, BehaviorTypeOK, Pending, Member
<1>11. ASSUME NEW c \in Callers, Reply(c)
       PROVE  BehaviorTypeOK' /\ Pending'
  <2>1. acked' \in Seq(Records)
    BY <1>11 DEF Reply, Goes, BehaviorTypeOK, Pending
  <2> QED
    BY <1>11, <2>1
    DEF Reply, Goes, BehaviorTypeOK, Pending, Member, NoLocals
<1>12. ASSUME NEW c \in Callers, Resend(c)
       PROVE  BehaviorTypeOK' /\ Pending'
  <2>1. local[c].tries + 1 \in 0 .. MaxRetries
    BY <1>12 DEF Resend, BehaviorTypeOK
  <2>2. local' \in [Callers -> [at : 0 .. MaxTime, bytes : Sizes \cup {0},
                                tries : 0 .. MaxRetries]]
    BY <1>12, <2>1 DEF Resend, BehaviorTypeOK
  <2>3. \A d \in Callers : Member(d)' = Member(d)
    BY <1>12 DEF Resend, BehaviorTypeOK, Member
  <2> QED
    BY <1>12, <2>2, <2>3 DEF Resend, BehaviorTypeOK, Pending
<1>13. ASSUME NEW c \in Callers, RecordFails(c)
       PROVE  BehaviorTypeOK' /\ Pending'
  BY <1>13 DEF RecordFails, BehaviorTypeOK, Pending, Member, NoLocals
<1>14. CASE UNCHANGED bvars
  BY <1>14 DEF bvars, BehaviorTypeOK, Pending, Member
<1> QED
  BY <1>4, <1>5, <1>6, <1>7, <1>8, <1>9, <1>10, <1>11, <1>12, <1>13, <1>14
  DEF BehaviorNext, PipelineStep, Over

LEMMA ToSetFinite ==
  ASSUME NEW S, NEW q \in Seq(S)
  PROVE  IsFiniteSet(ToSet(q))
<1>1. q \in [1 .. Len(q) -> ToSet(q)]
  BY DEF ToSet
<1>2. q \in Surjection(1 .. Len(q), ToSet(q))
  BY <1>1 DEF Surjection, ToSet
<1>3. IsFiniteSet(1 .. Len(q))
  BY FS_Interval
<1> QED BY <1>2, <1>3, FS_Surjection

LEMMA ToSetIn ==
  ASSUME NEW S, NEW q \in Seq(S)
  PROVE  ToSet(q) \subseteq S
  BY DEF ToSet

LEMMA RecordFields == \A r \in Records : r.at \in Nat /\ r.bytes \in Sizes
  BY DEF Records

LEMMA ToSetAppend ==
  ASSUME NEW S, NEW q \in Seq(S), NEW x \in S
  PROVE  ToSet(Append(q, x)) = ToSet(q) \cup {x}
<1>1. /\ DOMAIN q = 1 .. Len(q) /\ Len(q) \in Nat
      /\ DOMAIN Append(q, x) = 1 .. Len(q) + 1
      /\ \A i \in 1 .. Len(q) : Append(q, x)[i] = q[i]
      /\ Append(q, x)[Len(q) + 1] = x
  OBVIOUS
<1> QED BY <1>1 DEF ToSet

\* Everything in the set, and everything a pipeline or an acknowledgement is
\* about, was recorded, and not in the future.
RecordsInv ==
  /\ BehaviorTypeOK
  /\ Pending
  /\ IsFiniteSet(entries)
  /\ entries \subseteq ToSet(begun)
  /\ \A c \in Callers : cmd[c] # "none" => Member(c) \in ToSet(begun)
  /\ ToSet(acked) \subseteq ToSet(begun)
  /\ \A r \in ToSet(begun) : r.at <= now

\* What every step does to the records and to the clock.
LEMMA RecordsGrow ==
  ASSUME RecordsInv, [BehaviorNext]_bvars
  PROVE  /\ ToSet(begun) \subseteq ToSet(begun')
         /\ now <= now'
<1>1. /\ begun \in Seq(Records) /\ now \in 1 .. MaxTime /\ MaxTime \in Nat
  BY BehaviorAssumption DEF RecordsInv, BehaviorTypeOK, BehaviorAssumption
<1>2. ASSUME NEW c \in Callers, NEW bytes \in Sizes, BeginRecord(c, bytes)
      PROVE  ToSet(begun) \subseteq ToSet(begun') /\ now <= now'
  <2>1. [at |-> now, bytes |-> bytes] \in Records
    BY <1>1 DEF Records
  <2> QED BY <1>1, <1>2, <2>1, ToSetAppend DEF BeginRecord
<1> QED
  BY <1>1, <1>2
  DEF BehaviorNext, PipelineStep, Over, Tick, ZAdd, TrimAge, TrimRank, IncrSum,
      IncrCount, Expire, ExpireKey, Reply, Resend, RecordFails, bvars

LEMMA RecordsInit == BehaviorInit => RecordsInv
<1> SUFFICES ASSUME BehaviorInit PROVE RecordsInv
  OBVIOUS
<1>1. ToSet(begun) = {} /\ ToSet(acked) = {}
  BY DEF BehaviorInit, ToSet
<1> QED
  BY <1>1, BehaviorTypeInit, FS_EmptySet DEF BehaviorInit, RecordsInv, Pending

LEMMA RecordsNext == RecordsInv /\ [BehaviorNext]_bvars => RecordsInv'
<1> SUFFICES ASSUME RecordsInv, [BehaviorNext]_bvars PROVE RecordsInv'
  OBVIOUS
<1>1. BehaviorTypeOK' /\ Pending' /\ BehaviorTypeOK
  BY BehaviorTypeNext DEF RecordsInv
<1>2. ToSet(begun) \subseteq ToSet(begun') /\ now <= now'
      /\ now \in Nat /\ now' \in Nat
  BY <1>1, RecordsGrow DEF BehaviorTypeOK
<1>3. CASE Tick
  <2>1. /\ entries' \subseteq entries
        /\ UNCHANGED <<cmd, local, begun, acked>>
    BY <1>3 DEF Tick
  <2>2. \A r \in ToSet(begun) : r.at <= now'
    <3>1. \A r \in ToSet(begun) : r.at \in Nat
      BY <1>1, ToSetIn, RecordFields DEF BehaviorTypeOK
    <3> QED BY <1>2, <3>1 DEF RecordsInv
  <2> QED BY <1>1, <2>1, <2>2, FS_Subset DEF RecordsInv, Member
<1>4. ASSUME NEW c \in Callers, NEW bytes \in Sizes, BeginRecord(c, bytes)
      PROVE  RecordsInv'
  <2> DEFINE r == [at |-> now, bytes |-> bytes]
  <2>1. r \in Records /\ begun \in Seq(Records)
    BY <1>1 DEF Records, BehaviorTypeOK
  <2>2. ToSet(begun') = ToSet(begun) \cup {r}
    BY <1>4, <2>1, ToSetAppend DEF BeginRecord
  <2>3. \A d \in Callers : cmd'[d] # "none" => Member(d)' \in ToSet(begun')
    <3>1. Member(c)' = r
      BY <1>1, <1>4 DEF BeginRecord, Member, BehaviorTypeOK
    <3>2. \A d \in Callers \ {c} : Member(d)' = Member(d) /\ cmd'[d] = cmd[d]
      BY <1>1, <1>4 DEF BeginRecord, Goes, Member, BehaviorTypeOK
    <3> QED BY <2>2, <3>1, <3>2 DEF RecordsInv
  <2>4. r.at = now /\ now' = now
    BY <1>4 DEF BeginRecord
  <2>5. entries' = entries /\ acked' = acked
    BY <1>4 DEF BeginRecord
  <2> QED BY <1>1, <1>2, <2>2, <2>3, <2>4, <2>5 DEF RecordsInv
<1>5. ASSUME NEW c \in Callers,
             \/ ZAdd(c) \/ TrimAge(c) \/ TrimRank(c) \/ IncrSum(c)
             \/ IncrCount(c) \/ Expire(c)
      PROVE  RecordsInv'
  <2>1. /\ \A d \in Callers : Member(d)' = Member(d)
        /\ \A d \in Callers : cmd'[d] # "none" => cmd[d] # "none"
        /\ UNCHANGED <<now, begun, acked>>
    BY <1>1, <1>5
    DEF ZAdd, TrimAge, TrimRank, IncrSum, IncrCount, Expire, ExpireKey, Goes,
        Member, BehaviorTypeOK
  <2>2. IsFiniteSet(entries') /\ entries' \subseteq ToSet(begun)
    <3>1. CASE ZAdd(c)
      BY <3>1, FS_AddElement DEF ZAdd, Goes, RecordsInv
    <3>2. CASE TrimAge(c) \/ TrimRank(c)
      <4>1. entries' \subseteq entries
        BY <3>2 DEF TrimAge, TrimRank, Trimmed, Newest
      <4> QED BY <4>1, FS_Subset DEF RecordsInv
    <3>3. CASE IncrSum(c) \/ IncrCount(c) \/ Expire(c)
      BY <3>3 DEF IncrSum, IncrCount, Expire, ExpireKey, RecordsInv
    <3> QED BY <1>5, <3>1, <3>2, <3>3
  <2> QED BY <1>1, <2>1, <2>2 DEF RecordsInv
<1>6. ASSUME NEW c \in Callers, Reply(c)
      PROVE  RecordsInv'
  <2>1. /\ UNCHANGED <<now, entries, begun>>
        /\ \A d \in Callers : cmd'[d] # "none" =>
             cmd[d] # "none" /\ Member(d)' = Member(d)
    BY <1>1, <1>6 DEF Reply, Goes, Member, BehaviorTypeOK
  <2>2. cmd[c] # "none" /\ acked' = Append(acked, Member(c))
    BY <1>6 DEF Reply, Goes
  <2>3. ToSet(acked') \subseteq ToSet(begun)
    BY <1>1, <2>2, ToSetAppend DEF RecordsInv, Pending, BehaviorTypeOK
  <2> QED BY <1>1, <2>1, <2>3 DEF RecordsInv
<1>7. ASSUME NEW c \in Callers, Resend(c) \/ RecordFails(c)
      PROVE  RecordsInv'
  <2>1. /\ UNCHANGED <<now, entries, begun, acked>>
        /\ \A d \in Callers : cmd'[d] # "none" =>
             cmd[d] # "none" /\ Member(d)' = Member(d)
    <3>1. CASE Resend(c)
      <4>1. \A d \in Callers : Member(d)' = Member(d)
        BY <1>1, <3>1 DEF Resend, Member, BehaviorTypeOK
      <4> QED BY <1>1, <3>1, <4>1 DEF Resend, BehaviorTypeOK
    <3>2. CASE RecordFails(c)
      BY <1>1, <3>2 DEF RecordFails, Member, BehaviorTypeOK
    <3> QED BY <1>7, <3>1, <3>2
  <2> QED BY <1>1, <2>1 DEF RecordsInv
<1>8. CASE UNCHANGED bvars
  BY <1>1, <1>8 DEF bvars, RecordsInv, Member
<1> QED
  BY <1>3, <1>4, <1>5, <1>6, <1>7, <1>8
  DEF BehaviorNext, PipelineStep, Over

LEMMA RecordsInvariant == BehaviorSpec => []RecordsInv
  BY RecordsInit, RecordsNext, PTL DEF BehaviorSpec

\* The keys, the clock and every pipeline's locals stay well typed.
THEOREM BehaviorTypeTheorem == BehaviorSpec => []BehaviorTypeOK
<1>1. RecordsInv => BehaviorTypeOK
  BY DEF RecordsInv
<1> QED BY <1>1, RecordsInvariant, PTL

\* A record is in the set, or too old, or the trim took it with Keep others
\* that are no older.
Kept(r) ==
  \/ r \in entries
  \/ r.at <= now - WindowSize
  \/ Cardinality({e \in ToSet(begun) \ {r} : e.at >= r.at}) >= Keep

\* What pipelines have added, and what was acknowledged.
Added == {Member(c) : c \in {d \in Callers : cmd[d] \notin {"none", "zadd"}}}
         \cup ToSet(acked)

\* What the set's TTL was renewed for.
Lasting == {Member(c) : c \in {d \in Callers :
                          cmd[d] \in {"expireSum", "expireCount", "reply"}}}
           \cup ToSet(acked)

\* The inductive invariant: what was added is kept, and what was acknowledged
\* has a TTL that outlasts the window.
KeptInv ==
  /\ RecordsInv
  /\ \A r \in Added : Kept(r)
  /\ \A r \in Lasting : entries # {} => until["bytes"] >= r.at + WindowSize

\* A record stays kept, whatever is recorded and however time passes, unless
\* the step takes it out.
LEMMA KeptStays ==
  ASSUME RecordsInv, RecordsInv', [BehaviorNext]_bvars,
         NEW r \in ToSet(begun), Kept(r), r \in entries => Kept(r)'
  PROVE  Kept(r)'
<1>1. /\ ToSet(begun) \subseteq ToSet(begun') /\ now <= now'
      /\ now \in Nat /\ now' \in Nat /\ WindowSize \in Nat /\ Keep \in Nat
      /\ r.at \in Nat
  BY RecordsGrow, BehaviorAssumption, ToSetIn, RecordFields
  DEF BehaviorAssumption, RecordsInv, BehaviorTypeOK
<1>2. CASE r \in entries
  BY <1>2
<1>3. CASE r.at <= now - WindowSize
  BY <1>1, <1>3 DEF Kept
<1>4. CASE Cardinality({e \in ToSet(begun) \ {r} : e.at >= r.at}) >= Keep
  <2> DEFINE A == {e \in ToSet(begun) \ {r} : e.at >= r.at}
             B == {e \in ToSet(begun') \ {r} : e.at >= r.at}
  <2>1. IsFiniteSet(ToSet(begun'))
    BY ToSetFinite DEF RecordsInv, BehaviorTypeOK
  <2>2. IsFiniteSet(B) /\ A \subseteq B
    BY <1>1, <2>1, FS_Subset
  <2>3. Cardinality(A) <= Cardinality(B)
        /\ Cardinality(A) \in Nat /\ Cardinality(B) \in Nat
    BY <2>2, FS_Subset, FS_CardinalityType
  <2>4. Cardinality(B) >= Keep
    BY <1>1, <1>4, <2>3
  <2> QED BY <2>4 DEF Kept
<1> QED BY <1>2, <1>3, <1>4 DEF Kept

\* The trim by rank takes out only what is no younger than Keep others.
LEMMA TrimRankKeeps ==
  ASSUME RecordsInv, NEW c \in Callers, TrimRank(c), NEW r \in entries
  PROVE  Kept(r)'
<1>1. Keep \in Nat /\ Keep # 0 /\ IsFiniteSet(ToSet(begun))
  BY BehaviorAssumption, ToSetFinite
  DEF BehaviorAssumption, RecordsInv, BehaviorTypeOK
<1>2. /\ entries' \subseteq entries
      /\ Cardinality(entries') =
           IF Cardinality(entries) < Keep THEN Cardinality(entries) ELSE Keep
      /\ \A e \in entries', d \in entries \ entries' : d.at <= e.at
      /\ begun' = begun
  BY DEF TrimRank, Trimmed, Newest
<1>3. CASE r \in entries'
  BY <1>3 DEF Kept
<1>4. CASE r \notin entries'
  <2>1. entries' # entries /\ IsFiniteSet(entries)
    BY <1>4 DEF RecordsInv
  <2>2. /\ Cardinality(entries') # Cardinality(entries)
        /\ Cardinality(entries') \in Nat
    BY <1>2, <2>1, FS_Subset, FS_CardinalityType
  <2>3. Cardinality(entries') = Keep
    BY <1>2, <2>2
  <2> DEFINE B == {e \in ToSet(begun) \ {r} : e.at >= r.at}
  <2>4. entries' \subseteq B
    <3>1. ASSUME NEW e \in entries'
          PROVE  e \in B
      <4>1. e \in ToSet(begun) /\ r.at <= e.at /\ e # r
        BY <1>2, <1>4 DEF RecordsInv
      <4>2. e.at \in Nat /\ r.at \in Nat
        BY <1>2, RecordFields DEF RecordsInv, BehaviorTypeOK
      <4> QED BY <4>1, <4>2
    <3> QED BY <3>1
  <2>5. IsFiniteSet(B) /\ Cardinality(B) \in Nat
        /\ Cardinality(entries') <= Cardinality(B)
    BY <1>1, <2>4, FS_Subset, FS_CardinalityType
  <2>6. Cardinality(B) >= Keep
    BY <1>1, <2>3, <2>5
  <2> QED BY <1>2, <2>6 DEF Kept
<1> QED BY <1>3, <1>4

\* The clock takes the set only between pipelines, and after the window of
\* everything acknowledged.
LEMMA TickKeeps ==
  ASSUME ~TTLsRace, KeptInv, Tick, NEW r \in Added, r \in entries
  PROVE  Kept(r)'
<1>1. /\ now' = now + 1
      /\ entries' = IF now' >= until["bytes"] THEN {} ELSE entries
  BY DEF Tick
<1>2. /\ now \in Nat /\ WindowSize \in Nat /\ r.at \in Nat
      /\ until["bytes"] \in Nat
  <2>1. r \in Records /\ "bytes" \in Keys
    BY DEF KeptInv, RecordsInv, BehaviorTypeOK, Keys
  <2>2. NoTTL \in Nat
    BY BehaviorAssumption DEF BehaviorAssumption, NoTTL
  <2> QED
    BY <2>1, <2>2, RecordFields, BehaviorAssumption
    DEF BehaviorAssumption, KeptInv, RecordsInv, BehaviorTypeOK
<1>3. CASE now' < until["bytes"]
  BY <1>1, <1>2, <1>3 DEF Kept
<1>4. CASE now' >= until["bytes"]
  <2>1. Quiescent
    BY <1>1, <1>2, <1>4 DEF Tick, Absent, Keys
  <2>2. r \in Lasting
    BY <2>1 DEF Quiescent, Added, Lasting
  <2>3. r.at + WindowSize <= until["bytes"]
    BY <2>2 DEF KeptInv
  <2>4. r.at <= now' - WindowSize
    BY <1>1, <1>2, <1>4, <2>3
  <2> QED BY <2>4 DEF Kept
<1> QED BY <1>1, <1>2, <1>3, <1>4

LEMMA KeptInit == BehaviorInit => KeptInv
<1> SUFFICES ASSUME BehaviorInit PROVE KeptInv
  OBVIOUS
<1>1. Added = {} /\ Lasting = {}
  BY DEF BehaviorInit, Added, Lasting, ToSet
<1> QED BY <1>1, RecordsInit DEF KeptInv

\* Nothing is added but by ZADD, which leaves it in the set.
LEMMA AddedStep ==
  ASSUME RecordsInv, [BehaviorNext]_bvars
  PROVE  Added' \subseteq Added \cup entries'
<1>1. BehaviorTypeOK /\ acked \in Seq(Records)
  BY DEF RecordsInv, BehaviorTypeOK
<1>2. ASSUME NEW c \in Callers, ZAdd(c)
      PROVE  Added' \subseteq Added \cup entries'
  <2>1. /\ \A d \in Callers : Member(d)' = Member(d)
        /\ \A d \in Callers \ {c} : cmd'[d] = cmd[d]
        /\ acked' = acked /\ Member(c) \in entries'
    BY <1>1, <1>2 DEF ZAdd, Goes, Member, BehaviorTypeOK
  <2> QED BY <2>1 DEF Added
<1>3. ASSUME NEW c \in Callers, Reply(c)
      PROVE  Added' \subseteq Added
  <2>1. /\ \A d \in Callers : cmd'[d] # "none" =>
             Member(d)' = Member(d) /\ cmd'[d] = cmd[d]
        /\ cmd[c] = "reply" /\ acked' = Append(acked, Member(c))
    BY <1>1, <1>3 DEF Reply, Goes, Member, BehaviorTypeOK
  <2>2. Member(c) \in Records
    BY <2>1 DEF RecordsInv, Pending
  <2>3. ToSet(acked') = ToSet(acked) \cup {Member(c)}
    BY <1>1, <2>1, <2>2, ToSetAppend
  <2> QED BY <2>1, <2>3 DEF Added
<1>4. ASSUME NEW c \in Callers, Resend(c) \/ RecordFails(c)
      PROVE  Added' \subseteq Added
  <2>1. /\ \A d \in Callers : cmd'[d] \notin {"none", "zadd"} =>
             Member(d)' = Member(d) /\ cmd'[d] = cmd[d]
        /\ acked' = acked
    BY <1>1, <1>4 DEF Resend, RecordFails, Member, BehaviorTypeOK
  <2> QED BY <2>1 DEF Added
<1>5. ASSUME NEW c \in Callers,
             \/ TrimAge(c) \/ TrimRank(c) \/ IncrSum(c) \/ IncrCount(c)
             \/ Expire(c)
      PROVE  Added' \subseteq Added
  <2>1. /\ \A d \in Callers : Member(d)' = Member(d)
        /\ \A d \in Callers :
             cmd'[d] \notin {"none", "zadd"} => cmd[d] \notin {"none", "zadd"}
        /\ acked' = acked
    BY <1>1, <1>5
    DEF TrimAge, TrimRank, IncrSum, IncrCount, Expire, ExpireKey, Goes,
        Member, BehaviorTypeOK
  <2> QED BY <2>1 DEF Added
<1>6. ASSUME NEW c \in Callers, NEW bytes \in Sizes, BeginRecord(c, bytes)
      PROVE  Added' \subseteq Added
  <2>1. /\ \A d \in Callers : cmd'[d] \notin {"none", "zadd"} =>
             Member(d)' = Member(d) /\ cmd'[d] = cmd[d]
        /\ acked' = acked
    BY <1>1, <1>6 DEF BeginRecord, Goes, Member, BehaviorTypeOK
  <2> QED BY <2>1 DEF Added
<1>7. CASE Tick \/ UNCHANGED bvars
  <2>1. UNCHANGED <<cmd, local, acked>>
    BY <1>7 DEF Tick, bvars
  <2> QED BY <2>1 DEF Added, Member
<1> QED
  BY <1>2, <1>3, <1>4, <1>5, <1>6, <1>7 DEF BehaviorNext, PipelineStep, Over

\* A TTL is renewed for what comes to count on it, and never to end sooner than
\* the window of a record.
LEMMA LastingNext ==
  ASSUME KeptInv, RecordsInv', [BehaviorNext]_bvars,
         NEW r \in Lasting', entries' # {}
  PROVE  until'["bytes"] >= r.at + WindowSize
<1>1. BehaviorTypeOK /\ RecordsInv /\ acked \in Seq(Records) /\ "bytes" \in Keys
  BY DEF KeptInv, RecordsInv, BehaviorTypeOK, Keys
<1>2. /\ now \in Nat /\ now' \in Nat /\ WindowSize \in Nat /\ Slack \in Nat
      /\ TTL = WindowSize + Slack /\ r.at \in Nat /\ r.at <= now'
      /\ now' <= MaxTime /\ MaxTime \in Nat
      /\ NoTTL = MaxTime + WindowSize + Slack + 1
  <2>1. r \in ToSet(begun')
    BY DEF RecordsInv, Lasting
  <2>2. r.at \in Nat /\ r.at <= now'
    BY <2>1, ToSetIn, RecordFields DEF RecordsInv, BehaviorTypeOK
  <2>3. now \in 1 .. MaxTime /\ now' \in 1 .. MaxTime
    BY <1>1 DEF RecordsInv, BehaviorTypeOK
  <2>4. WindowSize \in Nat /\ Slack \in Nat /\ MaxTime \in Nat
    BY BehaviorAssumption DEF BehaviorAssumption
  <2> QED BY <2>2, <2>3, <2>4 DEF NoTTL, TTL
<1>3. ASSUME NEW c \in Callers,
             ExpireKey(c, "bytes", "expireBytes", "expireSum")
      PROVE  until'["bytes"] >= r.at + WindowSize
  <2>1. until'["bytes"] = now + TTL /\ now' = now
    BY <1>1, <1>3 DEF ExpireKey, Renewed, Absent, BehaviorTypeOK
  <2> QED BY <1>2, <2>1
<1>4. ASSUME NEW c \in Callers, ZAdd(c)
      PROVE  until'["bytes"] >= r.at + WindowSize
  <2>1. CASE entries = {}
    <3>1. until'["bytes"] = NoTTL
      BY <1>1, <1>4, <2>1 DEF ZAdd, Made, Absent, BehaviorTypeOK
    <3> QED BY <1>2, <3>1
  <2>2. CASE entries # {}
    <3>1. until'["bytes"] = until["bytes"]
      BY <1>1, <1>4, <2>2 DEF ZAdd, Made, Absent, BehaviorTypeOK
    <3>2. r \in Lasting
      BY <1>1, <1>4 DEF ZAdd, Goes, Lasting, Member, BehaviorTypeOK
    <3> QED BY <2>2, <3>1, <3>2 DEF KeptInv
  <2> QED BY <2>1, <2>2
<1>5. ASSUME /\ until'["bytes"] = until["bytes"] /\ entries' \subseteq entries
             /\ Lasting' \subseteq Lasting
      PROVE  until'["bytes"] >= r.at + WindowSize
  BY <1>5 DEF KeptInv
<1>6. ASSUME NEW c \in Callers, Reply(c)
      PROVE  Lasting' \subseteq Lasting
  <2>1. /\ \A d \in Callers : cmd'[d] # "none" =>
             Member(d)' = Member(d) /\ cmd'[d] = cmd[d]
        /\ cmd[c] = "reply" /\ acked' = Append(acked, Member(c))
    BY <1>1, <1>6 DEF Reply, Goes, Member, BehaviorTypeOK
  <2>2. Member(c) \in Records
    BY <1>1, <2>1 DEF RecordsInv, Pending
  <2>3. ToSet(acked') = ToSet(acked) \cup {Member(c)}
    BY <1>1, <2>1, <2>2, ToSetAppend
  <2> QED BY <2>1, <2>3 DEF Lasting
<1>7. ASSUME NEW c \in Callers,
             \/ \E bytes \in Sizes : BeginRecord(c, bytes)
             \/ TrimAge(c) \/ TrimRank(c) \/ IncrSum(c) \/ IncrCount(c)
             \/ ExpireKey(c, "sum", "expireSum", "expireCount")
             \/ ExpireKey(c, "count", "expireCount", "reply")
             \/ Resend(c) \/ RecordFails(c)
      PROVE  Lasting' \subseteq Lasting
  <2> DEFINE Late == {"expireSum", "expireCount", "reply"}
  <2>1. \A d \in Callers : cmd'[d] \in Late =>
          cmd[d] \in Late /\ local'[d].at = local[d].at
          /\ local'[d].bytes = local[d].bytes
    BY <1>1, <1>7
    DEF BeginRecord, TrimAge, TrimRank, IncrSum, IncrCount, ExpireKey, Resend,
        RecordFails, Goes, BehaviorTypeOK
  <2>2. acked' = acked
    BY <1>7
    DEF BeginRecord, TrimAge, TrimRank, IncrSum, IncrCount, ExpireKey, Resend,
        RecordFails
  <2> QED BY <2>1, <2>2 DEF Lasting, Member
<1>8. CASE Tick \/ UNCHANGED bvars
  <2>1. UNCHANGED <<until, cmd, local, acked>> /\ entries' \subseteq entries
    BY <1>8 DEF Tick, bvars
  <2> QED BY <1>5, <2>1 DEF Lasting, Member
<1>9. ASSUME NEW c \in Callers,
             \/ \E bytes \in Sizes : BeginRecord(c, bytes)
             \/ TrimAge(c) \/ TrimRank(c) \/ IncrSum(c) \/ IncrCount(c)
             \/ ExpireKey(c, "sum", "expireSum", "expireCount")
             \/ ExpireKey(c, "count", "expireCount", "reply")
             \/ Resend(c) \/ RecordFails(c) \/ Reply(c)
      PROVE  until'["bytes"] = until["bytes"] /\ entries' \subseteq entries
  BY <1>1, <1>9
  DEF BeginRecord, TrimAge, TrimRank, IncrSum, IncrCount, ExpireKey, Resend,
      RecordFails, Reply, Made, Renewed, Trimmed, Newest, BehaviorTypeOK
<1> QED
  BY <1>3, <1>4, <1>5, <1>6, <1>7, <1>8, <1>9
  DEF BehaviorNext, PipelineStep, Expire, Over

LEMMA KeptNext ==
  ASSUME ~TTLsRace, KeptInv, [BehaviorNext]_bvars
  PROVE  KeptInv'
<1>1. RecordsInv /\ RecordsInv'
  BY RecordsNext DEF KeptInv
<1>2. ASSUME NEW r \in Added, r \in entries
      PROVE  Kept(r)'
  <2>1. CASE r \in entries'
    BY <2>1 DEF Kept
  <2>2. CASE Tick
    BY <1>2, <2>2, TickKeeps
  <2>3. ASSUME NEW c \in Callers, TrimRank(c)
        PROVE  Kept(r)'
    BY <1>1, <1>2, <2>3, TrimRankKeeps
  <2>4. ASSUME NEW c \in Callers, TrimAge(c), r \notin entries'
        PROVE  Kept(r)'
    <3>1. /\ now' = now /\ ~(r.at > local[c].at - WindowSize)
          /\ Member(c) \in ToSet(begun)
      BY <1>1, <1>2, <2>4 DEF TrimAge, Goes, RecordsInv
    <3>2. /\ local[c].at <= now /\ local[c].at \in Nat
          /\ now \in Nat /\ r.at \in Nat /\ WindowSize \in Nat
      <4>1. Member(c).at <= now /\ Member(c) \in Records /\ r \in Records
        BY <1>1, <1>2, <3>1, ToSetIn DEF RecordsInv, BehaviorTypeOK
      <4> QED
        BY <1>1, <4>1, RecordFields, BehaviorAssumption
        DEF BehaviorAssumption, RecordsInv, BehaviorTypeOK, Member
    <3>3. r.at <= now' - WindowSize
      BY <3>1, <3>2
    <3> QED BY <3>3 DEF Kept
  <2>5. \/ Tick \/ r \in entries'
        \/ \E c \in Callers : TrimAge(c) \/ TrimRank(c)
    BY <1>2
    DEF BehaviorNext, PipelineStep, Over, BeginRecord, ZAdd, IncrSum,
        IncrCount, Expire, ExpireKey, Reply, Resend, RecordFails, bvars
  <2> QED BY <2>1, <2>2, <2>3, <2>4, <2>5
<1>3. ASSUME NEW r \in Added'
      PROVE  Kept(r)'
  <2>1. CASE r \in entries'
    BY <2>1 DEF Kept
  <2>2. CASE r \notin entries'
    <3>1. r \in Added
      BY <1>1, <2>2, AddedStep
    <3>2. r \in ToSet(begun) /\ Kept(r)
      BY <1>1, <3>1 DEF KeptInv, RecordsInv, Added
    <3> QED BY <1>1, <1>2, <3>1, <3>2, KeptStays
  <2> QED BY <2>1, <2>2
<1> QED BY <1>1, <1>3, LastingNext DEF KeptInv

\* The set holds what was recorded and nothing else, once, wherever a pipeline
\* broke; only age and the trim take an acknowledged entry out, and the trim
\* takes the oldest.  No TTL may end while a pipeline runs: Redis would take
\* the entry the pipeline has just added.
THEOREM WindowHoldsTheorem ==
  ASSUME ~TTLsRace
  PROVE  BehaviorSpec => []WindowHoldsRecords
<1>1. KeptInv /\ [BehaviorNext]_bvars => KeptInv'
  BY KeptNext
<1>2. KeptInv => WindowHoldsRecords
  <2> SUFFICES ASSUME KeptInv PROVE WindowHoldsRecords
    OBVIOUS
  <2>1. \A i \in DOMAIN acked : acked[i] \in Added
    BY DEF Added, ToSet
  <2>2. entries \subseteq ToSet(begun)
    BY DEF KeptInv, RecordsInv
  <2> QED BY <2>1, <2>2 DEF KeptInv, Kept, WindowHoldsRecords
<1> QED BY <1>1, <1>2, KeptInit, PTL DEF BehaviorSpec

\* The pipelines that run, and those that have added and are yet to trim.
Busy == {c \in Callers : cmd[c] # "none"}
Untrimmed == {c \in Callers : cmd[c] \in {"trimAge", "trimRank"}}

\* The inductive invariant.
BoundedInv ==
  /\ RecordsInv
  /\ IsFiniteSet(Busy)
  /\ ~broke => Cardinality(entries) <= Keep + Cardinality(Untrimmed)

LEMMA BusyStep ==
  ASSUME BehaviorTypeOK, [BehaviorNext]_bvars, IsFiniteSet(Busy)
  PROVE  IsFiniteSet(Busy')
<1>1. \/ cmd' = cmd
      \/ \E c \in Callers : \A d \in Callers \ {c} : cmd'[d] = cmd[d]
  <2>1. CASE Tick \/ Over \/ UNCHANGED bvars
    BY <2>1 DEF Tick, Over, bvars
  <2>2. ASSUME NEW c \in Callers, NEW bytes \in Sizes, BeginRecord(c, bytes)
        PROVE  \A d \in Callers \ {c} : cmd'[d] = cmd[d]
    BY <2>2 DEF BeginRecord, Goes, BehaviorTypeOK
  <2>3. ASSUME NEW c \in Callers, PipelineStep(c)
        PROVE  \A d \in Callers \ {c} : cmd'[d] = cmd[d]
    BY <2>3 DEF PipelineStep, ZAdd, TrimAge, TrimRank, IncrSum, IncrCount,
                Expire, ExpireKey, Reply, Goes, BehaviorTypeOK
  <2>4. ASSUME NEW c \in Callers, Resend(c) \/ RecordFails(c)
        PROVE  \A d \in Callers \ {c} : cmd'[d] = cmd[d]
    BY <2>4 DEF Resend, RecordFails, BehaviorTypeOK
  <2> QED BY <2>1, <2>2, <2>3, <2>4 DEF BehaviorNext
<1>2. \/ Busy' \subseteq Busy
      \/ \E c \in Callers : Busy' \subseteq Busy \cup {c}
  BY <1>1 DEF Busy
<1> QED BY <1>2, FS_Subset, FS_AddElement

LEMMA BoundedNext ==
  ASSUME BoundedInv, [BehaviorNext]_bvars
  PROVE  BoundedInv'
<1>1. RecordsInv /\ RecordsInv' /\ BehaviorTypeOK
  BY RecordsNext DEF BoundedInv, RecordsInv
<1>2. IsFiniteSet(Busy) /\ IsFiniteSet(Busy')
  BY <1>1, BusyStep DEF BoundedInv
<1>3. /\ IsFiniteSet(Untrimmed) /\ IsFiniteSet(Untrimmed')
      /\ Cardinality(Untrimmed) \in Nat /\ Cardinality(Untrimmed') \in Nat
  <2>1. Untrimmed \subseteq Busy /\ Untrimmed' \subseteq Busy'
    BY DEF Untrimmed, Busy
  <2> QED BY <1>2, <2>1, FS_Subset, FS_CardinalityType
<1>4. /\ IsFiniteSet(entries) /\ IsFiniteSet(entries')
      /\ Cardinality(entries) \in Nat /\ Cardinality(entries') \in Nat
      /\ Keep \in Nat
  BY <1>1, FS_CardinalityType, BehaviorAssumption
  DEF RecordsInv, BehaviorAssumption
<1> SUFFICES ASSUME ~broke'
             PROVE  Cardinality(entries') <= Keep + Cardinality(Untrimmed')
  BY <1>1, <1>2 DEF BoundedInv
<1>5. ~broke
  BY DEF BehaviorNext, PipelineStep, Over, Tick, BeginRecord, ZAdd, TrimAge,
         TrimRank, IncrSum, IncrCount, Expire, ExpireKey, Reply, Resend,
         RecordFails, bvars
<1>6. Cardinality(entries) <= Keep + Cardinality(Untrimmed)
  BY <1>5 DEF BoundedInv
<1>7. ASSUME entries' \subseteq entries, Untrimmed \subseteq Untrimmed'
      PROVE  Cardinality(entries') <= Keep + Cardinality(Untrimmed')
  <2>1. /\ Cardinality(entries') <= Cardinality(entries)
        /\ Cardinality(Untrimmed) <= Cardinality(Untrimmed')
    BY <1>3, <1>4, <1>7, FS_Subset
  <2> QED BY <1>3, <1>4, <1>6, <2>1
<1>8. ASSUME NEW c \in Callers, ZAdd(c)
      PROVE  Cardinality(entries') <= Keep + Cardinality(Untrimmed')
  <2>1. entries' = entries \cup {Member(c)}
        /\ Untrimmed' = Untrimmed \cup {c} /\ c \notin Untrimmed
    BY <1>1, <1>8 DEF ZAdd, Goes, Untrimmed, BehaviorTypeOK
  <2>2. /\ Cardinality(entries') <= Cardinality(entries) + 1
        /\ Cardinality(Untrimmed') = Cardinality(Untrimmed) + 1
    BY <1>3, <1>4, <2>1, FS_AddElement
  <2> QED BY <1>3, <1>4, <1>6, <2>2
<1>9. ASSUME NEW c \in Callers, TrimRank(c)
      PROVE  Cardinality(entries') <= Keep + Cardinality(Untrimmed')
  <2>1. Cardinality(entries') <= Keep
    BY <1>4, <1>9 DEF TrimRank, Trimmed, Newest
  <2> QED BY <1>3, <1>4, <2>1
<1>10. ASSUME NEW c \in Callers, TrimAge(c)
       PROVE  entries' \subseteq entries /\ Untrimmed \subseteq Untrimmed'
  BY <1>1, <1>10 DEF TrimAge, Goes, Untrimmed, BehaviorTypeOK
<1>11. ASSUME NEW c \in Callers,
              \/ \E bytes \in Sizes : BeginRecord(c, bytes)
              \/ IncrSum(c) \/ IncrCount(c) \/ Expire(c) \/ Reply(c)
       PROVE  entries' \subseteq entries /\ Untrimmed \subseteq Untrimmed'
  BY <1>1, <1>11
  DEF BeginRecord, IncrSum, IncrCount, Expire, ExpireKey, Reply, Goes,
      Untrimmed, BehaviorTypeOK
<1>12. CASE Tick \/ UNCHANGED bvars
  <2>1. entries' \subseteq entries /\ Untrimmed \subseteq Untrimmed'
    BY <1>12 DEF Tick, bvars, Untrimmed
  <2> QED BY <1>7, <2>1
<1>13. ASSUME NEW c \in Callers, Resend(c) \/ RecordFails(c)
       PROVE  FALSE
  BY <1>13 DEF Resend, RecordFails
<1> QED
  BY <1>7, <1>8, <1>9, <1>10, <1>11, <1>12, <1>13
  DEF BehaviorNext, PipelineStep, Over

\* The trim bounds the set: while no connection breaks it is larger than Keep
\* by no more than the pipelines that have yet to trim it, however many run.
THEOREM SetBoundedTheorem == BehaviorSpec => []SetBounded
<1>1. BehaviorInit => BoundedInv
  <2> SUFFICES ASSUME BehaviorInit PROVE BoundedInv
    OBVIOUS
  <2>1. Busy = {} /\ Untrimmed = {} /\ entries = {} /\ Keep \in Nat
    BY BehaviorAssumption
    DEF BehaviorInit, Busy, Untrimmed, BehaviorAssumption
  <2> QED BY <2>1, FS_EmptySet, RecordsInit DEF BoundedInv
<1>2. BoundedInv /\ [BehaviorNext]_bvars => BoundedInv'
  BY BoundedNext
<1>3. BoundedInv => SetBounded
  BY DEF BoundedInv, SetBounded, Untrimmed
<1> QED BY <1>1, <1>2, <1>3, PTL DEF BehaviorSpec

\* b bounds every record.
Bounds(b) == \A r \in ToSet(begun) : r.bytes <= b

\* The pipelines between the two increments, those that have yet to renew :sum,
\* and those that have yet to renew :count.
Between == {c \in Callers : cmd[c] = "incrCount"}
RenewsSum == {c \in Callers : cmd[c] \in {"incrCount", "expireBytes", "expireSum"}}
RenewsCount == RenewsSum \cup {c \in Callers : cmd[c] = "expireCount"}

\* The inductive invariant: the sum is not more than the count, and what is
\* under way, allow, and ends no later than the count does.
TotalsInv ==
  /\ RecordsInv
  /\ IsFiniteSet(Busy)
  /\ ~broke =>
       /\ \A b \in Sizes :
            Bounds(b) => sum <= b * (count + Cardinality(Between))
       /\ \A c \in Callers :
            cmd[c] \in {"expireBytes", "expireSum", "expireCount", "reply"} =>
              count # 0
       /\ \/ sum = 0
          \/ until["sum"] <= until["count"]
          \/ RenewsCount # {}
       /\ \/ sum = 0
          \/ until["sum"] <= now + TTL
          \/ RenewsSum # {}

\* The parts of a step that does not concern the totals.
LEMMA TotalsAside ==
  ASSUME TotalsInv, RecordsInv', IsFiniteSet(Busy'), [BehaviorNext]_bvars,
         ~broke, UNCHANGED <<now, sum, count>>,
         until'["sum"] = until["sum"], until'["count"] = until["count"],
         \A c \in Callers :
           \/ cmd'[c] = cmd[c]
           \/ {cmd[c], cmd'[c]} \subseteq
                {"none", "zadd", "trimAge", "trimRank", "incrSum"}
           \/ cmd[c] = "expireBytes" /\ cmd'[c] = "expireSum"
           \/ cmd[c] = "reply" /\ cmd'[c] = "none"
  PROVE  TotalsInv'
<1>1. /\ Between' = Between /\ RenewsSum' = RenewsSum
      /\ RenewsCount' = RenewsCount
  BY DEF Between, RenewsSum, RenewsCount
<1>2. ASSUME NEW b \in Sizes, Bounds(b)'
      PROVE  Bounds(b)
  BY <1>2, RecordsGrow DEF TotalsInv, Bounds
<1>3. \A c \in Callers :
        cmd'[c] \in {"expireBytes", "expireSum", "expireCount", "reply"} =>
          cmd[c] \in {"expireBytes", "expireSum", "expireCount", "reply"}
  OBVIOUS
<1> QED BY <1>1, <1>2, <1>3 DEF TotalsInv

LEMMA TotalsNumbers ==
  ASSUME TotalsInv
  PROVE  /\ BehaviorTypeOK
         /\ sum \in Nat /\ count \in Nat /\ now \in Nat /\ TTL \in Nat
         /\ until["sum"] \in Nat /\ until["count"] \in Nat
         /\ IsFiniteSet(Between) /\ Cardinality(Between) \in Nat
<1>1. NoTTL \in Nat /\ TTL \in Nat
  BY BehaviorAssumption DEF BehaviorAssumption, NoTTL, TTL
<1>2. Between \subseteq Busy
  BY DEF Between, Busy
<1>3. BehaviorTypeOK
  BY DEF TotalsInv, RecordsInv
<1>4. until["sum"] \in 0 .. NoTTL /\ until["count"] \in 0 .. NoTTL
  BY <1>3 DEF BehaviorTypeOK, Keys
<1>5. IsFiniteSet(Between) /\ Cardinality(Between) \in Nat
  BY <1>2, FS_Subset, FS_CardinalityType DEF TotalsInv
<1> QED BY <1>1, <1>3, <1>4, <1>5 DEF BehaviorTypeOK

LEMMA TotalsTick ==
  ASSUME ~TTLsRace, TotalsInv, RecordsInv', IsFiniteSet(Busy'), Tick
  PROVE  TotalsInv'
<1>1. /\ now' = now + 1
      /\ sum' = IF now' >= until["sum"] THEN 0 ELSE sum
      /\ count' = IF now' >= until["count"] THEN 0 ELSE count
      /\ UNCHANGED <<until, cmd, local, broke, begun>>
  BY DEF Tick
<1>2. /\ sum \in Nat /\ count \in Nat /\ now \in Nat /\ TTL \in Nat
      /\ until["sum"] \in Nat /\ until["count"] \in Nat
      /\ Cardinality(Between) \in Nat
  BY TotalsNumbers
<1>3. /\ Between' = Between /\ RenewsSum' = RenewsSum
      /\ RenewsCount' = RenewsCount
      /\ \A b \in Sizes : Bounds(b)' <=> Bounds(b)
  BY <1>1 DEF Between, RenewsSum, RenewsCount, Bounds
<1> SUFFICES ASSUME ~broke
             PROVE  TotalsInv'
  BY <1>1 DEF TotalsInv
<1>4. CASE sum' = sum /\ count' = count
  BY <1>1, <1>2, <1>3, <1>4 DEF TotalsInv
<1>5. CASE ~(sum' = sum /\ count' = count)
  <2>1. Quiescent
    <3>1. ASSUME ~Quiescent
          PROVE  FALSE
      <4>1. /\ sum = 0 \/ now' < until["sum"]
            /\ count = 0 \/ now' < until["count"]
        BY <1>1, <1>2, <3>1 DEF Tick, Absent, Keys
      <4> QED BY <1>1, <1>2, <1>5, <4>1
    <3> QED BY <3>1
  <2>2. /\ Between = {} /\ RenewsSum = {} /\ RenewsCount = {}
        /\ Cardinality(Between) = 0
    BY <2>1, FS_EmptySet
    DEF Quiescent, Between, RenewsSum, RenewsCount
  <2>3. sum = 0 \/ until["sum"] <= until["count"]
    BY <2>2 DEF TotalsInv
  <2>4. sum' = 0 \/ (sum' = sum /\ count' = count)
    BY <1>1, <1>2, <2>3
  <2>5. sum' = 0 /\ count' \in Nat
    BY <1>1, <1>2, <1>5, <2>4
  <2>6. \A b \in Sizes : b * (count' + 0) \in Nat
    <3>1. \A b \in Sizes : b \in Nat
      BY SizesNat
    <3> QED BY <2>5, <3>1
  <2>7. \A c \in Callers : cmd'[c] = "none"
    BY <1>1, <2>1 DEF Quiescent
  <2> QED BY <1>3, <2>2, <2>5, <2>6, <2>7 DEF TotalsInv
<1> QED BY <1>4, <1>5

LEMMA TotalsIncrement ==
  ASSUME TotalsInv, RecordsInv', IsFiniteSet(Busy'), ~broke,
         NEW c \in Callers, IncrSum(c) \/ IncrCount(c)
  PROVE  TotalsInv'
<1>1. /\ BehaviorTypeOK /\ sum \in Nat /\ count \in Nat
      /\ IsFiniteSet(Between) /\ Cardinality(Between) \in Nat
  BY TotalsNumbers
<1>2. \A b \in Sizes : b \in Nat /\ (Bounds(b)' <=> Bounds(b))
  BY SizesNat DEF IncrSum, IncrCount, Bounds
<1>3. CASE IncrSum(c)
  <2>1. /\ Between' = Between \cup {c} /\ c \notin Between
        /\ c \in RenewsSum' /\ c \in RenewsCount'
        /\ sum' = sum + local[c].bytes /\ count' = count
    BY <1>1, <1>3
    DEF IncrSum, Goes, Between, RenewsSum, RenewsCount, BehaviorTypeOK
  <2>2. Cardinality(Between') = Cardinality(Between) + 1
    BY <1>1, <2>1, FS_AddElement
  <2>3. ASSUME NEW b \in Sizes, Bounds(b)
        PROVE  sum' <= b * (count' + Cardinality(Between'))
    <3>1. local[c].bytes <= b
      BY <1>3, <2>3 DEF IncrSum, Goes, TotalsInv, RecordsInv, Bounds, Member
    <3>2. local[c].bytes \in Nat
      <4>1. Member(c) \in Records
        BY <1>3 DEF IncrSum, Goes, TotalsInv, RecordsInv, Pending
      <4> QED BY <4>1, RecordFields, SizesNat DEF Member
    <3>3. sum <= b * (count + Cardinality(Between))
      BY <2>3 DEF TotalsInv
    <3> DEFINE n == count + Cardinality(Between)
    <3>4. /\ n \in Nat /\ b \in Nat /\ b * n \in Nat
          /\ b * (n + 1) = b * n + b
      BY <1>1, <1>2
    <3>5. count' + Cardinality(Between') = n + 1
      BY <1>1, <2>1, <2>2
    <3> HIDE DEF n
    <3>6. sum <= b * n
      BY <3>3 DEF n
    <3>7. sum' <= b * (n + 1)
      BY <1>1, <2>1, <3>1, <3>2, <3>4, <3>6
    <3> QED BY <3>5, <3>7
  <2>4. \A d \in Callers :
          cmd'[d] \in {"expireBytes", "expireSum", "expireCount", "reply"} =>
            count' # 0
    BY <1>1, <1>3 DEF IncrSum, Goes, TotalsInv, BehaviorTypeOK
  <2> QED BY <1>2, <2>1, <2>3, <2>4 DEF TotalsInv
<1>4. CASE IncrCount(c)
  <2>1. /\ Between' = Between \ {c} /\ c \in Between
        /\ c \in RenewsSum' /\ c \in RenewsCount'
        /\ sum' = sum /\ count' = count + 1
    BY <1>1, <1>4
    DEF IncrCount, Goes, Between, RenewsSum, RenewsCount, BehaviorTypeOK
  <2>2. Cardinality(Between') = Cardinality(Between) - 1
    BY <1>1, <2>1, FS_RemoveElement
  <2>3. count' + Cardinality(Between') = count + Cardinality(Between)
    BY <1>1, <2>1, <2>2
  <2>4. count' # 0
    BY <1>1, <2>1
  <2>5. ASSUME NEW b \in Sizes, Bounds(b)
        PROVE  sum' <= b * (count' + Cardinality(Between'))
    <3>1. sum <= b * (count + Cardinality(Between))
      BY <2>5 DEF TotalsInv
    <3> QED BY <2>1, <2>3, <3>1
  <2> QED BY <1>2, <2>1, <2>4, <2>5 DEF TotalsInv
<1> QED BY <1>3, <1>4

LEMMA TotalsRenewal ==
  ASSUME TotalsInv, RecordsInv', IsFiniteSet(Busy'), ~broke,
         NEW c \in Callers,
         \/ ExpireKey(c, "sum", "expireSum", "expireCount")
         \/ ExpireKey(c, "count", "expireCount", "reply")
  PROVE  TotalsInv'
<1>1. /\ BehaviorTypeOK /\ sum \in Nat /\ count \in Nat /\ now \in Nat
      /\ TTL \in Nat /\ until["sum"] \in Nat /\ until["count"] \in Nat
      /\ "sum" \in Keys /\ "count" \in Keys
  BY TotalsNumbers DEF Keys
<1>2. /\ Between' = Between /\ UNCHANGED <<now, sum, count>>
      /\ \A b \in Sizes : Bounds(b)' <=> Bounds(b)
  BY <1>1 DEF ExpireKey, Goes, Between, Bounds, BehaviorTypeOK
<1>3. \A d \in Callers :
        cmd'[d] \in {"expireBytes", "expireSum", "expireCount", "reply"} =>
          count' # 0
  BY <1>1 DEF ExpireKey, Goes, TotalsInv, BehaviorTypeOK
<1>4. CASE ExpireKey(c, "sum", "expireSum", "expireCount")
  <2>1. c \in RenewsCount'
    BY <1>1, <1>4 DEF ExpireKey, Goes, RenewsCount, BehaviorTypeOK
  <2>2. sum = 0 \/ until'["sum"] = now + TTL
    BY <1>1, <1>4 DEF ExpireKey, Renewed, Absent, BehaviorTypeOK
  <2> QED BY <1>1, <1>2, <1>3, <2>1, <2>2 DEF TotalsInv
<1>5. CASE ExpireKey(c, "count", "expireCount", "reply")
  <2>1. /\ until'["sum"] = until["sum"] /\ until'["count"] = now + TTL
        /\ count # 0
    <3>1. count # 0
      BY <1>5 DEF ExpireKey, Goes, TotalsInv
    <3> QED
      BY <1>1, <1>5, <3>1 DEF ExpireKey, Renewed, Absent, BehaviorTypeOK
  <2>2. RenewsSum' = RenewsSum
    BY <1>1, <1>5 DEF ExpireKey, Goes, RenewsSum, BehaviorTypeOK
  <2>3. RenewsSum' \subseteq RenewsCount'
    BY DEF RenewsCount
  <2>4. sum = 0 \/ until["sum"] <= now + TTL \/ RenewsSum # {}
    BY DEF TotalsInv
  <2> QED BY <1>1, <1>2, <1>3, <2>1, <2>2, <2>3, <2>4 DEF TotalsInv
<1> QED BY <1>4, <1>5

LEMMA TotalsNext ==
  ASSUME ~TTLsRace, TotalsInv, [BehaviorNext]_bvars
  PROVE  TotalsInv'
<1>1. BehaviorTypeOK /\ RecordsInv' /\ IsFiniteSet(Busy')
  BY RecordsNext, BusyStep DEF TotalsInv, RecordsInv
<1>2. broke' \/ ~broke
  BY DEF BehaviorNext, PipelineStep, Over, Tick, BeginRecord, ZAdd, TrimAge,
         TrimRank, IncrSum, IncrCount, Expire, ExpireKey, Reply, Resend,
         RecordFails, bvars
<1>3. CASE broke'
  BY <1>1, <1>3 DEF TotalsInv
<1> SUFFICES ASSUME ~broke, ~broke' PROVE TotalsInv'
  BY <1>2, <1>3
<1>4. ASSUME NEW c \in Callers,
             \/ \E bytes \in Sizes : BeginRecord(c, bytes)
             \/ TrimAge(c) \/ TrimRank(c) \/ Reply(c)
      PROVE  TotalsInv'
  <2>1. /\ UNCHANGED <<now, sum, count, until>>
        /\ \A d \in Callers :
             \/ cmd'[d] = cmd[d]
             \/ {cmd[d], cmd'[d]} \subseteq
                  {"none", "zadd", "trimAge", "trimRank", "incrSum"}
             \/ cmd[d] = "reply" /\ cmd'[d] = "none"
    BY <1>1, <1>4
    DEF BeginRecord, TrimAge, TrimRank, Reply, Goes, BehaviorTypeOK
  <2> QED BY <1>1, <2>1, TotalsAside
<1>5. ASSUME NEW c \in Callers,
             \/ ZAdd(c)
             \/ ExpireKey(c, "bytes", "expireBytes", "expireSum")
      PROVE  TotalsInv'
  <2>1. /\ UNCHANGED <<now, sum, count>>
        /\ until'["sum"] = until["sum"] /\ until'["count"] = until["count"]
        /\ \A d \in Callers :
             \/ cmd'[d] = cmd[d]
             \/ {cmd[d], cmd'[d]} \subseteq
                  {"none", "zadd", "trimAge", "trimRank", "incrSum"}
             \/ cmd[d] = "expireBytes" /\ cmd'[d] = "expireSum"
    <3>1. until'["sum"] = until["sum"] /\ until'["count"] = until["count"]
      BY <1>1, <1>5 DEF ZAdd, ExpireKey, Made, Renewed, BehaviorTypeOK, Keys
    <3>2. CASE ZAdd(c)
      BY <1>1, <3>1, <3>2 DEF ZAdd, Goes, BehaviorTypeOK
    <3>3. CASE ExpireKey(c, "bytes", "expireBytes", "expireSum")
      BY <1>1, <3>1, <3>3 DEF ExpireKey, Goes, BehaviorTypeOK
    <3> QED BY <1>5, <3>2, <3>3
  <2> QED BY <1>1, <2>1, TotalsAside
<1>6. CASE UNCHANGED bvars
  BY <1>1, <1>6, TotalsAside DEF bvars
<1>7. ASSUME NEW c \in Callers, Resend(c) \/ RecordFails(c)
      PROVE  FALSE
  BY <1>7 DEF Resend, RecordFails
<1> QED
  BY <1>1, <1>4, <1>5, <1>6, <1>7, TotalsTick, TotalsIncrement, TotalsRenewal
  DEF BehaviorNext, PipelineStep, Expire, Over

\* What the statistics script adds up is at most a bound of its terms times
\* their number.
LEMMA BytesBound ==
  ASSUME NEW S, IsFiniteSet(S), NEW b \in Nat,
         \A e \in S : e.bytes \in 0 .. b
  PROVE  BytesOf(S) \in 0 .. b * Cardinality(S)
<1> DEFINE f == [e \in S |-> e.bytes]
           Rule(g) == g = [s \in SUBSET S |->
                             IF s = {} THEN 0
                             ELSE (CHOOSE x \in s : TRUE).bytes
                                    + g[s \ {CHOOSE x \in s : TRUE}]]
           G == CHOOSE g : Rule(g)
<1>1. BytesOf(S) = G[S]
  BY Zenon DEF BytesOf, MapThenSumSet, MapThenFoldSet
<1>2. \A s \in SUBSET S : s # {} =>
        f[Pick(s)] = (CHOOSE x \in s : TRUE).bytes
  BY DEF Pick
<1>3. ASSUME NEW g
      PROVE  Rule(g) <=> Sums(g, f, S)
  BY <1>2 DEF Sums, Pick
<1>4. \E g : Sums(g, f, S)
  <2> HIDE DEF f
  <2> QED BY SumsExist
<1>5. Rule(G)
  <2> HIDE DEF Rule, f
  <2>1. \E g : Rule(g)
    BY <1>3, <1>4
  <2> QED BY <2>1
<1>6. Sums(G, f, S)
  BY <1>3, <1>5
<1>7. \A e \in S : f[e] \in 0 .. b
  OBVIOUS
<1> HIDE DEF G, f
<1> QED BY <1>1, <1>6, <1>7, SumsBound

\* The two weights make an average: they are at most one together.  The proxy
\* takes any from its configuration; its defaults are 0.7 and 0.3.
WeightsBlend == BlendWindow + BlendLifetime <= 10

LEMMA QuotientBound ==
  ASSUME NEW x \in Nat, NEW d \in Nat \ {0}, NEW b \in Nat, x <= b * d
  PROVE  x \div d <= b
<1> DEFINE q == x \div d
<1>1. q \in Int /\ d * q <= x
  OBVIOUS
<1>2. CASE q <= b
  BY <1>2
<1>3. CASE q >= b + 1
  <2>1. d * q >= d * (b + 1)
    BY <1>1, <1>3
  <2>2. d * (b + 1) = b * d + d
    OBVIOUS
  <2> HIDE DEF q
  <2>3. b * d \in Nat /\ d * q \in Int
    BY <1>1
  <2> QED BY <1>1, <2>1, <2>2, <2>3
<1> QED BY <1>1, <1>2, <1>3

\* The blend of two averages that a bound holds is held by it.
LEMMA BlendBound ==
  ASSUME WeightsBlend,
         NEW b \in Nat, NEW n \in Nat \ {0}, NEW k \in Nat \ {0},
         NEW bytes \in Nat, NEW total \in Nat,
         bytes <= b * n, total <= b * k
  PROVE  (BlendWindow * bytes * k + BlendLifetime * total * n)
           \div (10 * n * k) <= b
<1> DEFINE d == n * k
           u == BlendWindow
           v == BlendLifetime
           x == u * bytes * k + v * total * n
<1>1. u \in Nat /\ v \in Nat /\ u + v <= 10
  BY BehaviorAssumption DEF BehaviorAssumption, WeightsBlend
<1>2. d \in Nat \ {0} /\ b * d \in Nat
  OBVIOUS
<1> HIDE DEF u, v
<1>3. u * bytes * k <= u * (b * d) /\ u * bytes * k \in Nat
  <2>1. bytes * k <= (b * n) * k /\ (b * n) * k = b * d
    OBVIOUS
  <2>2. u * bytes * k = u * (bytes * k) /\ bytes * k \in Nat
    BY <1>1
  <2> DEFINE p == bytes * k
             q == b * d
  <2>3. p \in Nat /\ q \in Nat /\ p <= q
    BY <1>2, <2>1, <2>2
  <2> HIDE DEF p, q
  <2>4. u * p <= u * q /\ u * p \in Nat
    BY <1>1, <2>3
  <2> QED BY <2>2, <2>4 DEF p, q
<1>4. v * total * n <= v * (b * d) /\ v * total * n \in Nat
  <2>1. total * n <= (b * k) * n /\ (b * k) * n = b * d
    OBVIOUS
  <2>2. v * total * n = v * (total * n) /\ total * n \in Nat
    BY <1>1
  <2> DEFINE p == total * n
             q == b * d
  <2>3. p \in Nat /\ q \in Nat /\ p <= q
    BY <1>2, <2>1, <2>2
  <2> HIDE DEF p, q
  <2>4. v * p <= v * q /\ v * p \in Nat
    BY <1>1, <2>3
  <2> QED BY <2>2, <2>4 DEF p, q
<1>5. /\ 10 * n * k = 10 * d /\ 10 * d \in Nat \ {0}
      /\ b * (10 * d) = 10 * (b * d)
  OBVIOUS
<1>6. u * (b * d) + v * (b * d) <= 10 * (b * d)
  <2> DEFINE q == b * d
  <2>1. q \in Nat
    BY <1>2
  <2> HIDE DEF q
  <2>2. u * q + v * q = (u + v) * q /\ (u + v) * q <= 10 * q
    BY <1>1, <2>1
  <2> QED BY <2>2 DEF q
<1>7. x \in Nat /\ x <= b * (10 * d)
  <2> DEFINE q == b * d
             xu == u * bytes * k
             xv == v * total * n
             yu == u * q
             yv == v * q
  <2>1. q \in Nat /\ yu \in Nat /\ yv \in Nat
    BY <1>1, <1>2
  <2>2. xu \in Nat /\ xv \in Nat /\ xu <= yu /\ xv <= yv
        /\ yu + yv <= 10 * q /\ x = xu + xv /\ b * (10 * d) = 10 * q
    BY <1>3, <1>4, <1>5, <1>6
  <2> HIDE DEF q, xu, xv, yu, yv, x
  <2>3. x \in Nat /\ x <= 10 * q
    BY <2>1, <2>2
  <2> QED BY <2>2, <2>3
<1> HIDE DEF d, x
<1>8. x \div (10 * d) <= b
  BY <1>5, <1>7, QuotientBound
<1> QED BY <1>5, <1>8 DEF x, u, v

LEMMA AverageBound ==
  ASSUME WeightsBlend, RecordsInv, NEW b \in Sizes, Bounds(b),
         sum <= b * count
  PROVE  GetBehaviorStats.average <= b
<1> DEFINE S == InWindow
           n == Cardinality(S)
<1>1. b \in Nat /\ sum \in Nat /\ count \in Nat
  BY SizesNat DEF RecordsInv, BehaviorTypeOK
<1>2. CASE S = {}
  BY <1>1, <1>2 DEF GetBehaviorStats
<1>3. CASE S # {}
  <2>1. IsFiniteSet(S) /\ n \in Nat /\ n # 0
    <3>1. S \subseteq entries
      BY DEF InWindow
    <3>2. IsFiniteSet(S)
      BY <3>1, FS_Subset DEF RecordsInv
    <3> QED BY <1>3, <3>2, FS_CardinalityType, FS_EmptySet
  <2>2. \A e \in S : e.bytes \in 0 .. b
    <3>1. ASSUME NEW e \in S PROVE e.bytes \in 0 .. b
      <4>1. e \in Records /\ e \in ToSet(begun)
        BY DEF InWindow, RecordsInv, BehaviorTypeOK
      <4>2. e.bytes \in Nat /\ e.bytes <= b
        BY <4>1, RecordFields, SizesNat DEF Bounds
      <4> QED BY <1>1, <4>2
    <3> QED BY <3>1
  <2>3. BytesOf(S) \in 0 .. b * n
    <3> HIDE DEF S
    <3> QED BY <1>1, <2>1, <2>2, BytesBound
  <2>4. BytesOf(S) \in Nat /\ BytesOf(S) <= b * n
    <3>1. b * n \in Nat
      BY <1>1, <2>1
    <3> QED BY <2>3, <3>1
  <2>5. GetBehaviorStats.average = AverageOf(S)
    BY <1>3 DEF GetBehaviorStats
  <2>6. CASE count > 0
    <3>1. (BlendWindow * BytesOf(S) * count + BlendLifetime * sum * n)
            \div (10 * n * count) <= b
      <4> HIDE DEF S, n
      <4> QED BY <1>1, <2>1, <2>4, <2>6, BlendBound
    <3> QED BY <2>5, <2>6, <3>1 DEF AverageOf
  <2>7. CASE ~(count > 0)
    <3>1. BytesOf(S) \div n <= b
      <4> HIDE DEF S, n
      <4> QED BY <1>1, <2>1, <2>4, QuotientBound
    <3> QED BY <2>5, <2>7, <3>1 DEF AverageOf
  <2> QED BY <2>6, <2>7
<1> QED BY <1>2, <1>3

\* Between pipelines the average of a user is one of requests: no larger than
\* the largest of them, for any number of streams and records, as long as no
\* pipeline broke and no TTL ended within one.
THEOREM AverageTheorem ==
  ASSUME ~TTLsRace, WeightsBlend
  PROVE  BehaviorSpec => []AverageSettles
<1>1. BehaviorInit => TotalsInv
  <2> SUFFICES ASSUME BehaviorInit PROVE TotalsInv
    OBVIOUS
  <2>1. Busy = {} /\ Between = {} /\ sum = 0 /\ count = 0
        /\ \A c \in Callers : cmd[c] = "none"
    BY DEF BehaviorInit, Busy, Between
  <2>2. \A b \in Sizes : 0 <= b * (0 + 0)
    BY SizesNat
  <2> QED BY <2>1, <2>2, FS_EmptySet, RecordsInit DEF TotalsInv
<1>2. TotalsInv /\ [BehaviorNext]_bvars => TotalsInv'
  BY TotalsNext
<1>3. TotalsInv => AverageSettles
  <2> SUFFICES ASSUME TotalsInv, Quiescent, ~broke,
                      NEW b \in Sizes, \A e \in ToSet(begun) : e.bytes <= b
               PROVE  GetBehaviorStats.average <= b
    BY DEF AverageSettles, AverageIsOfRequests
  <2>1. Between = {} /\ Cardinality(Between) = 0
    BY FS_EmptySet DEF Quiescent, Between
  <2>2. sum <= b * (count + 0) /\ count + 0 = count
    BY <2>1, TotalsNumbers DEF TotalsInv, Bounds
  <2> QED BY <2>2, AverageBound DEF TotalsInv, Bounds
<1> QED BY <1>1, <1>2, <1>3, PTL DEF BehaviorSpec

-----------------------------------------------------------------------------
\* The series the books are kept in.
LEMMA SeriesNames ==
  /\ {<<"resolutions", "all">>, <<"bytes_streamed", "all">>,
      <<"requests", "200">>, <<"requests", "429">>, <<"requests", "502">>,
      <<"kills", "ceiling">>, <<"kills", "graduated">>,
      <<"decisions", "kill">>, <<"violations", "terminate">>} \subseteq Series
  /\ {x \in Series : x[1] = "requests"} =
       {<<"requests", "200">>, <<"requests", "429">>, <<"requests", "502">>}
  /\ {x \in Series : x[1] = "kills"} =
       {<<"kills", "ceiling">>, <<"kills", "graduated">>}
  BY DEF Series, Grades, Outcomes

LEMMA Totals ==
  ASSUME counter \in [Series -> Nat]
  PROVE  /\ Total("requests") = counter[<<"requests", "200">>]
              + counter[<<"requests", "429">>] + counter[<<"requests", "502">>]
         /\ Total("kills") = counter[<<"kills", "ceiling">>]
                             + counter[<<"kills", "graduated">>]
<1>1. \A name : Total(name) = SumOver(counter, {x \in Series : x[1] = name})
  BY Zenon DEF Total, SumOver
<1>2. \A x \in Series : counter[x] \in Nat
  OBVIOUS
<1>3. Total("requests") = counter[<<"requests", "200">>]
        + counter[<<"requests", "429">>] + counter[<<"requests", "502">>]
  <2> DEFINE a == <<"requests", "200">>
             b == <<"requests", "429">>
             c == <<"requests", "502">>
             A == {a}
             B == {a, b}
             C == {a, b, c}
  <2>1. /\ a # b /\ a # c /\ b # c /\ C = {x \in Series : x[1] = "requests"}
        /\ counter[a] \in Nat /\ counter[b] \in Nat /\ counter[c] \in Nat
    BY <1>2, SeriesNames
  <2>2. Total("requests") = SumOver(counter, C)
    BY <1>1, <2>1, Zenon
  <2> HIDE DEF a, b, c
  <2>3. Joins(a, {}, A) /\ Joins(b, A, B) /\ Joins(c, B, C)
    BY <2>1 DEF Joins
  <2>4. \A x \in C : counter[x] \in Int
    BY <2>1
  <2>5. A \subseteq C /\ B \subseteq C
    OBVIOUS
  <2> HIDE DEF A, B, C
  <2>6. IsFiniteSet(A) /\ SumOver(counter, A) = 0 + counter[a]
    BY <2>3, <2>4, <2>5, FS_EmptySet, SumOverEmpty, SumOverAdd
  <2>7. IsFiniteSet(B) /\ SumOver(counter, B) = SumOver(counter, A) + counter[b]
    BY <2>3, <2>4, <2>5, <2>6, SumOverAdd
  <2>8. SumOver(counter, C) = SumOver(counter, B) + counter[c]
    BY <2>3, <2>4, <2>7, SumOverAdd
  <2> QED BY <2>1, <2>2, <2>6, <2>7, <2>8 DEF a, b, c
<1>4. Total("kills") = counter[<<"kills", "ceiling">>]
                       + counter[<<"kills", "graduated">>]
  <2> DEFINE a == <<"kills", "ceiling">>
             b == <<"kills", "graduated">>
             A == {a}
             B == {a, b}
  <2>1. /\ a # b /\ B = {x \in Series : x[1] = "kills"}
        /\ counter[a] \in Nat /\ counter[b] \in Nat
    BY <1>2, SeriesNames
  <2>2. Total("kills") = SumOver(counter, B)
    BY <1>1, <2>1, Zenon
  <2> HIDE DEF a, b
  <2>3. Joins(a, {}, A) /\ Joins(b, A, B)
    BY <2>1 DEF Joins
  <2>4. (\A x \in A : counter[x] \in Int) /\ (\A x \in B : counter[x] \in Int)
    BY <2>1
  <2> HIDE DEF A, B
  <2>5. IsFiniteSet(A) /\ SumOver(counter, A) = 0 + counter[a]
    BY <2>3, <2>4, FS_EmptySet, SumOverEmpty, SumOverAdd
  <2>6. SumOver(counter, B) = SumOver(counter, A) + counter[b]
    BY <2>3, <2>4, <2>5, SumOverAdd
  <2> QED BY <2>1, <2>2, <2>5, <2>6 DEF a, b
<1> QED BY <1>3, <1>4

-----------------------------------------------------------------------------
\* The books of /metrics: what CountersReconcile says, in single series.
Count(name, label) == counter[<<name, label>>]

Resolved == Count("resolutions", "all")
Answered == Count("requests", "200") + Count("requests", "429")
            + Count("requests", "502")
Kills    == Count("kills", "ceiling") + Count("kills", "graduated")
Streamed == Count("bytes_streamed", "all")
TooMany  == Count("requests", "429")
KillDecisions  == Count("decisions", "kill")
GraduatedKills == Count("kills", "graduated")
Terminations   == Count("violations", "terminate")

Active == {s \in Streams : pc[s] \in Running}
Doomed == {s \in Streams : monitor[s].killed /\ pc[s] = "finalize"}

\* The bytes of each stream that are counted.
Worths ==
  [s \in Streams |->
     IF outcome[s] = "write_error"
     THEN monitor[s].totalBytes - chunk[s].size ELSE delivered[s]]

Books ==
  /\ Resolved = Answered + Cardinality(Bypassed) + Cardinality(Enforced)
  /\ activeStreams = Cardinality(Active)
  /\ Kills = KillDecisions
  /\ Kills = TooMany + Cardinality(Doomed)
  /\ GraduatedKills = Terminations
  /\ Streamed = SumOver(Worths, Streams)

BooksTypeOK == counter \in [Series -> Nat] /\ activeStreams \in Int

LEMMA BooksReconcile ==
  ASSUME IsFiniteSet(Streams), BooksTypeOK, Books
  PROVE  CountersReconcile
<1>1. SumOver(Worths, Streams) =
        MapThenSumSet(
          LAMBDA s : IF outcome[s] = "write_error"
                     THEN monitor[s].totalBytes - chunk[s].size ELSE delivered[s],
          Streams)
  <2> DEFINE w(s) == IF outcome[s] = "write_error"
                     THEN monitor[s].totalBytes - chunk[s].size ELSE delivered[s]
             Rule(g) == g = [T \in SUBSET Streams |->
                               IF T = {} THEN 0
                               ELSE w(CHOOSE x \in T : TRUE)
                                      + g[T \ {CHOOSE x \in T : TRUE}]]
             G == CHOOSE g : Rule(g)
  <2>1. MapThenSumSet(
          LAMBDA s : IF outcome[s] = "write_error"
                     THEN monitor[s].totalBytes - chunk[s].size ELSE delivered[s],
          Streams) = G[Streams]
    BY Zenon DEF MapThenSumSet, MapThenFoldSet
  <2>2. \A T \in SUBSET Streams : T # {} =>
          Worths[Pick(T)] = w(CHOOSE x \in T : TRUE)
    BY DEF Worths, Pick
  <2> HIDE DEF w
  <2>3. ASSUME NEW g
        PROVE  Rule(g) <=> Sums(g, Worths, Streams)
    BY <2>2 DEF Sums, Pick
  <2>4. PICK g : Sums(g, Worths, Streams) /\ SumOver(Worths, Streams) = g[Streams]
    BY SumOverSums
  <2>5. Rule(G)
    <3> HIDE DEF Rule
    <3>1. \E h : Rule(h)
      BY <2>3, <2>4
    <3> QED BY <3>1
  <2>6. Sums(G, Worths, Streams)
    BY <2>3, <2>5
  <2> HIDE DEF G
  <2>7. g[Streams] = G[Streams]
    BY <2>4, <2>6, SumsAgree
  <2> QED BY <2>1, <2>4, <2>7
<1>2. /\ Total("requests") = Answered
      /\ Total("kills") = Kills
  BY Totals DEF BooksTypeOK, Answered, Kills, Count
<1>3. /\ TooMany = counter[<<"requests", "429">>]
      /\ KillDecisions = counter[<<"decisions", "kill">>]
      /\ GraduatedKills = counter[<<"kills", "graduated">>]
      /\ Terminations = counter[<<"violations", "terminate">>]
      /\ Resolved = counter[<<"resolutions", "all">>]
      /\ Streamed = counter[<<"bytes_streamed", "all">>]
  BY DEF Resolved, Streamed, TooMany, KillDecisions, GraduatedKills,
         Terminations, Count
<1>4. Doomed = {s \in Streams : monitor[s].killed /\ pc[s] = "finalize"}
      /\ Active = {s \in Streams : pc[s] \in Running}
  BY DEF Doomed, Active
<1> QED
  BY <1>1, <1>2, <1>3, Zenon DEF Books, CountersReconcile, Doomed, Active

\* A step moves the series by what it changes of its own stream.
In(s, A) == IF s \in A THEN 1 ELSE 0

Balanced(s) ==
  /\ (Resolved - Answered - In(s, Bypassed) - In(s, Enforced))' =
       Resolved - Answered - In(s, Bypassed) - In(s, Enforced)
  /\ (activeStreams - In(s, Active))' = activeStreams - In(s, Active)
  /\ (Kills - KillDecisions)' = Kills - KillDecisions
  /\ (Kills - TooMany - In(s, Doomed))' =
       Kills - TooMany - In(s, Doomed)
  /\ (GraduatedKills - Terminations)' =
       GraduatedKills - Terminations
  /\ (Streamed - Worths[s])' = Streamed - Worths[s]

Aside(t) ==
  /\ request'[t] = request[t] /\ pc'[t] = pc[t] /\ monitor'[t] = monitor[t]
  /\ chunk'[t] = chunk[t] /\ outcome'[t] = outcome[t]
  /\ delivered'[t] = delivered[t]

NumbersOK ==
  /\ \A s \in Streams : Worths[s] \in Int
  /\ activeStreams \in Int
  /\ TooMany \in Int /\ GraduatedKills \in Int
  /\ KillDecisions \in Int
  /\ Terminations \in Int
  /\ Resolved \in Int /\ Answered \in Int /\ Kills \in Int /\ Streamed \in Int

LEMMA Numbers == TypeOK /\ BooksTypeOK => NumbersOK
<1> SUFFICES ASSUME TypeOK, BooksTypeOK PROVE NumbersOK
  OBVIOUS
<1>1. ASSUME NEW s \in Streams PROVE Worths[s] \in Int
  BY StreamNumbers DEF Worths
<1>2. \A x \in Series : counter[x] \in Nat
  BY DEF BooksTypeOK
<1>3. /\ Count("requests", "200") \in Nat /\ TooMany \in Nat
      /\ Count("requests", "502") \in Nat
      /\ Count("kills", "ceiling") \in Nat /\ GraduatedKills \in Nat
      /\ KillDecisions \in Nat
      /\ Terminations \in Nat
      /\ Resolved \in Nat /\ Streamed \in Nat
  BY <1>2, SeriesNames DEF Count, Resolved, Streamed, TooMany,
                           KillDecisions, GraduatedKills, Terminations
<1>4. Answered \in Int /\ Kills \in Int
  BY <1>3 DEF Answered, Kills, TooMany, GraduatedKills
<1> QED BY <1>1, <1>3, <1>4 DEF NumbersOK, BooksTypeOK

LEMMA BooksStep ==
  ASSUME IsFiniteSet(Streams), TypeOK, TypeOK', BooksTypeOK, BooksTypeOK', Books,
         NEW s \in Streams, \A t \in Streams \ {s} : Aside(t), Balanced(s)
  PROVE  Books'
<1>0. NumbersOK /\ NumbersOK'
  BY Numbers, PTL
<1>1. /\ Bypassed \subseteq Streams /\ Bypassed' \subseteq Streams
      /\ Bypassed \ {s} = Bypassed' \ {s}
  BY DEF Bypassed, Aside
<1>2. /\ Enforced \subseteq Streams /\ Enforced' \subseteq Streams
      /\ Enforced \ {s} = Enforced' \ {s}
  BY DEF Enforced, Aside
<1>3. /\ Active \subseteq Streams /\ Active' \subseteq Streams
      /\ Active \ {s} = Active' \ {s}
  BY DEF Active, Aside
<1>4. /\ Doomed \subseteq Streams /\ Doomed' \subseteq Streams
      /\ Doomed \ {s} = Doomed' \ {s}
  BY DEF Doomed, Aside
<1>5. SumOver(Worths', Streams) =
        SumOver(Worths, Streams) + (Worths'[s] - Worths[s])
  <2>1. \A t \in Streams : Worths[t] \in Int /\ Worths'[t] \in Int
    BY <1>0 DEF NumbersOK
  <2>2. \A t \in Streams \ {s} : Worths[t] = Worths'[t]
    BY DEF Worths, Aside
  <2> QED BY <2>1, <2>2, SumOverUpdate
<1>6. /\ Cardinality(Bypassed) \in Nat /\ Cardinality(Bypassed') \in Nat
      /\ Cardinality(Bypassed') = Cardinality(Bypassed)
                                  + (In(s, Bypassed))' - In(s, Bypassed)
  BY <1>1, CardinalityUpdate DEF In
<1>7. /\ Cardinality(Enforced) \in Nat /\ Cardinality(Enforced') \in Nat
      /\ Cardinality(Enforced') = Cardinality(Enforced)
                                  + (In(s, Enforced))' - In(s, Enforced)
  BY <1>2, CardinalityUpdate DEF In
<1>8. /\ Cardinality(Active) \in Nat /\ Cardinality(Active') \in Nat
      /\ Cardinality(Active') = Cardinality(Active)
                                + (In(s, Active))' - In(s, Active)
  BY <1>3, CardinalityUpdate DEF In
<1>9. /\ Cardinality(Doomed) \in Nat /\ Cardinality(Doomed') \in Nat
      /\ Cardinality(Doomed') = Cardinality(Doomed)
                                + (In(s, Doomed))' - In(s, Doomed)
  BY <1>4, CardinalityUpdate DEF In
<1>10. /\ In(s, Bypassed) \in Int /\ In(s, Enforced) \in Int
       /\ In(s, Active) \in Int /\ In(s, Doomed) \in Int
       /\ (In(s, Bypassed))' \in Int /\ (In(s, Enforced))' \in Int
       /\ (In(s, Active))' \in Int /\ (In(s, Doomed))' \in Int
  BY DEF In
<1>11. SumOver(Worths, Streams) \in Int
  BY <1>0 DEF Books, NumbersOK
<1>12. Worths[s] \in Int /\ (Worths[s])' \in Int
  BY <1>0 DEF NumbersOK
<1>13. (Resolved = Answered + Cardinality(Bypassed) + Cardinality(Enforced))'
  BY <1>0, <1>6, <1>7, <1>10 DEF Books, Balanced, NumbersOK
<1>14. (activeStreams = Cardinality(Active))'
  BY <1>0, <1>8, <1>10 DEF Books, Balanced, NumbersOK
<1>15. (Kills = KillDecisions)'
  BY <1>0 DEF Books, Balanced, NumbersOK
<1>16. (Kills = TooMany + Cardinality(Doomed))'
  BY <1>0, <1>9, <1>10 DEF Books, Balanced, NumbersOK
<1>17. (GraduatedKills = Terminations)'
  <2>1. GraduatedKills' - Terminations' = GraduatedKills - Terminations
    BY DEF Balanced
  <2>2. /\ GraduatedKills = Terminations
        /\ GraduatedKills \in Int /\ Terminations \in Int
        /\ GraduatedKills' \in Int /\ Terminations' \in Int
    BY <1>0 DEF Books, NumbersOK
  <2>3. \A u, v, x, y \in Int : u - v = x - y /\ x = y => u = v
    OBVIOUS
  <2> QED BY <2>1, <2>2, <2>3
<1>18. (SumOver(Worths, Streams))' = SumOver(Worths', Streams)
  OBVIOUS
<1>19. Streamed' - (Worths[s])' = Streamed - Worths[s]
  BY DEF Balanced
<1>20. Streamed = SumOver(Worths, Streams)
  BY DEF Books
<1>21. (Worths[s])' = Worths'[s]
  OBVIOUS
<1>22. (Streamed = SumOver(Worths, Streams))'
  BY <1>0, <1>5, <1>11, <1>12, <1>18, <1>19, <1>20, <1>21 DEF NumbersOK
<1> QED BY <1>13, <1>14, <1>15, <1>16, <1>17, <1>22 DEF Books

USE DEF incoming, ledger, Cancel, Forward, Permits, Recorded

\* A bypassed stream runs under limits it cannot reach: no payload fills its
\* share of 2^62 bytes.
TrafficBounded ==
  /\ IsFiniteSet(Streams)
  /\ \A n \in ChunkSizes : MaxChunks * n <= NoLimit

Unlimited(s) ==
  /\ monitor[s].decision.allowed = NoLimit
  /\ monitor[s].decision.ceiling = NoLimit
  /\ MaxChunks * monitor[s].totalBytes <= NoLimit * monitor[s].chunkCount
  /\ monitor[s].chunkCount <= MaxChunks
  /\ ~monitor[s].killed
  /\ pc[s] # "evaluate"

\* An outcome is that of a stream that left the loop.
Path(s) ==
  /\ pc[s] \notin {"finalize", "done"} => outcome[s] = "none"
  /\ request[s].bypass /\ pc[s] \in Running => Unlimited(s)

PathInv == \A s \in Streams : Path(s)

LEMMA ShareOfLimit ==
  ASSUME NEW total \in Nat, NEW n \in Nat, NEW k \in Nat, NEW M \in Nat,
         NEW L \in Nat, M * total <= L * k, M * n <= L, k < M
  PROVE  M * (total + n) <= L * (k + 1) /\ total + n <= L
<1>1. /\ M * (total + n) = M * total + M * n /\ L * (k + 1) = L * k + L
      /\ M * total \in Nat /\ M * n \in Nat /\ L * k \in Nat
  OBVIOUS
<1>2. M * (total + n) <= L * (k + 1)
  <2> DEFINE a == M * total
             b == M * n
             c == L * k
  <2>1. /\ a \in Nat /\ b \in Nat /\ c \in Nat /\ a <= c /\ b <= L
        /\ M * (total + n) = a + b /\ L * (k + 1) = c + L
    BY <1>1
  <2> HIDE DEF a, b, c
  <2> QED BY <2>1
<1>3. L * (k + 1) <= M * L
  <2>1. k + 1 <= M
    OBVIOUS
  <2> QED BY <2>1
<1>4. CASE total + n >= L + 1
  <2> DEFINE q == total + n
  <2>1. q \in Nat /\ q >= L + 1
    BY <1>4
  <2> HIDE DEF q
  <2>2. M * q >= M * (L + 1) /\ M * (L + 1) = M * L + M /\ M >= 1
    BY <2>1
  <2>3. M * q \in Nat /\ M * L \in Nat /\ L * (k + 1) \in Nat
    BY <2>1
  <2>4. M * q <= L * (k + 1)
    BY <1>2 DEF q
  <2> QED BY <1>3, <2>2, <2>3, <2>4
<1>5. CASE total + n <= L
  BY <1>2, <1>5
<1> QED BY <1>4, <1>5

LEMMA AsidePath ==
  ASSUME NEW t \in Streams, Path(t), Aside(t)
  PROVE  Path(t)'
  BY DEF Path, Unlimited, Aside

\* A stream starts.
LEMMA StartEffect ==
  ASSUME TypeOK, NEW s \in Streams, Start(s), Path(s)
  PROVE  /\ Path(s)' /\ \A t \in Streams \ {s} : Aside(t)
         /\ pc[s] = "idle" /\ request' = request
         /\ pc'[s] \in {"select", "refused"}
         /\ UNCHANGED <<chunk, outcome, delivered>>
<1>1. CASE BackendUnavailable(s)
  BY <1>1 DEF BackendUnavailable, TypeOK, Aside, Path, Running
<1>2. ASSUME NEW h \in Histories, StartEnforced(s, h)
      PROVE  /\ Path(s)' /\ \A t \in Streams \ {s} : Aside(t)
             /\ pc'[s] = "select"
  BY <1>2 DEF StartEnforced, TypeOK, Aside, Path
<1>3. CASE StartBypassed(s)
  <2>1. /\ pc'[s] = "select" /\ \A t \in Streams \ {s} : Aside(t)
        /\ monitor'[s] = NewMonitor(UniformDecision(NoLimit))
        /\ pc[s] = "idle" /\ outcome' = outcome
    BY <1>3 DEF StartBypassed, TypeOK, Aside
  <2>2. /\ monitor'[s].decision.allowed = NoLimit
        /\ monitor'[s].decision.ceiling = NoLimit
        /\ monitor'[s].totalBytes = 0 /\ monitor'[s].chunkCount = 0
        /\ ~monitor'[s].killed
    BY <2>1 DEF NewMonitor, UniformDecision
  <2>3. MaxChunks \in Nat /\ NoLimit \in Nat
    BY MonitorAssumption DEF MonitorAssumption
  <2>4. MaxChunks * 0 <= NoLimit * 0 /\ 0 <= MaxChunks
    BY <2>3
  <2>5. Path(s)'
    BY <2>1, <2>2, <2>4 DEF Path, Unlimited
  <2> QED BY <1>3, <2>1, <2>5 DEF StartBypassed
<1>4. /\ pc[s] = "idle" /\ request' = request
      /\ UNCHANGED <<chunk, outcome, delivered>>
  BY DEF Start, StartEnforced, StartBypassed, BackendUnavailable
<1>5. BackendUnavailable(s) => pc'[s] = "refused"
  BY DEF BackendUnavailable, TypeOK
<1> QED BY <1>1, <1>2, <1>3, <1>4, <1>5 DEF Start

\* A chunk arrives: the stream is killed, which no bypassed one is, or goes on.
LEMMA RecvChunkEffect ==
  ASSUME TypeOK, StreamInv, TrafficBounded, NEW s \in Streams, Path(s),
         NEW size \in ChunkSizes, NEW last \in BOOLEAN, NEW rate \in Rates,
         RecvChunk(s, size, last, rate)
  PROVE  /\ Path(s)' /\ \A t \in Streams \ {s} : Aside(t)
         /\ pc[s] = "recv" /\ outcome[s] = "none" /\ ~monitor[s].killed
         /\ UNCHANGED <<request, delivered>>
         /\ \/ /\ monitor'[s].killed /\ pc'[s] = "finalize"
               /\ outcome'[s] = "killed" /\ ~request[s].bypass
            \/ /\ ~monitor'[s].killed /\ pc'[s] \in {"evaluate", "write"}
               /\ outcome'[s] = "none"
<1> DEFINE m == Observed(monitor[s], request[s], size, rate)
           d == monitor[s].decision
           breach == ShouldKill(m.totalBytes, m.decision)
<1>1. /\ size \in Nat /\ rate \in Nat /\ MaxChunks \in Nat /\ NoLimit \in Nat
      /\ MaxChunks * size <= NoLimit
  BY MonitorAssumption DEF MonitorAssumption, TrafficBounded
<1>2. /\ m \in MonitorState
      /\ m.totalBytes = monitor[s].totalBytes + size
      /\ m.chunkCount = monitor[s].chunkCount + 1
      /\ m.decision.allowed = d.allowed
      /\ m.decision.ceiling = d.ceiling
      /\ m.killed = monitor[s].killed
  BY <1>1, StreamNumbers, ObservedType
<1>3. /\ monitor[s] \in MonitorState /\ monitor[s].totalBytes \in Nat
      /\ monitor[s].chunkCount \in Nat
  BY StreamNumbers DEF MonitorState
<1>4. /\ pc[s] = "recv" /\ monitor[s].chunkCount < MaxChunks
      /\ UNCHANGED <<request, delivered>>
      /\ chunk' = [chunk EXCEPT ![s] = [size |-> size, last |-> last]]
      /\ \/ breach = "hard" /\ HardKill(s, m)
         \/ /\ breach = "soft"
            /\ monitor' = [monitor EXCEPT ![s] = Charged(m)]
            /\ pc' = [pc EXCEPT ![s] = "evaluate"]
            /\ outcome' = outcome
         \/ /\ monitor' = [monitor EXCEPT ![s] = AfterThrottleCheck(m)]
            /\ pc' = [pc EXCEPT ![s] = "write"]
            /\ outcome' = outcome
  BY DEF RecvChunk
<1> HIDE DEF m
<1>5. Grading(s)
  BY DEF StreamInv
<1>6. outcome[s] = "none" /\ ~monitor[s].killed
  BY <1>4, <1>5 DEF Path, Grading
<1>7. \A t \in Streams \ {s} : Aside(t)
  BY <1>4 DEF TypeOK, Aside, HardKill, LeaveLoop
<1>8. request[s].bypass =>
        /\ Unlimited(s) /\ breach = "none"
        /\ MaxChunks * m.totalBytes <= NoLimit * m.chunkCount
        /\ m.chunkCount <= MaxChunks
  <2> SUFFICES ASSUME request[s].bypass
               PROVE  /\ Unlimited(s) /\ breach = "none"
                      /\ MaxChunks * m.totalBytes <= NoLimit * m.chunkCount
                      /\ m.chunkCount <= MaxChunks
    OBVIOUS
  <2>1. Unlimited(s)
    BY <1>4 DEF Path, Running
  <2>2. /\ MaxChunks * m.totalBytes <= NoLimit * m.chunkCount
        /\ m.totalBytes <= NoLimit
    <3> DEFINE total == monitor[s].totalBytes
               k == monitor[s].chunkCount
    <3>1. /\ total \in Nat /\ k \in Nat /\ k < MaxChunks
          /\ MaxChunks * total <= NoLimit * k
      BY <1>3, <1>4, <2>1 DEF Unlimited
    <3>2. m.totalBytes = total + size /\ m.chunkCount = k + 1
      BY <1>2
    <3> HIDE DEF total, k
    <3>3. /\ MaxChunks * (total + size) <= NoLimit * (k + 1)
          /\ total + size <= NoLimit
      BY <1>1, <3>1, ShareOfLimit
    <3> QED BY <3>2, <3>3
  <2>3. m.totalBytes \in Nat
    BY <1>2 DEF MonitorState
  <2>4. breach = "none"
    BY <1>1, <1>2, <2>1, <2>2, <2>3 DEF ShouldKill, Unlimited
  <2> QED BY <1>1, <1>2, <1>3, <1>4, <2>1, <2>2, <2>4
<1>9. CASE breach = "hard" /\ HardKill(s, m)
  <2>1. /\ pc'[s] = "finalize" /\ outcome'[s] = "killed"
        /\ monitor'[s] = [m EXCEPT !.killed = TRUE]
    BY <1>9 DEF HardKill, LeaveLoop, TypeOK
  <2>2. monitor'[s].killed
    BY <1>2, <2>1 DEF MonitorState
  <2>3. ~request[s].bypass
    BY <1>8, <1>9
  <2> QED BY <1>4, <1>6, <1>7, <2>1, <2>2, <2>3 DEF Path
<1>10. CASE /\ breach = "soft"
            /\ monitor' = [monitor EXCEPT ![s] = Charged(m)]
            /\ pc' = [pc EXCEPT ![s] = "evaluate"]
            /\ outcome' = outcome
  <2>1. pc'[s] = "evaluate" /\ monitor'[s] = Charged(m)
    BY <1>10 DEF TypeOK
  <2>2. ~monitor'[s].killed
    BY <1>2, <1>6, <2>1 DEF Charged, MonitorState
  <2>3. ~request[s].bypass
    BY <1>8, <1>10
  <2> QED BY <1>4, <1>6, <1>7, <1>10, <2>1, <2>2, <2>3 DEF Path
<1>11. CASE /\ monitor' = [monitor EXCEPT ![s] = AfterThrottleCheck(m)]
            /\ pc' = [pc EXCEPT ![s] = "write"]
            /\ outcome' = outcome
  <2>1. pc'[s] = "write" /\ monitor'[s] = AfterThrottleCheck(m)
    BY <1>11 DEF TypeOK
  <2>2. /\ ~monitor'[s].killed
        /\ monitor'[s].totalBytes = m.totalBytes
        /\ monitor'[s].chunkCount = m.chunkCount
        /\ monitor'[s].decision = m.decision
    BY <1>2, <1>6, <2>1, ThrottleCheckType
  <2>3. request[s].bypass => Unlimited(s)'
    BY <1>2, <1>8, <2>1, <2>2 DEF Unlimited
  <2> QED BY <1>4, <1>6, <1>7, <1>11, <2>1, <2>2, <2>3 DEF Path
<1> QED BY <1>4, <1>9, <1>10, <1>11

\* A grade arrives: the stream is killed unless the grade lets it go on.
LEMMA EvaluateReturnEffect ==
  ASSUME TypeOK, StreamInv, NEW s \in Streams, Path(s),
         NEW g \in Grades, EvaluateReturn(s, g)
  PROVE  /\ Path(s)' /\ \A t \in Streams \ {s} : Aside(t)
         /\ pc[s] = "evaluate" /\ outcome[s] = "none" /\ ~monitor[s].killed
         /\ ~request[s].bypass
         /\ UNCHANGED <<request, delivered, chunk>>
         /\ \/ /\ g = "terminate"
               /\ monitor'[s].killed /\ pc'[s] = "finalize"
               /\ outcome'[s] = "killed"
            \/ /\ g \in {"log_only", "throttle"}
               /\ ~monitor'[s].killed /\ pc'[s] = "write"
               /\ outcome'[s] = "none"
<1> DEFINE m == monitor[s]
<1>1. /\ pc[s] = "evaluate" /\ UNCHANGED <<request, delivered, chunk>>
      /\ \/ /\ g \in {"log_only", "throttle"}
            /\ monitor' = [monitor EXCEPT ![s] = AfterThrottleCheck(Graded(m, g))]
            /\ pc' = [pc EXCEPT ![s] = "write"]
            /\ outcome' = outcome
         \/ g \notin {"log_only", "throttle"} /\ HardKill(s, m)
  BY DEF EvaluateReturn
<1>2. outcome[s] = "none" /\ ~monitor[s].killed /\ ~request[s].bypass
  BY <1>1 DEF StreamInv, Grading, Path, Running, Unlimited
<1>3. \A t \in Streams \ {s} : Aside(t)
  BY <1>1 DEF TypeOK, Aside, HardKill, LeaveLoop
<1>4. CASE g \notin {"log_only", "throttle"} /\ HardKill(s, m)
  <2>1. /\ pc'[s] = "finalize" /\ outcome'[s] = "killed"
        /\ monitor'[s] = [m EXCEPT !.killed = TRUE]
    BY <1>4 DEF HardKill, LeaveLoop, TypeOK
  <2>2. monitor'[s].killed
    BY <2>1, StreamNumbers DEF MonitorState
  <2>3. g = "terminate"
    BY <1>4 DEF Grades
  <2> QED BY <1>1, <1>2, <1>3, <2>1, <2>2, <2>3 DEF Path
<1>5. CASE /\ g \in {"log_only", "throttle"}
           /\ monitor' = [monitor EXCEPT ![s] = AfterThrottleCheck(Graded(m, g))]
           /\ pc' = [pc EXCEPT ![s] = "write"]
           /\ outcome' = outcome
  <2> DEFINE a == Graded(m, g)
  <2>1. a \in MonitorState /\ a.killed = m.killed
    BY StreamNumbers, GradedType
  <2>2. pc'[s] = "write" /\ monitor'[s] = AfterThrottleCheck(a)
    BY <1>5 DEF TypeOK
  <2> HIDE DEF a
  <2>3. ~monitor'[s].killed
    BY <1>2, <2>1, <2>2, ThrottleCheckType
  <2> QED BY <1>1, <1>2, <1>3, <1>5, <2>2, <2>3 DEF Path
<1> QED BY <1>1, <1>4, <1>5

\* The client goes, the loop is left between chunks or goes on.
LEMMA QuietEffect ==
  ASSUME TypeOK, StreamInv, NEW s \in Streams, Path(s),
         \/ ClientDisconnect(s) \/ SelectClientGone(s) \/ SelectDefault(s)
         \/ RecvEOF(s) \/ RecvError(s)
  PROVE  /\ Path(s)' /\ \A t \in Streams \ {s} : Aside(t)
         /\ pc[s] \in Running /\ pc'[s] \in Running
         /\ UNCHANGED <<request, monitor, chunk, delivered>>
         /\ \/ pc'[s] = pc[s] /\ outcome'[s] = outcome[s]
            \/ /\ pc[s] # "finalize" /\ ~monitor[s].killed
               /\ outcome[s] = "none" /\ outcome'[s] # "write_error"
<1>1. Grading(s)
  BY DEF StreamInv
<1>2. CASE ClientDisconnect(s)
  BY <1>2 DEF ClientDisconnect, Aside, Path, Unlimited
<1>3. CASE SelectClientGone(s) \/ RecvEOF(s) \/ RecvError(s)
  <2>1. /\ pc[s] \in {"select", "recv"} /\ pc'[s] = "finalize"
        /\ UNCHANGED <<request, monitor, chunk, delivered>>
        /\ outcome'[s] # "write_error"
        /\ \A t \in Streams \ {s} : Aside(t)
    BY <1>3 DEF SelectClientGone, RecvEOF, RecvError, LeaveLoop, TypeOK, Aside
  <2> QED BY <1>1, <2>1 DEF Path, Unlimited, Grading, Running
<1>4. CASE SelectDefault(s)
  <2>1. /\ pc[s] = "select" /\ pc'[s] = "recv"
        /\ UNCHANGED <<request, monitor, chunk, delivered, outcome>>
        /\ \A t \in Streams \ {s} : Aside(t)
    BY <1>4 DEF SelectDefault, TypeOK, Aside
  <2> QED BY <1>1, <2>1 DEF Path, Unlimited, Grading, Running
<1> QED BY <1>2, <1>3, <1>4

LEMMA WriteEffect ==
  ASSUME TypeOK, StreamInv, NEW s \in Streams, Path(s),
         WriteOk(s) \/ \E n \in 0 .. chunk[s].size : WriteFail(s, n)
  PROVE  /\ Path(s)' /\ \A t \in Streams \ {s} : Aside(t)
         /\ pc[s] = "write" /\ pc'[s] \in {"select", "finalize"}
         /\ UNCHANGED <<request, monitor, chunk>>
         /\ ~monitor[s].killed /\ outcome[s] = "none"
         /\ WriteOk(s) => /\ delivered'[s] = delivered[s] + chunk[s].size
                          /\ outcome'[s] # "write_error"
         /\ ~WriteOk(s) => outcome'[s] = "write_error"
<1>1. Grading(s)
  BY DEF StreamInv
<1>2. /\ pc[s] = "write" /\ UNCHANGED <<request, monitor, chunk>>
      /\ pc'[s] \in {"select", "finalize"}
      /\ \A t \in Streams \ {s} : Aside(t)
      /\ pc'[s] = "select" => outcome' = outcome
  BY DEF WriteOk, WriteFail, LeaveLoop, TypeOK, Aside
<1>3. ~monitor[s].killed /\ outcome[s] = "none"
  BY <1>1, <1>2 DEF Grading, Path
<1>4. WriteOk(s) => /\ delivered'[s] = delivered[s] + chunk[s].size
                    /\ outcome'[s] # "write_error"
  BY <1>3 DEF WriteOk, LeaveLoop, TypeOK
<1>5. ~WriteOk(s) => outcome'[s] = "write_error"
  BY DEF WriteFail, LeaveLoop, TypeOK
<1>6. Path(s)'
  BY <1>2, <1>3 DEF Path, Unlimited, Running
<1> QED BY <1>2, <1>3, <1>4, <1>5, <1>6

LEMMA FinalizeEffect ==
  ASSUME TypeOK, NEW s \in Streams, Path(s), Finalize(s)
  PROVE  /\ Path(s)' /\ \A t \in Streams \ {s} : Aside(t)
         /\ pc[s] = "finalize" /\ pc'[s] = "done"
         /\ UNCHANGED <<request, monitor, chunk, outcome, delivered>>
         /\ request[s].bypass => ~monitor[s].killed
<1>1. /\ pc[s] = "finalize" /\ pc'[s] = "done"
      /\ UNCHANGED <<request, monitor, chunk, outcome, delivered>>
      /\ \A t \in Streams \ {s} : Aside(t)
  BY DEF Finalize, TypeOK, Aside
<1> QED BY <1>1 DEF Path, Unlimited, Running

\* Counting moves each series by one or not at all.
LEMMA IncSeries ==
  ASSUME BooksTypeOK, NEW S, Inc(S)
  PROVE  /\ counter' \in [Series -> Nat]
         /\ Resolved' = Resolved + In(<<"resolutions", "all">>, S)
         /\ Answered' = Answered + In(<<"requests", "200">>, S)
                        + In(<<"requests", "429">>, S) + In(<<"requests", "502">>, S)
         /\ TooMany' = TooMany + In(<<"requests", "429">>, S)
         /\ Kills' = Kills + In(<<"kills", "ceiling">>, S)
                     + In(<<"kills", "graduated">>, S)
         /\ GraduatedKills' = GraduatedKills + In(<<"kills", "graduated">>, S)
         /\ KillDecisions' = KillDecisions + In(<<"decisions", "kill">>, S)
         /\ Terminations' = Terminations + In(<<"violations", "terminate">>, S)
         /\ Streamed' = Streamed + In(<<"bytes_streamed", "all">>, S)
<1>1. \A x \in Series : counter[x] \in Nat /\ In(x, S) \in Nat
  BY DEF BooksTypeOK, In
<1>2. /\ counter' \in [Series -> Nat]
      /\ \A x \in Series : counter'[x] = counter[x] + In(x, S)
  BY <1>1 DEF Inc, In
<1>3. \A x \in {<<"resolutions", "all">>, <<"bytes_streamed", "all">>,
                <<"requests", "200">>, <<"requests", "429">>, <<"requests", "502">>,
                <<"kills", "ceiling">>, <<"kills", "graduated">>,
                <<"decisions", "kill">>, <<"violations", "terminate">>} :
        /\ counter[x] \in Nat /\ In(x, S) \in Nat
        /\ counter'[x] = counter[x] + In(x, S)
  BY <1>1, <1>2, SeriesNames
<1>4. /\ Resolved' = Resolved + In(<<"resolutions", "all">>, S)
      /\ TooMany' = TooMany + In(<<"requests", "429">>, S)
      /\ GraduatedKills' = GraduatedKills + In(<<"kills", "graduated">>, S)
      /\ KillDecisions' = KillDecisions + In(<<"decisions", "kill">>, S)
      /\ Terminations' = Terminations + In(<<"violations", "terminate">>, S)
      /\ Streamed' = Streamed + In(<<"bytes_streamed", "all">>, S)
  BY <1>3 DEF Resolved, TooMany, GraduatedKills, KillDecisions, Terminations,
              Streamed, Count
<1>5. Answered' = Answered + In(<<"requests", "200">>, S)
                  + In(<<"requests", "429">>, S) + In(<<"requests", "502">>, S)
  BY <1>3 DEF Answered, Count
<1>6. Kills' = Kills + In(<<"kills", "ceiling">>, S)
               + In(<<"kills", "graduated">>, S)
  BY <1>3 DEF Kills, Count
<1> QED BY <1>2, <1>4, <1>5, <1>6

LEMMA StartBalanced ==
  ASSUME TypeOK, BooksTypeOK, NEW s \in Streams, Path(s), StartCounted(s)
  PROVE  BooksTypeOK' /\ Balanced(s)
<1> DEFINE S == {<<"resolutions", "all">>}
                \cup If(pc'[s] = "refused" /\ ~request[s].bypass,
                        {<<"requests", "502">>})
<1>1. /\ Start(s) /\ Inc(S)
      /\ activeStreams' = activeStreams + IF pc'[s] = "select" THEN 1 ELSE 0
  BY DEF StartCounted
<1>2. /\ pc[s] = "idle" /\ request' = request /\ pc'[s] \in {"select", "refused"}
      /\ UNCHANGED <<chunk, outcome, delivered>> /\ Path(s)'
  BY <1>1, StartEffect
<1>3. /\ In(<<"resolutions", "all">>, S) = 1
      /\ In(<<"requests", "502">>, S) =
           IF pc'[s] = "refused" /\ ~request[s].bypass THEN 1 ELSE 0
      /\ In(<<"requests", "200">>, S) = 0 /\ In(<<"requests", "429">>, S) = 0
      /\ In(<<"kills", "ceiling">>, S) = 0 /\ In(<<"kills", "graduated">>, S) = 0
      /\ In(<<"decisions", "kill">>, S) = 0
      /\ In(<<"violations", "terminate">>, S) = 0
      /\ In(<<"bytes_streamed", "all">>, S) = 0
  BY DEF In, If
<1> HIDE DEF S
<1>4. outcome[s] = "none" /\ outcome'[s] = "none" /\ delivered'[s] = delivered[s]
  BY <1>2 DEF Path
<1>5. Worths'[s] = Worths[s] /\ Worths[s] \in Int
  BY <1>4, StreamNumbers DEF Worths
<1>6. /\ In(s, Bypassed) = 0 /\ In(s, Enforced) = 0
      /\ In(s, Active) = 0 /\ In(s, Doomed) = 0
      /\ (In(s, Bypassed))' = IF request[s].bypass THEN 1 ELSE 0
      /\ (In(s, Enforced))' =
           IF ~request[s].bypass /\ pc'[s] = "select" THEN 1 ELSE 0
      /\ (In(s, Active))' = IF pc'[s] = "select" THEN 1 ELSE 0
      /\ (In(s, Doomed))' = 0
  BY <1>2 DEF In, Bypassed, Enforced, Active, Doomed, Running
<1>7. request[s].bypass \in BOOLEAN
  BY MonitorAssumption DEF TypeOK, MonitorAssumption
<1>8. BooksTypeOK'
  BY <1>1, IncSeries DEF BooksTypeOK
<1>9. NumbersOK
  BY Numbers
<1> QED
  BY <1>1, <1>2, <1>3, <1>5, <1>6, <1>7, <1>8, <1>9, IncSeries
  DEF Balanced, NumbersOK, BooksTypeOK

\* A kill counts once among the kills and once among the decisions.
LEMMA RecvBalanced ==
  ASSUME TypeOK, StreamInv, TrafficBounded, BooksTypeOK, NEW s \in Streams, Path(s),
         RecvCounted(s)
  PROVE  /\ BooksTypeOK' /\ Balanced(s) /\ Path(s)'
         /\ \A t \in Streams \ {s} : Aside(t)
<1> DEFINE S == KillCounted(s, "ceiling")
                \cup If(~monitor[s].throttled /\ monitor'[s].throttled,
                        {<<"decisions", "throttle">>})
           killed == monitor'[s].killed
           Received ==
             /\ Path(s)' /\ \A t \in Streams \ {s} : Aside(t)
             /\ pc[s] = "recv" /\ ~monitor[s].killed /\ outcome[s] = "none"
             /\ pc'[s] \in Running /\ request' = request
             /\ delivered' = delivered /\ outcome'[s] # "write_error"
             /\ killed => pc'[s] = "finalize" /\ ~request[s].bypass
<1>1. Recv(s) /\ Inc(S) /\ activeStreams' = activeStreams
  BY DEF RecvCounted
<1>2. Received
  <2>1. CASE RecvEOF(s) \/ RecvError(s)
    <3>1. pc[s] = "recv"
      BY <2>1 DEF RecvEOF, RecvError
    <3>2. ~monitor[s].killed /\ outcome[s] = "none"
      BY <3>1 DEF StreamInv, Grading, Path
    <3> QED BY <2>1, <3>1, <3>2, QuietEffect
  <2>2. ASSUME NEW size \in ChunkSizes, NEW last \in BOOLEAN, NEW rate \in Rates,
               RecvChunk(s, size, last, rate)
        PROVE  Received
    BY <2>2, RecvChunkEffect DEF Running
  <2> QED BY <1>1, <2>1, <2>2 DEF Recv
<1>3. /\ In(<<"kills", "ceiling">>, S) = IF killed THEN 1 ELSE 0
      /\ In(<<"decisions", "kill">>, S) = IF killed THEN 1 ELSE 0
      /\ In(<<"resolutions", "all">>, S) = 0 /\ In(<<"requests", "502">>, S) = 0
      /\ In(<<"requests", "200">>, S) = 0 /\ In(<<"requests", "429">>, S) = 0
      /\ In(<<"kills", "graduated">>, S) = 0
      /\ In(<<"violations", "terminate">>, S) = 0
      /\ In(<<"bytes_streamed", "all">>, S) = 0
  BY DEF In, If, KillCounted
<1>4. Worths'[s] = Worths[s] /\ Worths[s] \in Int
  BY <1>2, StreamNumbers DEF Worths
<1>5. /\ (In(s, Bypassed))' = In(s, Bypassed) /\ In(s, Bypassed) \in Int
      /\ (In(s, Enforced))' = In(s, Enforced) /\ In(s, Enforced) \in Int
      /\ (In(s, Active))' = In(s, Active) /\ In(s, Active) \in Int
      /\ In(s, Doomed) = 0 /\ (In(s, Doomed))' = IF killed THEN 1 ELSE 0
  BY <1>2 DEF In, Bypassed, Enforced, Active, Doomed, Running
<1> HIDE DEF S, killed
<1>6. BooksTypeOK'
  BY <1>1, IncSeries DEF BooksTypeOK
<1>7. NumbersOK
  BY Numbers
<1>8. Balanced(s)
  BY <1>1, <1>3, <1>4, <1>5, <1>7, IncSeries DEF Balanced, NumbersOK
<1> QED BY <1>2, <1>6, <1>8

\* A kill at a soft breach is a violation graded terminate.
LEMMA EvaluateReturnBalanced ==
  ASSUME TypeOK, StreamInv, BooksTypeOK, NEW s \in Streams, Path(s),
         NEW g \in Grades, EvaluateReturnCounted(s, g)
  PROVE  /\ BooksTypeOK' /\ Balanced(s) /\ Path(s)'
         /\ \A t \in Streams \ {s} : Aside(t)
<1> DEFINE S == {<<"violations", g>>}
                \cup If(g = "log_only", {<<"decisions", "grace_log">>})
                \cup If(g = "throttle", {<<"decisions", "grace_throttle">>})
                \cup KillCounted(s, "graduated")
           killed == monitor'[s].killed
<1>1. EvaluateReturn(s, g) /\ Inc(S) /\ activeStreams' = activeStreams
  BY DEF EvaluateReturnCounted
<1>2. /\ Path(s)' /\ \A t \in Streams \ {s} : Aside(t)
      /\ pc[s] = "evaluate" /\ ~monitor[s].killed /\ outcome[s] = "none"
      /\ pc'[s] \in Running /\ request' = request /\ delivered' = delivered
      /\ outcome'[s] # "write_error"
      /\ killed => pc'[s] = "finalize" /\ ~request[s].bypass
      /\ killed <=> g = "terminate"
  BY <1>1, EvaluateReturnEffect DEF Running
<1>3. /\ In(<<"kills", "graduated">>, S) = IF killed THEN 1 ELSE 0
      /\ In(<<"violations", "terminate">>, S) = IF killed THEN 1 ELSE 0
      /\ In(<<"decisions", "kill">>, S) = IF killed THEN 1 ELSE 0
      /\ In(<<"resolutions", "all">>, S) = 0 /\ In(<<"requests", "502">>, S) = 0
      /\ In(<<"requests", "200">>, S) = 0 /\ In(<<"requests", "429">>, S) = 0
      /\ In(<<"kills", "ceiling">>, S) = 0
      /\ In(<<"bytes_streamed", "all">>, S) = 0
  BY <1>2 DEF In, If, KillCounted
<1>4. Worths'[s] = Worths[s] /\ Worths[s] \in Int
  BY <1>2, StreamNumbers DEF Worths
<1>5. /\ (In(s, Bypassed))' = In(s, Bypassed) /\ In(s, Bypassed) \in Int
      /\ (In(s, Enforced))' = In(s, Enforced) /\ In(s, Enforced) \in Int
      /\ (In(s, Active))' = In(s, Active) /\ In(s, Active) \in Int
      /\ In(s, Doomed) = 0 /\ (In(s, Doomed))' = IF killed THEN 1 ELSE 0
  BY <1>2 DEF In, Bypassed, Enforced, Active, Doomed, Running
<1> HIDE DEF S, killed
<1>6. BooksTypeOK'
  BY <1>1, IncSeries DEF BooksTypeOK
<1>7. NumbersOK
  BY Numbers
<1>8. Balanced(s)
  BY <1>1, <1>3, <1>4, <1>5, <1>7, IncSeries DEF Balanced, NumbersOK
<1> QED BY <1>2, <1>6, <1>8

\* A step that counts nothing changes nothing that is counted.
LEMMA Uncounted ==
  ASSUME BooksTypeOK, counter' = counter, activeStreams' = activeStreams
  PROVE  /\ BooksTypeOK' /\ Resolved' = Resolved /\ Answered' = Answered
         /\ TooMany' = TooMany /\ Kills' = Kills /\ GraduatedKills' = GraduatedKills
         /\ KillDecisions' = KillDecisions /\ Terminations' = Terminations
         /\ Streamed' = Streamed
  BY DEF BooksTypeOK, Resolved, Answered, TooMany, Kills, GraduatedKills,
         KillDecisions, Terminations, Streamed, Count

LEMMA QuietBalanced ==
  ASSUME TypeOK, StreamInv, BooksTypeOK, NEW s \in Streams, Path(s),
         ClientDisconnect(s) \/ SelectClientGone(s) \/ SelectDefault(s),
         counter' = counter, activeStreams' = activeStreams
  PROVE  /\ BooksTypeOK' /\ Balanced(s) /\ Path(s)'
         /\ \A t \in Streams \ {s} : Aside(t)
<1>1. /\ Path(s)' /\ \A t \in Streams \ {s} : Aside(t)
      /\ pc[s] \in Running /\ pc'[s] \in Running
      /\ UNCHANGED <<request, monitor, chunk, delivered>>
      /\ \/ pc'[s] = pc[s] /\ outcome'[s] = outcome[s]
         \/ /\ pc[s] # "finalize" /\ ~monitor[s].killed
            /\ outcome[s] = "none" /\ outcome'[s] # "write_error"
  BY QuietEffect
<1>2. Worths'[s] = Worths[s] /\ Worths[s] \in Int
  BY <1>1, StreamNumbers DEF Worths
<1>3. /\ (In(s, Bypassed))' = In(s, Bypassed) /\ In(s, Bypassed) \in Int
      /\ (In(s, Enforced))' = In(s, Enforced) /\ In(s, Enforced) \in Int
      /\ (In(s, Active))' = In(s, Active) /\ In(s, Active) \in Int
      /\ (In(s, Doomed))' = In(s, Doomed) /\ In(s, Doomed) \in Int
  BY <1>1 DEF In, Bypassed, Enforced, Active, Doomed, Running
<1>4. NumbersOK
  BY Numbers
<1>5. Balanced(s)
  BY <1>2, <1>3, <1>4, Uncounted DEF Balanced, NumbersOK
<1> QED BY <1>1, <1>5, Uncounted

\* The bytes of a written chunk are counted, and those of a failed write are
\* neither counted nor delivered in full.
LEMMA WriteBalanced ==
  ASSUME TypeOK, StreamInv, BooksTypeOK, NEW s \in Streams, Path(s),
         WriteCounted(s)
  PROVE  /\ BooksTypeOK' /\ Balanced(s) /\ Path(s)'
         /\ \A t \in Streams \ {s} : Aside(t)
<1>1. /\ Path(s)' /\ \A t \in Streams \ {s} : Aside(t)
      /\ pc[s] = "write" /\ pc'[s] \in {"select", "finalize"}
      /\ UNCHANGED <<request, monitor, chunk>>
      /\ ~monitor[s].killed /\ outcome[s] = "none"
  BY WriteEffect DEF WriteCounted
<1>2. /\ (In(s, Bypassed))' = In(s, Bypassed) /\ In(s, Bypassed) \in Int
      /\ (In(s, Enforced))' = In(s, Enforced) /\ In(s, Enforced) \in Int
      /\ (In(s, Active))' = In(s, Active) /\ In(s, Active) \in Int
      /\ (In(s, Doomed))' = In(s, Doomed) /\ In(s, Doomed) \in Int
  BY <1>1 DEF In, Bypassed, Enforced, Active, Doomed, Running
<1>3. /\ NumbersOK /\ activeStreams' = activeStreams /\ Worths[s] = delivered[s]
      /\ chunk[s].size \in Nat /\ delivered[s] \in Nat
      /\ monitor[s].totalBytes \in Nat
      /\ delivered[s] + chunk[s].size = monitor[s].totalBytes
  BY <1>1, Numbers, StreamNumbers
  DEF WriteCounted, Worths, StreamInv, Accounting
<1>4. CASE \E n \in 0 .. chunk[s].size : WriteFail(s, n) /\ counter' = counter
  <2>1. outcome'[s] = "write_error"
    BY <1>4 DEF WriteFail, LeaveLoop, TypeOK
  <2>2. Worths'[s] = Worths[s]
    BY <1>1, <1>3, <2>1 DEF Worths
  <2>3. Balanced(s)
    BY <1>2, <1>3, <1>4, <2>2, Uncounted DEF Balanced, NumbersOK
  <2> QED BY <1>1, <1>3, <1>4, <2>3, Uncounted
<1>5. CASE /\ WriteOk(s)
           /\ counter' = [counter EXCEPT ![<<"bytes_streamed", "all">>] =
                            @ + chunk[s].size]
  <2>1. /\ delivered'[s] = delivered[s] + chunk[s].size
        /\ outcome'[s] # "write_error"
    BY <1>5, WriteEffect
  <2>2. Worths'[s] = Worths[s] + chunk[s].size
    BY <1>1, <1>3, <2>1 DEF Worths
  <2>3. counter' \in [Series -> Nat]
    BY <1>3, <1>5, SeriesNames DEF BooksTypeOK
  <2>4. Streamed' = Streamed + chunk[s].size
    BY <1>5, SeriesNames DEF BooksTypeOK, Streamed, Count
  <2>5. \A x \in Series : x # <<"bytes_streamed", "all">> => counter'[x] = counter[x]
    BY <1>5 DEF BooksTypeOK
  <2>6. /\ Resolved' = Resolved /\ Answered' = Answered /\ TooMany' = TooMany
        /\ Kills' = Kills /\ GraduatedKills' = GraduatedKills
        /\ KillDecisions' = KillDecisions /\ Terminations' = Terminations
    BY <2>5, SeriesNames
    DEF Resolved, Answered, TooMany, Kills, GraduatedKills, KillDecisions,
        Terminations, Count
  <2>7. Balanced(s)
    BY <1>2, <1>3, <2>2, <2>4, <2>6 DEF Balanced, NumbersOK
  <2> QED BY <1>1, <1>3, <2>3, <2>7 DEF BooksTypeOK, NumbersOK
<1> QED BY <1>4, <1>5 DEF WriteCounted

\* Returning, an enforced stream is counted by its status.
LEMMA FinalizeBalanced ==
  ASSUME TypeOK, BooksTypeOK, NEW s \in Streams, Path(s), FinalizeCounted(s)
  PROVE  /\ BooksTypeOK' /\ Balanced(s) /\ Path(s)'
         /\ \A t \in Streams \ {s} : Aside(t)
<1> DEFINE killed == monitor[s].killed
           S == {<<"duration", outcome[s]>>}
                \cup If(~request[s].bypass,
                        {<<"requests", IF killed THEN "429" ELSE "200">>})
<1>1. Finalize(s) /\ Inc(S) /\ activeStreams' = activeStreams - 1
  BY DEF FinalizeCounted
<1>2. /\ Path(s)' /\ \A t \in Streams \ {s} : Aside(t)
      /\ pc[s] = "finalize" /\ pc'[s] = "done"
      /\ UNCHANGED <<request, monitor, chunk, outcome, delivered>>
      /\ request[s].bypass => ~killed
  BY <1>1, FinalizeEffect
<1>3. killed \in BOOLEAN /\ request[s].bypass \in BOOLEAN
  BY MonitorAssumption DEF TypeOK, MonitorState, MonitorAssumption
<1>4. /\ In(<<"requests", "429">>, S) =
           IF killed /\ ~request[s].bypass THEN 1 ELSE 0
      /\ In(<<"requests", "200">>, S) =
           IF ~killed /\ ~request[s].bypass THEN 1 ELSE 0
      /\ In(<<"resolutions", "all">>, S) = 0 /\ In(<<"requests", "502">>, S) = 0
      /\ In(<<"kills", "ceiling">>, S) = 0 /\ In(<<"kills", "graduated">>, S) = 0
      /\ In(<<"decisions", "kill">>, S) = 0
      /\ In(<<"violations", "terminate">>, S) = 0
      /\ In(<<"bytes_streamed", "all">>, S) = 0
  BY DEF In, If
<1> HIDE DEF S
<1>5. Worths'[s] = Worths[s] /\ Worths[s] \in Int
  BY <1>2, StreamNumbers DEF Worths
<1>6. /\ (In(s, Bypassed))' = In(s, Bypassed) /\ In(s, Bypassed) \in Int
      /\ In(s, Enforced) = (IF request[s].bypass THEN 0 ELSE 1)
      /\ (In(s, Enforced))' = 0
      /\ In(s, Active) = 1 /\ (In(s, Active))' = 0
      /\ In(s, Doomed) = (IF killed THEN 1 ELSE 0) /\ (In(s, Doomed))' = 0
  BY <1>2 DEF In, Bypassed, Enforced, Active, Doomed, Running
<1> HIDE DEF killed
<1>7. NumbersOK
  BY Numbers
<1>8. BooksTypeOK'
  BY <1>1, <1>7, IncSeries DEF BooksTypeOK, NumbersOK
<1>9. Balanced(s)
  BY <1>1, <1>2, <1>3, <1>4, <1>5, <1>6, <1>7, IncSeries DEF Balanced, NumbersOK
<1> QED BY <1>2, <1>8, <1>9

MetricsInv ==
  TypeOK /\ StreamInv /\ BooksTypeOK /\ PathInv /\ Books

LEMMA MetricsInitial == TrafficBounded /\ MetricsInit => MetricsInv
<1> SUFFICES ASSUME TrafficBounded, MetricsInit PROVE MetricsInv
  OBVIOUS
<1>1. TypeOK /\ StreamInv
  BY TypeInit, StreamInvInit DEF MetricsInit
<1>2. BooksTypeOK /\ NumbersOK
  BY <1>1, Numbers DEF MetricsInit, BooksTypeOK
<1>3. PathInv
  BY DEF MetricsInit, Init, PathInv, Path, Running
<1>4. /\ Resolved = 0 /\ Answered = 0 /\ TooMany = 0 /\ Kills = 0
      /\ KillDecisions = 0 /\ GraduatedKills = 0 /\ Terminations = 0
      /\ Streamed = 0
  BY SeriesNames
  DEF MetricsInit, Resolved, Answered, TooMany, Kills, KillDecisions,
      GraduatedKills, Terminations, Streamed, Count
<1>5. Bypassed = {} /\ Enforced = {} /\ Active = {} /\ Doomed = {}
  BY DEF MetricsInit, Init, Bypassed, Enforced, Active, Doomed, Running
<1>6. SumOver(Worths, Streams) = 0
  <2>1. \A s \in Streams : Worths[s] \in 0 .. 0
    BY DEF MetricsInit, Init, Worths
  <2>2. PICK g : Sums(g, Worths, Streams) /\ SumOver(Worths, Streams) = g[Streams]
    BY SumOverSums DEF TrafficBounded
  <2>3. g[Streams] \in 0 .. 0 * Cardinality(Streams)
    BY <2>1, <2>2, SumsBound DEF TrafficBounded
  <2>4. Cardinality(Streams) \in Nat
    BY FS_CardinalityType DEF TrafficBounded
  <2> QED BY <2>2, <2>3, <2>4
<1>7. Books
  <2>1. Cardinality({}) = 0
    BY FS_EmptySet
  <2> QED BY <1>4, <1>5, <1>6, <2>1 DEF MetricsInit, Books
<1> QED BY <1>1, <1>2, <1>3, <1>7 DEF MetricsInv

LEMMA MetricsStep ==
  TrafficBounded /\ MetricsInv /\ [MetricsNext]_mvars => MetricsInv'
<1> SUFFICES ASSUME TrafficBounded, MetricsInv, [MetricsNext]_mvars
             PROVE  MetricsInv'
  OBVIOUS
<1>1. TypeOK /\ StreamInv /\ BooksTypeOK /\ Books /\ \A t \in Streams : Path(t)
  BY DEF MetricsInv, PathInv
<1>2. [Next]_vars
  BY DEF MetricsNext, mvars, Next, StartCounted, RecvCounted,
         EvaluateReturnCounted, WriteCounted, FinalizeCounted, Write
<1>3. TypeOK' /\ StreamInv'
  BY <1>1, <1>2, TypeNext, StreamInvNext
<1>4. ASSUME NEW s \in Streams,
             /\ BooksTypeOK' /\ Balanced(s) /\ Path(s)'
             /\ \A t \in Streams \ {s} : Aside(t)
      PROVE  MetricsInv'
  <2>1. Books'
    BY <1>1, <1>3, <1>4, BooksStep DEF TrafficBounded
  <2>2. PathInv'
    BY <1>1, <1>4, AsidePath DEF PathInv
  <2> QED BY <1>3, <1>4, <2>1, <2>2 DEF MetricsInv
<1>5. ASSUME NEW s \in Streams, StartCounted(s)
      PROVE  MetricsInv'
  BY <1>1, <1>4, <1>5, StartBalanced, StartEffect DEF StartCounted
<1>6. ASSUME NEW s \in Streams, RecvCounted(s)
      PROVE  MetricsInv'
  BY <1>1, <1>4, <1>6, RecvBalanced
<1>7. ASSUME NEW s \in Streams, NEW g \in Grades, EvaluateReturnCounted(s, g)
      PROVE  MetricsInv'
  BY <1>1, <1>4, <1>7, EvaluateReturnBalanced
<1>8. ASSUME NEW s \in Streams, WriteCounted(s)
      PROVE  MetricsInv'
  BY <1>1, <1>4, <1>8, WriteBalanced
<1>9. ASSUME NEW s \in Streams, FinalizeCounted(s)
      PROVE  MetricsInv'
  BY <1>1, <1>4, <1>9, FinalizeBalanced
<1>10. ASSUME NEW s \in Streams,
              ClientDisconnect(s) \/ SelectClientGone(s) \/ SelectDefault(s),
              UNCHANGED <<counter, activeStreams>>
       PROVE  MetricsInv'
  BY <1>1, <1>4, <1>10, QuietBalanced
<1>11. ASSUME UNCHANGED vars, UNCHANGED <<counter, activeStreams>>
       PROVE  MetricsInv'
  <2>1. BooksTypeOK' /\ PathInv'
    BY <1>1, <1>11 DEF vars, BooksTypeOK, PathInv, Path, Unlimited
  <2>2. /\ Bypassed' = Bypassed /\ Enforced' = Enforced /\ Active' = Active
        /\ Doomed' = Doomed /\ Worths' = Worths
    BY <1>11 DEF vars, Bypassed, Enforced, Active, Doomed, Worths
  <2>3. Books'
    BY <1>1, <1>11, <2>2, Uncounted DEF Books
  <2> QED BY <1>3, <2>1, <2>3 DEF MetricsInv
<1> QED
  BY <1>5, <1>6, <1>7, <1>8, <1>9, <1>10, <1>11
  DEF MetricsNext, AllServed, mvars

\* The series of /metrics reconcile, whatever way each stream ended, as long
\* as no bypassed stream carries 2^62 bytes.
THEOREM ReconcileTheorem ==
  ASSUME TrafficBounded
  PROVE  MetricsSpec => []CountersReconcile
<1>1. MetricsInit => MetricsInv
  BY MetricsInitial
<1>2. MetricsInv /\ [MetricsNext]_mvars => MetricsInv'
  BY MetricsStep
<1>3. MetricsInv => CountersReconcile
  BY BooksReconcile DEF MetricsInv, TrafficBounded
<1> QED BY <1>1, <1>2, <1>3, PTL DEF MetricsSpec

-----------------------------------------------------------------------------
\* Counting changes nothing of what is counted: to its streams the monitor with
\* its series is Monitor, fairness included, and every theorem about Monitor is
\* one about it.
THEOREM MetricsIsMonitor == MetricsSpec => Spec
<1>1. MetricsInit => Init
  BY DEF MetricsInit
<1>2. [MetricsNext]_mvars => [Next]_vars
  BY DEF MetricsNext, mvars, Next, StartCounted, RecvCounted,
         EvaluateReturnCounted, WriteCounted, FinalizeCounted, Write
<1> QED BY <1>1, <1>2, PTL DEF MetricsSpec, Spec

\* So limits, grades, throttle and history are right whatever is counted.
THEOREM MetricsSafety == MetricsSpec => StreamsSafe
  BY MetricsIsMonitor, MonitorSafety, PTL DEF Spec
=============================================================================
