----------------------- MODULE StreamDelivery_proofs -----------------------
(***************************************************************************)
(* What holds of StreamDelivery for every set of responses and any number  *)
(* of anomalies: the client can follow at every moment, a completed stream *)
(* shows it exactly the response, a stream without an anomaly is never     *)
(* refused and shows at once, and a regenerated round replaces one nobody  *)
(* has seen.                                                               *)
(*                                                                         *)
(* The argument, in the order of the module: sequences and how the         *)
(* client's view of an item is folded from its events; what a record of an *)
(* item says its client has (View); that the replay, filtered by that      *)
(* record, adds exactly the rest (ResumedReplay); that an accepted event   *)
(* moves record and client in step (Step); the invariant these keep        *)
(* (DeliveredInv); then the path of deliveries along the events of a       *)
(* response (ScriptPath), and that a clean stream is on it (CleanInv).     *)
(***************************************************************************)
EXTENDS StreamDelivery, SequenceTheorems, WellFoundedInduction, TLAPS

----------------------------------------------------------------------------
(* Sequences of anything, and induction.                                   *)

IsSeq(s) == \E T : s \in Seq(T)

LEMMA Together ==
    ASSUME NEW s, IsSeq(s), NEW t, IsSeq(t)
    PROVE  \E T : s \in Seq(T) /\ t \in Seq(T)
<1>1. PICK S, T : s \in Seq(S) /\ t \in Seq(T)
  BY DEF IsSeq
<1>2. s \in Seq(S \cup T) /\ t \in Seq(S \cup T)
  <2>1. S \subseteq S \cup T /\ T \subseteq S \cup T
    OBVIOUS
  <2>2. QED
    BY <1>1, <2>1, SeqMonotonic
<1>3. QED
  BY <1>2

LEMMA OneOf == ASSUME NEW x PROVE /\ IsSeq(<<x>>) /\ <<x>> # <<>> /\ Len(<<x>>) = 1
                                  /\ <<x>>[1] = x /\ Last(<<x>>) = x
<1>1. <<x>> \in Seq({x}) /\ Len(<<x>>) = 1 /\ <<x>>[1] = x
  OBVIOUS
<1>2. QED
  BY <1>1, EmptySeq DEF IsSeq, Last

LEMMA NoneOf == IsSeq(<<>>) /\ Len(<<>>) = 0
  BY EmptySeq DEF IsSeq

\* What a sequence is.
LEMMA Elements ==
    ASSUME NEW s, IsSeq(s)
    PROVE  /\ Len(s) \in Nat /\ DOMAIN s = 1 .. Len(s) /\ s = [j \in 1 .. Len(s) |-> s[j]]
           /\ s # <<>> => Len(s) > 0
           /\ Len(s) = 0 => s = <<>>
<1>1. PICK T : s \in Seq(T)
  BY DEF IsSeq
<1>2. Len(s) \in Nat /\ s \in [1 .. Len(s) -> T] /\ DOMAIN s = 1 .. Len(s)
  BY <1>1, LenProperties
<1>3. s # <<>> => Len(s) \in Nat \ {0}
  BY <1>1, EmptySeq
<1>4. QED
  BY <1>2, <1>3

LEMMA Equal ==
    ASSUME NEW s, IsSeq(s), NEW t, IsSeq(t), Len(s) = Len(t),
           \A j \in 1 .. Len(s) : s[j] = t[j]
    PROVE  s = t
<1>1. PICK T : s \in Seq(T) /\ t \in Seq(T)
  BY Together
<1>2. QED
  BY <1>1, SeqEqual

LEMMA Listed ==
    ASSUME NEW n \in Nat, NEW f, f = [j \in 1 .. n |-> f[j]]
    PROVE  IsSeq(f) /\ Len(f) = n
<1> DEFINE T == {f[j] : j \in 1 .. n}
<1>1. f \in [1 .. n -> T]
  <2>1. \A j \in 1 .. n : f[j] \in T
    OBVIOUS
  <2> HIDE DEF T
  <2>2. QED
    BY <2>1
<1>2. f \in Seq(T)
  BY <1>1, SeqDef
<1>3. Len(f) \in Nat /\ DOMAIN f = 1 .. Len(f)
  BY <1>2, LenProperties
<1>4. 1 .. n = 1 .. Len(f)
  BY <1>1, <1>3
<1>5. Len(f) = n
  BY <1>3, <1>4
<1>6. QED
  BY <1>2, <1>5 DEF IsSeq

LEMMA Concat ==
    ASSUME NEW s, IsSeq(s), NEW t, IsSeq(t)
    PROVE  /\ IsSeq(s \o t) /\ Len(s \o t) = Len(s) + Len(t)
           /\ s \o <<>> = s /\ <<>> \o s = s
           /\ \A j \in 1 .. Len(s) : (s \o t)[j] = s[j]
           /\ \A j \in 1 .. Len(t) : (s \o t)[Len(s) + j] = t[j]
<1>1. PICK T : s \in Seq(T) /\ t \in Seq(T)
  BY Together
<1>2. /\ s \o t \in Seq(T) /\ Len(s \o t) = Len(s) + Len(t)
      /\ \A j \in 1 .. Len(s) + Len(t) :
            (s \o t)[j] = IF j <= Len(s) THEN s[j] ELSE t[j - Len(s)]
  BY <1>1, ConcatProperties
<1>3. s \o <<>> = s /\ <<>> \o s = s
  BY <1>1, ConcatEmptySeq
<1>4. Len(s) \in Nat /\ Len(t) \in Nat
  BY <1>1, LenProperties
<1>5. ASSUME NEW j \in 1 .. Len(s) PROVE (s \o t)[j] = s[j]
  <2>1. j \in 1 .. Len(s) + Len(t) /\ j <= Len(s)
    BY <1>4
  <2>2. QED
    BY <1>2, <2>1
<1>6. ASSUME NEW j \in 1 .. Len(t) PROVE (s \o t)[Len(s) + j] = t[j]
  <2> DEFINE k == Len(s) + j
  <2>1. k \in 1 .. Len(s) + Len(t) /\ ~(k <= Len(s)) /\ k - Len(s) = j
    BY <1>4
  <2> HIDE DEF k
  <2>2. (s \o t)[k] = t[j]
    BY <1>2, <2>1
  <2>3. QED
    BY <2>2 DEF k
<1>7. QED
  BY <1>2, <1>3, <1>5, <1>6 DEF IsSeq

\* Concatenation as a name, for steps that need no more than its laws.
Cat(s, t) == s \o t

LEMMA CatAssoc ==
    ASSUME NEW s, IsSeq(s), NEW t, IsSeq(t), NEW u, IsSeq(u)
    PROVE  Cat(Cat(s, t), u) = Cat(s, Cat(t, u))
<1>1. PICK S, T, U : s \in Seq(S) /\ t \in Seq(T) /\ u \in Seq(U)
  BY DEF IsSeq
<1> DEFINE V == S \cup T \cup U
<1>2. S \subseteq V /\ T \subseteq V /\ U \subseteq V
  OBVIOUS
<1>3. s \in Seq(V) /\ t \in Seq(V) /\ u \in Seq(V)
  <2> HIDE DEF V
  <2>1. QED
    BY <1>1, <1>2, SeqMonotonic
<1> HIDE DEF V
<1>4. (s \o t) \o u = s \o (t \o u)
  BY <1>3, ConcatAssociative
<1>5. QED
  BY <1>4 DEF Cat

LEMMA Assoc ==
    ASSUME NEW s, IsSeq(s), NEW t, IsSeq(t), NEW u, IsSeq(u)
    PROVE  (s \o t) \o u = s \o (t \o u)
<1>1. Cat(Cat(s, t), u) = Cat(s, Cat(t, u))
  BY CatAssoc
<1>2. QED
  BY <1>1 DEF Cat

\* A sequence and one more element.
LEMMA OneMore ==
    ASSUME NEW s, IsSeq(s), NEW x
    PROVE  /\ IsSeq(s \o <<x>>) /\ Append(s, x) = s \o <<x>> /\ s \o <<x>> # <<>>
           /\ Len(s \o <<x>>) = Len(s) + 1 /\ Last(s \o <<x>>) = x
           /\ (s \o <<x>>)[Len(s) + 1] = x
           /\ \A j \in 1 .. Len(s) : (s \o <<x>>)[j] = s[j]
<1>1. IsSeq(<<x>>) /\ Len(<<x>>) = 1 /\ <<x>>[1] = x
  BY OneOf
<1>2. /\ IsSeq(s \o <<x>>) /\ Len(s \o <<x>>) = Len(s) + Len(<<x>>)
      /\ \A j \in 1 .. Len(s) : (s \o <<x>>)[j] = s[j]
      /\ \A j \in 1 .. Len(<<x>>) : (s \o <<x>>)[Len(s) + j] = <<x>>[j]
  BY <1>1, Concat
<1>3. Len(s) \in Nat
  BY Elements
<1>4. (s \o <<x>>)[Len(s) + 1] = x
  <2>1. 1 \in 1 .. Len(<<x>>)
    BY <1>1
  <2>2. QED
    BY <1>1, <1>2, <2>1
<1>5. PICK T : s \in Seq(T)
  BY DEF IsSeq
<1> DEFINE U == T \cup {x}
<1>6. s \in Seq(U) /\ x \in U
  <2>1. T \subseteq U
    OBVIOUS
  <2>2. QED
    BY <1>5, <2>1, SeqMonotonic
<1> HIDE DEF U
<1>7. /\ Append(s, x) \in Seq(U) /\ Len(Append(s, x)) = Len(s) + 1
      /\ \A j \in 1 .. Len(s) : Append(s, x)[j] = s[j]
      /\ Append(s, x)[Len(s) + 1] = x
  BY <1>6, AppendProperties
<1>8. Append(s, x) = s \o <<x>>
  <2> DEFINE a == Append(s, x)
             b == s \o <<x>>
  <2>1. IsSeq(a) /\ IsSeq(b) /\ Len(a) = Len(b)
    BY <1>1, <1>2, <1>7 DEF IsSeq
  <2>2. Len(a) = Len(s) + 1
    BY <1>7
  <2>3. \A j \in 1 .. Len(s) : a[j] = b[j]
    BY <1>2, <1>7
  <2>4. a[Len(s) + 1] = b[Len(s) + 1]
    BY <1>4, <1>7
  <2> HIDE DEF a, b
  <2>5. ASSUME NEW j \in 1 .. Len(a) PROVE a[j] = b[j]
    <3>1. CASE j = Len(s) + 1
      BY <2>4, <3>1
    <3>2. CASE j # Len(s) + 1
      <4>1. j \in 1 .. Len(s)
        BY <1>3, <2>2, <3>2
      <4>2. QED
        BY <2>3, <4>1
    <3>3. QED
      BY <3>1, <3>2
  <2>6. a = b
    BY <2>1, <2>5, Equal
  <2>7. QED
    BY <2>6 DEF a, b
<1>9. s \o <<x>> # <<>>
  BY <1>1, <1>2, <1>3, EmptySeq
<1>10. QED
  BY <1>1, <1>2, <1>4, <1>8, <1>9 DEF Last

\* Its last element replaced.
LEMMA OneElse ==
    ASSUME NEW s, IsSeq(s), NEW x, NEW y
    PROVE  LET t == s \o <<x>> IN [t EXCEPT ![Len(t)] = y] = s \o <<y>>
<1> DEFINE t == s \o <<x>>
           u == s \o <<y>>
           v == [t EXCEPT ![Len(t)] = y]
           n == Len(s) + 1
<1>1. /\ IsSeq(t) /\ Len(t) = n /\ t[n] = x
      /\ \A j \in 1 .. Len(s) : t[j] = s[j]
  BY OneMore
<1>2. /\ IsSeq(u) /\ Len(u) = n /\ u[n] = y
      /\ \A j \in 1 .. Len(s) : u[j] = s[j]
  BY OneMore
<1>3. Len(s) \in Nat
  BY Elements
<1> HIDE DEF t, u
<1>4. t = [j \in 1 .. n |-> t[j]] /\ u = [j \in 1 .. n |-> u[j]]
  BY <1>1, <1>2, Elements
<1>5. ASSUME NEW j \in 1 .. n PROVE v[j] = u[j]
  <2>1. CASE j = n
    BY <1>1, <1>2, <1>4, <2>1
  <2>2. CASE j # n
    <3>1. j \in 1 .. Len(s)
      BY <1>3, <2>2
    <3>2. v[j] = t[j]
      BY <1>1, <1>4, <2>2
    <3>3. QED
      BY <1>1, <1>2, <3>1, <3>2
  <2>3. QED
    BY <2>1, <2>2
<1>6. v = [j \in 1 .. n |-> v[j]]
  BY <1>1, <1>4
<1> HIDE DEF v
<1>7. v = u
  BY <1>4, <1>5, <1>6
<1>8. QED
  BY <1>7 DEF v, t, u

\* A set of numbers has a smallest one.
LEMMA Least ==
    ASSUME NEW S \in SUBSET Nat, S # {}
    PROVE  \E m \in S : \A k \in S : m <= k
<1>1. PICK m \in S : \A k \in S : ~(<<k, m>> \in OpToRel(<, Nat))
  BY NatLessThanWellFounded, WFMin
<1>2. ASSUME NEW k \in S PROVE m <= k
  <2>1. ~(k < m)
    BY <1>1 DEF OpToRel
  <2>2. QED
    BY <2>1
<1>3. QED
  BY <1>2

\* Induction from zero over a set of numbers.
LEMMA Climb ==
    ASSUME NEW N \in Nat, NEW S, 0 \in S,
           \A n \in 0 .. N : n + 1 <= N /\ n \in S => n + 1 \in S
    PROVE  0 .. N \subseteq S
<1> DEFINE Out == (0 .. N) \ S
<1> SUFFICES ASSUME Out # {} PROVE FALSE
  OBVIOUS
<1>1. Out \subseteq Nat
  OBVIOUS
<1>2. PICK m \in Out : \A k \in Out : m <= k
  <2> HIDE DEF Out
  <2>1. QED
    BY <1>1, Least
<1>3. m \in 0 .. N /\ m \notin S /\ m # 0
  BY <1>2
<1>4. m - 1 \in 0 .. N /\ ~(m <= m - 1) /\ m - 1 + 1 = m
  BY <1>3
<1>5. m - 1 \in S
  BY <1>2, <1>4
<1>6. QED
  BY <1>3, <1>4, <1>5
----------------------------------------------------------------------------
(* Sequences put one after another.                                        *)

Flat(f, n) == FlattenSeq([j \in 1 .. n |-> f[j]])

\* What FlattenSeq computes with.
Steps(f, n, g) == g = [i \in 1 .. n |-> IF i = 1 THEN f[i] ELSE g[i - 1] \o f[i]]

LEMMA StepsExist == ASSUME NEW f, NEW N \in Nat PROVE \E g : Steps(f, N, g)
<1> DEFINE S == {n \in Nat : \E g : Steps(f, n, g)}
<1>1. 0 \in S
  <2>1. Steps(f, 0, [i \in 1 .. 0 |-> i])
    BY DEF Steps
  <2>2. QED
    BY <2>1
<1>2. ASSUME NEW n \in 0 .. N, n \in S PROVE n + 1 \in S
  <2>1. PICK g : Steps(f, n, g)
    BY <1>2
  <2> DEFINE m == n + 1
             h == [i \in 1 .. m |-> IF i = m THEN IF i = 1 THEN f[i] ELSE g[i - 1] \o f[i]
                                    ELSE g[i]]
  <2>2. \A i \in 1 .. n : g[i] = IF i = 1 THEN f[i] ELSE g[i - 1] \o f[i]
    BY <2>1 DEF Steps
  <2>3. ASSUME NEW i \in 1 .. m PROVE h[i] = IF i = 1 THEN f[i] ELSE h[i - 1] \o f[i]
    <3>1. CASE i = 1 /\ i = m
      BY <3>1
    <3>2. CASE i = 1 /\ i # m
      <4>1. i \in 1 .. n /\ h[i] = g[i]
        BY <3>2
      <4>2. QED
        BY <2>2, <3>2, <4>1
    <3>3. CASE i # 1
      <4>1. i - 1 \in 1 .. n /\ i - 1 \in 1 .. m /\ i - 1 # m
        BY <3>3
      <4>2. h[i - 1] = g[i - 1]
        BY <4>1
      <4>3. CASE i = m
        BY <3>3, <4>2, <4>3
      <4>4. CASE i # m
        <5>1. i \in 1 .. n /\ h[i] = g[i]
          BY <4>4
        <5>2. QED
          BY <2>2, <3>3, <4>2, <5>1
      <4>5. QED
        BY <4>3, <4>4
    <3>4. QED
      BY <3>1, <3>2, <3>3
  <2>4. h = [i \in 1 .. m |-> h[i]]
    OBVIOUS
  <2> HIDE DEF h
  <2>5. Steps(f, m, h)
    BY <2>3, <2>4 DEF Steps
  <2>6. m \in Nat
    OBVIOUS
  <2>7. QED
    BY <2>5, <2>6
<1> HIDE DEF S
<1>3. 0 .. N \subseteq S
  BY <1>1, <1>2, Climb
<1>4. QED
  BY <1>3 DEF S

LEMMA FlatIs ==
    ASSUME NEW f, NEW n \in Nat, n > 0
    PROVE  \E g : Steps(f, n, g) /\ Flat(f, n) = g[n]
<1> DEFINE s == [j \in 1 .. n |-> f[j]]
<1>1. Len(s) = n
  <2>1. s = [j \in 1 .. n |-> s[j]]
    OBVIOUS
  <2> HIDE DEF s
  <2>2. QED
    BY <2>1, Listed
<1> DEFINE h == CHOOSE g : g = [i \in 1 .. Len(s) |-> IF i = 1 THEN s[i] ELSE g[i - 1] \o s[i]]
<1>2. FlattenSeq(s) = h[Len(s)]
  <2>1. Len(s) # 0
    BY <1>1
  <2> HIDE DEF s
  <2>2. QED
    BY <2>1 DEF FlattenSeq
<1>3. \A i \in 1 .. n : s[i] = f[i]
  OBVIOUS
<1>4. \A g : Steps(f, n, g) <=> g = [i \in 1 .. Len(s) |-> IF i = 1 THEN s[i] ELSE g[i - 1] \o s[i]]
  <2> HIDE DEF s
  <2> TAKE g
  <2> DEFINE a == [i \in 1 .. n |-> IF i = 1 THEN f[i] ELSE g[i - 1] \o f[i]]
             b == [i \in 1 .. Len(s) |-> IF i = 1 THEN s[i] ELSE g[i - 1] \o s[i]]
  <2>1. a = b
    BY <1>1, <1>3
  <2>2. Steps(f, n, g) <=> g = a
    BY DEF Steps
  <2>3. QED
    BY <2>1, <2>2
<1>5. Steps(f, n, h)
  <2> HIDE DEF s
  <2> DEFINE Q(g) == g = [i \in 1 .. Len(s) |-> IF i = 1 THEN s[i] ELSE g[i - 1] \o s[i]]
  <2>1. \E g : Q(g)
    BY <1>4, StepsExist
  <2>2. Q(CHOOSE g : Q(g))
    <3> HIDE DEF Q
    <3>1. QED
      BY <2>1
  <2>3. Q(h)
    BY <2>2
  <2>4. QED
    BY <1>4, <2>3
<1>6. Flat(f, n) = FlattenSeq(s)
  BY DEF Flat
<1> HIDE DEF h, s
<1>7. QED
  BY <1>1, <1>2, <1>5, <1>6

LEMMA StepsAgree ==
    ASSUME NEW f, NEW m \in Nat, NEW n \in Nat, m <= n, NEW g, Steps(f, m, g), NEW h, Steps(f, n, h)
    PROVE  \A k \in 1 .. m : g[k] = h[k]
<1> DEFINE S == {k \in Nat : k = 0 \/ k > m \/ g[k] = h[k]}
<1>1. 0 \in S
  OBVIOUS
<1>2. ASSUME NEW k \in 0 .. m, k + 1 <= m, k \in S PROVE k + 1 \in S
  <2> DEFINE l == k + 1
  <2>1. l \in 1 .. m /\ l \in 1 .. n /\ l \in Nat
    BY <1>2
  <2>2. g[l] = IF l = 1 THEN f[l] ELSE g[l - 1] \o f[l]
    BY <2>1 DEF Steps
  <2>3. h[l] = IF l = 1 THEN f[l] ELSE h[l - 1] \o f[l]
    BY <2>1 DEF Steps
  <2>4. l - 1 = k /\ (l = 1 <=> k = 0)
    OBVIOUS
  <2>5. k # 0 => g[k] = h[k]
    BY <1>2
  <2> HIDE DEF l
  <2>6. g[l] = h[l]
    BY <2>2, <2>3, <2>4, <2>5
  <2>7. QED
    BY <2>1, <2>6 DEF l
<1> HIDE DEF S
<1>3. 0 .. m \subseteq S
  BY <1>1, <1>2, Climb
<1>4. QED
  BY <1>3 DEF S

LEMMA ListOfNone == ASSUME NEW f PROVE <<>> = [j \in 1 .. 0 |-> f[j]]
<1> DEFINE s == [j \in 1 .. 0 |-> f[j]]
<1>1. s = [j \in 1 .. 0 |-> s[j]]
  OBVIOUS
<1> HIDE DEF s
<1>2. IsSeq(s) /\ Len(s) = 0
  BY <1>1, Listed
<1>3. s = <<>>
  BY <1>2, Elements
<1>4. QED
  BY <1>3 DEF s

LEMMA FlatNone == ASSUME NEW f PROVE Flat(f, 0) = <<>>
<1>1. [j \in 1 .. 0 |-> f[j]] = <<>>
  BY ListOfNone
<1>2. FlattenSeq(<<>>) = <<>>
  BY NoneOf DEF FlattenSeq
<1>3. QED
  BY <1>1, <1>2 DEF Flat

\* One sequence more.
LEMMA FlatNext ==
    ASSUME NEW f, NEW n \in Nat, IsSeq(f[n + 1])
    PROVE  Flat(f, n + 1) = Flat(f, n) \o f[n + 1]
<1> DEFINE m == n + 1
<1>1. m \in Nat /\ m > 0 /\ m \in 1 .. m /\ n <= m /\ m - 1 = n
  OBVIOUS
<1> HIDE DEF m
<1>2. PICK h : Steps(f, m, h) /\ Flat(f, m) = h[m]
  BY <1>1, FlatIs
<1>3. h[m] = IF m = 1 THEN f[m] ELSE h[m - 1] \o f[m]
  BY <1>1, <1>2 DEF Steps
<1>4. CASE n = 0
  <2>1. m = 1 /\ Flat(f, n) = <<>>
    BY <1>4, FlatNone DEF m
  <2>2. <<>> \o f[m] = f[m]
    BY Concat, NoneOf DEF m
  <2>3. QED
    BY <1>2, <1>3, <2>1, <2>2 DEF m
<1>5. CASE n # 0
  <2>1. n > 0
    BY <1>5
  <2>2. PICK g : Steps(f, n, g) /\ Flat(f, n) = g[n]
    BY <2>1, FlatIs
  <2>3. g[n] = h[n]
    <3>1. n \in 1 .. n
      BY <2>1
    <3>2. QED
      BY <1>1, <1>2, <2>2, <3>1, StepsAgree
  <2>4. h[m] = h[n] \o f[m]
    <3>1. m # 1
      BY <2>1 DEF m
    <3>2. QED
      BY <1>1, <1>3, <3>1
  <2>5. QED
    BY <1>2, <2>2, <2>3, <2>4 DEF m
<1>6. QED
  BY <1>4, <1>5

\* All is made of elements of the sequences.
LEMMA FlatIn ==
    ASSUME NEW f, NEW n \in Nat, NEW S, \A j \in 1 .. n : f[j] \in Seq(S)
    PROVE  Flat(f, n) \in Seq(S)
<1> DEFINE P == {k \in Nat : k <= n => Flat(f, k) \in Seq(S)}
<1>1. 0 \in P
  BY FlatNone, EmptySeq
<1>2. ASSUME NEW k \in 0 .. n, k + 1 <= n, k \in P PROVE k + 1 \in P
  <2>1. f[k + 1] \in Seq(S) /\ Flat(f, k) \in Seq(S)
    BY <1>2
  <2>2. IsSeq(f[k + 1])
    BY <2>1 DEF IsSeq
  <2>3. k \in Nat
    OBVIOUS
  <2>4. Flat(f, k + 1) = Flat(f, k) \o f[k + 1]
    BY <2>2, <2>3, FlatNext
  <2>5. Flat(f, k + 1) \in Seq(S)
    BY <2>1, <2>4, ConcatProperties
  <2>6. QED
    BY <2>5
<1> HIDE DEF P
<1>3. 0 .. n \subseteq P
  BY <1>1, <1>2, Climb
<1>4. n \in 0 .. n
  OBVIOUS
<1>5. n \in P
  BY <1>3, <1>4
<1>6. QED
  BY <1>5 DEF P

LEMMA FlatIsSeq ==
    ASSUME NEW f, NEW n \in Nat, \A j \in 1 .. n : IsSeq(f[j])
    PROVE  IsSeq(Flat(f, n))
<1> DEFINE S == UNION {{f[j][k] : k \in 1 .. Len(f[j])} : j \in 1 .. n}
<1>1. ASSUME NEW j \in 1 .. n PROVE f[j] \in Seq(S)
  <2> DEFINE s == f[j]
  <2>1. Len(s) \in Nat /\ s = [k \in 1 .. Len(s) |-> s[k]]
    BY Elements
  <2>2. \A k \in 1 .. Len(s) : s[k] \in S
    OBVIOUS
  <2> HIDE DEF S, s
  <2>3. s \in [1 .. Len(s) -> S]
    BY <2>1, <2>2
  <2>4. s \in Seq(S)
    BY <2>1, <2>3, SeqDef
  <2>5. QED
    BY <2>4 DEF s
<1> HIDE DEF S
<1>2. Flat(f, n) \in Seq(S)
  BY <1>1, FlatIn
<1>3. QED
  BY <1>2 DEF IsSeq
LEMMA FlatSame ==
    ASSUME NEW f, NEW g, NEW n, \A j \in 1 .. n : f[j] = g[j]
    PROVE  Flat(f, n) = Flat(g, n)
<1>1. [j \in 1 .. n |-> f[j]] = [j \in 1 .. n |-> g[j]]
  OBVIOUS
<1>2. QED
  BY <1>1 DEF Flat

LEMMA FlatMore ==
    ASSUME NEW f, NEW m \in Nat, NEW n \in Nat, \A j \in 1 .. (m + n) : IsSeq(f[j]),
           NEW g, \A j \in 1 .. n : g[j] = f[m + j]
    PROVE  Flat(f, m + n) = Flat(f, m) \o Flat(g, n)
<1> DEFINE P == {k \in Nat : k <= n => Flat(f, m + k) = Flat(f, m) \o Flat(g, k)}
<1>0. IsSeq(Flat(f, m))
  <2>1. \A j \in 1 .. m : IsSeq(f[j])
    OBVIOUS
  <2>2. QED
    BY <2>1, FlatIsSeq
<1>1. 0 \in P
  <2>1. Flat(g, 0) = <<>> /\ m + 0 = m
    BY FlatNone
  <2>2. Flat(f, m) \o <<>> = Flat(f, m)
    BY <1>0, NoneOf, Concat
  <2>3. QED
    BY <2>1, <2>2
<1>2. ASSUME NEW k \in 0 .. n, k + 1 <= n, k \in P PROVE k + 1 \in P
  <2> DEFINE l == m + k
  <2>1. l \in Nat /\ l + 1 \in 1 .. (m + n) /\ m + (k + 1) = l + 1 /\ k \in Nat /\ k + 1 \in 1 .. n
    BY <1>2
  <2>2. Flat(f, l) = Flat(f, m) \o Flat(g, k)
    BY <1>2
  <2>3. g[k + 1] = f[l + 1] /\ IsSeq(f[l + 1])
    BY <2>1
  <2>4. IsSeq(Flat(g, k))
    <3>1. ASSUME NEW j \in 1 .. k PROVE IsSeq(g[j])
      <4>1. j \in 1 .. n /\ m + j \in 1 .. (m + n)
        BY <1>2
      <4>2. QED
        BY <4>1
    <3>2. QED
      BY <2>1, <3>1, FlatIsSeq
  <2> HIDE DEF l
  <2>5. Flat(f, l + 1) = Flat(f, l) \o f[l + 1]
    BY <2>1, <2>3, FlatNext
  <2>6. Flat(g, k + 1) = Flat(g, k) \o f[l + 1]
    BY <2>1, <2>3, FlatNext
  <2>7. Flat(f, l + 1) = Flat(f, m) \o Flat(g, k + 1)
    <3> DEFINE a == Flat(f, m)
               b == Flat(g, k)
               c == f[l + 1]
    <3>0. IsSeq(a) /\ IsSeq(b) /\ IsSeq(c)
      BY <1>0, <2>3, <2>4
    <3> HIDE DEF a, b, c
    <3>3. (a \o b) \o c = a \o (b \o c)
      BY <3>0, Assoc
    <3>1. (Flat(f, m) \o Flat(g, k)) \o f[l + 1] = Flat(f, m) \o (Flat(g, k) \o f[l + 1])
      BY <3>3 DEF a, b, c
    <3>2. QED
      BY <2>2, <2>5, <2>6, <3>1
  <2>8. QED
    BY <2>1, <2>7
<1> HIDE DEF P
<1>3. 0 .. n \subseteq P
  BY <1>1, <1>2, Climb
<1>4. n \in 0 .. n
  OBVIOUS
<1>5. n \in P
  BY <1>3, <1>4
<1>6. QED
  BY <1>5 DEF P

----------------------------------------------------------------------------
(* What the client makes of a sequence of events, and what a replay keeps  *)
(* of one: both go through a sequence from its start to its end.           *)

Took(i, x, e) == IF e.index = i THEN Join(x, e) ELSE x
Taking(i, x, s, n, g) == g = [k \in 0 .. n |-> IF k = 0 THEN x ELSE Took(i, g[k - 1], s[k])]

LEMMA TakingExists ==
    ASSUME NEW i, NEW x, NEW s, NEW N \in Nat
    PROVE  \E g : Taking(i, x, s, N, g)
<1> DEFINE S == {n \in Nat : \E g : Taking(i, x, s, n, g)}
<1>1. 0 \in S
  <2>1. Taking(i, x, s, 0, [k \in 0 .. 0 |-> x])
    BY DEF Taking
  <2>2. QED
    BY <2>1
<1>2. ASSUME NEW n \in 0 .. N, n \in S PROVE n + 1 \in S
  <2>1. PICK g : Taking(i, x, s, n, g)
    BY <1>2
  <2> DEFINE m == n + 1
             h == [k \in 0 .. m |-> IF k = m THEN Took(i, g[k - 1], s[k]) ELSE g[k]]
  <2>2. \A k \in 0 .. n : g[k] = IF k = 0 THEN x ELSE Took(i, g[k - 1], s[k])
    BY <2>1 DEF Taking
  <2>3. ASSUME NEW k \in 0 .. m PROVE h[k] = IF k = 0 THEN x ELSE Took(i, h[k - 1], s[k])
    <3>1. CASE k = 0
      <4>1. k # m /\ k \in 0 .. n
        BY <3>1
      <4>2. h[k] = g[k]
        BY <4>1
      <4>3. QED
        BY <2>2, <3>1, <4>1, <4>2
    <3>2. CASE k # 0
      <4>1. k - 1 \in 0 .. m /\ k - 1 # m
        BY <3>2
      <4>2. h[k - 1] = g[k - 1]
        BY <4>1
      <4>3. CASE k = m
        BY <3>2, <4>2, <4>3
      <4>4. CASE k # m
        <5>1. k \in 0 .. n /\ h[k] = g[k]
          BY <4>4
        <5>2. QED
          BY <2>2, <3>2, <4>2, <5>1
      <4>5. QED
        BY <4>3, <4>4
    <3>3. QED
      BY <3>1, <3>2
  <2>4. h = [k \in 0 .. m |-> h[k]]
    OBVIOUS
  <2> HIDE DEF h
  <2>5. Taking(i, x, s, m, h)
    BY <2>3, <2>4 DEF Taking
  <2>6. m \in Nat
    OBVIOUS
  <2>7. QED
    BY <2>5, <2>6
<1> HIDE DEF S
<1>3. 0 .. N \subseteq S
  BY <1>1, <1>2, Climb
<1>4. QED
  BY <1>3 DEF S

LEMMA JoinedIs ==
    ASSUME NEW i, NEW x, NEW s, IsSeq(s)
    PROVE  \E g : Taking(i, x, s, Len(s), g) /\ Joined(i, x, s) = g[Len(s)]
<1> DEFINE n == Len(s)
           h == CHOOSE g : g = [k \in 0 .. n |-> IF k = 0 THEN x
                                  ELSE IF s[k].index = i THEN Join(g[k - 1], s[k]) ELSE g[k - 1]]
<1>1. n \in Nat
  BY Elements
<1>2. Joined(i, x, s) = h[n]
  BY DEF Joined
<1>3. Taking(i, x, s, n, h)
  <2> DEFINE Q(g) == g = [k \in 0 .. n |-> IF k = 0 THEN x
                             ELSE IF s[k].index = i THEN Join(g[k - 1], s[k]) ELSE g[k - 1]]
  <2>1. \A g : Taking(i, x, s, n, g) <=> Q(g)
    BY DEF Taking, Took
  <2>2. \E g : Q(g)
    BY <1>1, <2>1, TakingExists
  <2>3. Q(CHOOSE g : Q(g))
    <3> HIDE DEF Q
    <3>1. QED
      BY <2>2
  <2>4. Q(h)
    BY <2>3
  <2>5. QED
    BY <2>1, <2>4
<1> HIDE DEF h
<1>4. QED
  BY <1>2, <1>3

LEMMA TakingStep ==
    ASSUME NEW i, NEW x, NEW s, NEW n \in Nat, NEW g, Taking(i, x, s, n, g)
    PROVE  /\ g[0] = x
           /\ \A k \in 0 .. n : k + 1 <= n => g[k + 1] = Took(i, g[k], s[k + 1])
<1>1. g[0] = x
  BY DEF Taking
<1>2. ASSUME NEW k \in 0 .. n, k + 1 <= n PROVE g[k + 1] = Took(i, g[k], s[k + 1])
  <2> DEFINE m == k + 1
  <2>1. m \in 0 .. n /\ m # 0 /\ m - 1 = k
    BY <1>2
  <2> HIDE DEF m
  <2>2. g[m] = Took(i, g[m - 1], s[m])
    BY <2>1 DEF Taking
  <2>3. QED
    BY <2>1, <2>2 DEF m
<1>3. QED
  BY <1>1, <1>2

LEMMA JoinedNone == ASSUME NEW i, NEW x PROVE Joined(i, x, <<>>) = x
<1>1. PICK g : Taking(i, x, <<>>, 0, g) /\ Joined(i, x, <<>>) = g[0]
  BY NoneOf, JoinedIs
<1>2. QED
  BY <1>1, TakingStep

LEMMA JoinedOne == ASSUME NEW i, NEW x, NEW e PROVE Joined(i, x, <<e>>) = Took(i, x, e)
<1> DEFINE s == <<e>>
<1>1. IsSeq(s) /\ Len(s) = 1 /\ s[1] = e
  BY OneOf
<1> HIDE DEF s
<1>2. PICK g : Taking(i, x, s, 1, g) /\ Joined(i, x, s) = g[1]
  BY <1>1, JoinedIs
<1>3. g[0] = x
  BY <1>2, TakingStep
<1>4. g[0 + 1] = Took(i, g[0], s[0 + 1])
  <2>1. 0 \in 0 .. 1 /\ 0 + 1 <= 1 /\ 1 \in Nat
    OBVIOUS
  <2>2. QED
    BY <1>2, <2>1, TakingStep
<1>5. QED
  BY <1>1, <1>2, <1>3, <1>4 DEF s

LEMMA JoinedMore ==
    ASSUME NEW i, NEW x, NEW s, IsSeq(s), NEW t, IsSeq(t)
    PROVE  Joined(i, x, s \o t) = Joined(i, Joined(i, x, s), t)
<1> DEFINE u == s \o t
           m == Len(s)
           n == Len(t)
<1>1. m \in Nat /\ n \in Nat
  BY Elements
<1>2. /\ IsSeq(u) /\ Len(u) = m + n
      /\ \A j \in 1 .. m : u[j] = s[j]
      /\ \A j \in 1 .. n : u[m + j] = t[j]
  BY Concat
<1>3. PICK g : Taking(i, x, s, m, g) /\ Joined(i, x, s) = g[m]
  BY JoinedIs
<1>4. PICK h : Taking(i, g[m], t, n, h) /\ Joined(i, g[m], t) = h[n]
  BY JoinedIs
<1> HIDE DEF u
<1>5. PICK c : Taking(i, x, u, m + n, c) /\ Joined(i, x, u) = c[m + n]
  <2>1. IsSeq(u) /\ Len(u) = m + n
    BY <1>2
  <2>2. PICK c : Taking(i, x, u, Len(u), c) /\ Joined(i, x, u) = c[Len(u)]
    BY <2>1, JoinedIs
  <2> HIDE DEF m, n
  <2>3. QED
    BY <2>1, <2>2
<1> HIDE DEF m, n
<1> DEFINE P == {k \in Nat : k <= m => c[k] = g[k]}
           Q == {k \in Nat : k <= n => c[m + k] = h[k]}
<1>6. 0 \in P
  BY <1>1, <1>3, <1>5, TakingStep
<1>7. ASSUME NEW k \in 0 .. m, k + 1 <= m, k \in P PROVE k + 1 \in P
  <2>1. k \in 0 .. (m + n) /\ k + 1 <= m + n /\ k + 1 \in 1 .. m /\ m + n \in Nat
    BY <1>1, <1>7
  <2>2. c[k + 1] = Took(i, c[k], u[k + 1])
    BY <1>5, <2>1, TakingStep
  <2>3. g[k + 1] = Took(i, g[k], s[k + 1])
    BY <1>1, <1>3, <1>7, TakingStep
  <2>4. c[k] = g[k] /\ u[k + 1] = s[k + 1]
    BY <1>2, <1>7, <2>1
  <2>5. QED
    BY <2>2, <2>3, <2>4
<1> HIDE DEF P
<1>8. 0 .. m \subseteq P
  BY <1>1, <1>6, <1>7, Climb
<1>9. c[m] = g[m]
  BY <1>1, <1>8 DEF P
<1>10. 0 \in Q
  <2>1. h[0] = g[m]
    BY <1>1, <1>4, TakingStep
  <2>2. QED
    BY <1>1, <1>9, <2>1
<1>11. ASSUME NEW k \in 0 .. n, k + 1 <= n, k \in Q PROVE k + 1 \in Q
  <2> DEFINE l == m + k
  <2>1. l \in 0 .. (m + n) /\ l + 1 <= m + n /\ k + 1 \in 1 .. n /\ m + n \in Nat
        /\ m + (k + 1) = l + 1
    BY <1>1, <1>11
  <2>2. c[l] = h[k]
    BY <1>11
  <2> HIDE DEF l
  <2>3. c[l + 1] = Took(i, c[l], u[l + 1])
    BY <1>5, <2>1, TakingStep
  <2>4. h[k + 1] = Took(i, h[k], t[k + 1])
    BY <1>1, <1>4, <1>11, TakingStep
  <2>5. u[l + 1] = t[k + 1]
    BY <1>2, <2>1
  <2>6. QED
    BY <2>1, <2>2, <2>3, <2>4, <2>5
<1> HIDE DEF Q
<1>12. 0 .. n \subseteq Q
  BY <1>1, <1>10, <1>11, Climb
<1>13. c[m + n] = h[n]
  BY <1>1, <1>12 DEF Q
<1>14. QED
  BY <1>3, <1>4, <1>5, <1>13 DEF u

\* Events of other items say nothing of this one.
LEMMA JoinedSkips ==
    ASSUME NEW i, NEW x, NEW s, IsSeq(s), \A k \in 1 .. Len(s) : s[k].index # i
    PROVE  Joined(i, x, s) = x
<1> DEFINE n == Len(s)
<1>1. n \in Nat
  BY Elements
<1>2. PICK g : Taking(i, x, s, n, g) /\ Joined(i, x, s) = g[n]
  BY JoinedIs
<1> HIDE DEF n
<1> DEFINE P == {k \in Nat : k <= n => g[k] = x}
<1>3. 0 \in P
  <2>1. g[0] = x
    BY <1>1, <1>2 DEF Taking
  <2>2. QED
    BY <2>1
<1>4. ASSUME NEW k \in 0 .. n, k + 1 <= n, k \in P PROVE k + 1 \in P
  <2>1. g[k + 1] = Took(i, g[k], s[k + 1])
    BY <1>1, <1>2, <1>4, TakingStep
  <2>2. k + 1 \in 1 .. n
    BY <1>4
  <2>3. s[k + 1].index # i
    BY <2>2 DEF n
  <2>4. g[k] = x
    BY <1>4
  <2>5. QED
    BY <2>1, <2>2, <2>3, <2>4 DEF Took
<1> HIDE DEF P
<1>5. 0 .. n \subseteq P
  BY <1>1, <1>3, <1>4, Climb
<1>6. QED
  <2>1. n \in 0 .. n
    BY <1>1
  <2>2. n \in P
    BY <1>5, <2>1
  <2>3. QED
    BY <1>2, <2>2 DEF P
Kepts(items, s) == [j \in 1 .. Len(s) |-> Unseen(items, s[j])]

LEMMA UnseenIsSeq == ASSUME NEW items, NEW e PROVE IsSeq(Unseen(items, e))
  BY OneOf, NoneOf DEF Unseen

LEMMA KeptIs ==
    ASSUME NEW items, NEW s, IsSeq(s)
    PROVE  /\ Kept(items, s) = Flat(Kepts(items, s), Len(s)) /\ IsSeq(Kept(items, s))
           /\ Len(s) \in Nat
           /\ \A j \in 1 .. Len(s) : /\ Kepts(items, s)[j] = Unseen(items, s[j])
                                     /\ IsSeq(Kepts(items, s)[j])
<1>1. Len(s) \in Nat
  BY Elements
<1>2. \A j \in 1 .. Len(s) : Kepts(items, s)[j] = Unseen(items, s[j])
  BY DEF Kepts
<1>3. \A j \in 1 .. Len(s) : IsSeq(Kepts(items, s)[j])
  BY <1>2, UnseenIsSeq
<1>4. [j \in 1 .. Len(s) |-> Unseen(items, s[j])] = [j \in 1 .. Len(s) |-> Kepts(items, s)[j]]
  BY <1>2
<1>5. Kept(items, s) = Flat(Kepts(items, s), Len(s))
  BY <1>4 DEF Kept, Flat
<1>6. IsSeq(Kept(items, s))
  BY <1>1, <1>3, <1>5, FlatIsSeq
<1>7. QED
  BY <1>1, <1>2, <1>3, <1>5, <1>6

LEMMA KeptMore ==
    ASSUME NEW items, NEW s, IsSeq(s), NEW t, IsSeq(t)
    PROVE  Kept(items, s \o t) = Kept(items, s) \o Kept(items, t)
<1> DEFINE u == s \o t
           m == Len(s)
           n == Len(t)
           f == Kepts(items, u)
           g == Kepts(items, t)
           h == Kepts(items, s)
<1>1. /\ IsSeq(u) /\ Len(u) = m + n
      /\ \A j \in 1 .. m : u[j] = s[j]
      /\ \A j \in 1 .. n : u[m + j] = t[j]
  BY Concat
<1>2. m \in Nat /\ n \in Nat
  BY Elements
<1>3. Kept(items, s) = Flat(h, m) /\ \A j \in 1 .. m : h[j] = Unseen(items, s[j])
  BY KeptIs
<1>4. Kept(items, t) = Flat(g, n) /\ \A j \in 1 .. n : g[j] = Unseen(items, t[j])
  BY KeptIs
<1> HIDE DEF u
<1>5. /\ Kept(items, u) = Flat(f, Len(u))
      /\ \A j \in 1 .. Len(u) : f[j] = Unseen(items, u[j]) /\ IsSeq(f[j])
  BY <1>1, KeptIs
<1> HIDE DEF m, n, f, g, h
<1>6. Flat(f, m) = Flat(h, m)
  <2>1. ASSUME NEW j \in 1 .. m PROVE f[j] = h[j]
    <3>1. j \in 1 .. Len(u)
      BY <1>1, <1>2
    <3>2. f[j] = Unseen(items, u[j]) /\ h[j] = Unseen(items, s[j]) /\ u[j] = s[j]
      BY <1>1, <1>3, <1>5, <3>1
    <3>3. QED
      BY <3>2
  <2>2. QED
    BY <2>1, FlatSame
<1>7. \A j \in 1 .. n : g[j] = f[m + j]
  <2>1. ASSUME NEW j \in 1 .. n PROVE g[j] = f[m + j]
    <3> DEFINE l == m + j
    <3>1. l \in 1 .. Len(u) /\ u[l] = t[j]
      BY <1>1, <1>2
    <3> HIDE DEF l
    <3>2. f[l] = Unseen(items, u[l]) /\ g[j] = Unseen(items, t[j])
      BY <1>4, <1>5, <3>1
    <3>3. QED
      BY <3>1, <3>2 DEF l
  <2>2. QED
    BY <2>1
<1>8. Flat(f, m + n) = Flat(f, m) \o Flat(g, n)
  <2>1. \A j \in 1 .. (m + n) : IsSeq(f[j])
    BY <1>1, <1>5
  <2>2. QED
    BY <1>2, <1>7, <2>1, FlatMore
<1>9. QED
  BY <1>1, <1>3, <1>4, <1>5, <1>6, <1>8 DEF u

LEMMA KeptNone == ASSUME NEW items PROVE Kept(items, <<>>) = <<>>
  BY KeptIs, NoneOf, FlatNone

LEMMA KeptOne == ASSUME NEW items, NEW e PROVE Kept(items, <<e>>) = Unseen(items, e)
<1> DEFINE s == <<e>>
           f == Kepts(items, s)
<1>1. IsSeq(s) /\ Len(s) = 1 /\ s[1] = e
  BY OneOf
<1> HIDE DEF s
<1>2. Kept(items, s) = Flat(f, 1) /\ f[1] = Unseen(items, e) /\ IsSeq(f[1])
  <2>1. 1 \in 1 .. Len(s)
    BY <1>1
  <2>2. /\ Kept(items, s) = Flat(f, Len(s))
        /\ \A j \in 1 .. Len(s) : f[j] = Unseen(items, s[j]) /\ IsSeq(f[j])
    BY <1>1, KeptIs
  <2> HIDE DEF f
  <2>3. QED
    BY <1>1, <2>1, <2>2
<1> HIDE DEF f
<1>3. Flat(f, 0 + 1) = Flat(f, 0) \o f[0 + 1]
  <2>1. 0 \in Nat /\ IsSeq(f[0 + 1])
    BY <1>2
  <2>2. QED
    BY <2>1, FlatNext
<1>4. Flat(f, 0) \o f[1] = f[1]
  <2> DEFINE x == f[1]
  <2>1. IsSeq(x)
    BY <1>2
  <2> HIDE DEF x
  <2>2. <<>> \o x = x
    BY <2>1, NoneOf, Concat
  <2>3. QED
    BY <2>2, FlatNone DEF x
<1>5. Flat(f, 1) = f[1]
  <2>1. 0 + 1 = 1
    OBVIOUS
  <2>2. QED
    BY <1>3, <1>4, <2>1
<1>6. QED
  BY <1>2, <1>5 DEF s

\* What a replay of events adds to x, what the client has of item i.
Shown(i, items, x, s) == Joined(i, x, Kept(items, s))

LEMMA ShownMore ==
    ASSUME NEW i, NEW items, NEW x, NEW s, IsSeq(s), NEW t, IsSeq(t)
    PROVE  Shown(i, items, x, s \o t) = Shown(i, items, Shown(i, items, x, s), t)
<1>1. Kept(items, s \o t) = Kept(items, s) \o Kept(items, t)
  BY KeptMore
<1>2. IsSeq(Kept(items, s)) /\ IsSeq(Kept(items, t))
  BY KeptIs
<1>3. QED
  BY <1>1, <1>2, JoinedMore DEF Shown

LEMMA ShownNone == ASSUME NEW i, NEW items, NEW x PROVE Shown(i, items, x, <<>>) = x
  BY KeptNone, JoinedNone DEF Shown

LEMMA ShownOne ==
    ASSUME NEW i, NEW items, NEW x, NEW e
    PROVE  Shown(i, items, x, <<e>>) = IF Keep(items[e.index], e)
                                       THEN Took(i, x, Trimmed(items[e.index], e)) ELSE x
<1>1. Shown(i, items, x, <<e>>) = Joined(i, x, Unseen(items, e))
  BY KeptOne DEF Shown
<1>2. CASE Keep(items[e.index], e)
  <2>1. Unseen(items, e) = <<Trimmed(items[e.index], e)>>
    BY <1>2 DEF Unseen
  <2>2. QED
    BY <1>1, <1>2, <2>1, JoinedOne
<1>3. CASE ~Keep(items[e.index], e)
  <2>1. Unseen(items, e) = <<>>
    BY <1>3 DEF Unseen
  <2>2. QED
    BY <1>1, <1>3, <2>1, JoinedNone
<1>4. QED
  BY <1>2, <1>3

EventFields == {"type", "fam", "index", "part", "id", "kind", "text", "content"}

LEMMA EventIs ==
    ASSUME NEW type, NEW fam, NEW index, NEW part, NEW id, NEW kind, NEW text, NEW content
    PROVE  LET e == Event(type, fam, index, part, id, kind, text, content)
           IN  /\ DOMAIN e = EventFields
               /\ e.type = type /\ e.fam = fam /\ e.index = index /\ e.part = part
               /\ e.id = id /\ e.kind = kind /\ e.text = text /\ e.content = content
  BY DEF Event, EventFields

LEMMA TrimmedIndex ==
    ASSUME NEW item, NEW e, DOMAIN e = EventFields
    PROVE  Trimmed(item, e).index = e.index
  BY DEF Trimmed, EventFields

\* A replay of other items says nothing of this one.
LEMMA ShownSkips ==
    ASSUME NEW i, NEW items, NEW x, NEW s, IsSeq(s),
           \A k \in 1 .. Len(s) : DOMAIN s[k] = EventFields /\ s[k].index # i
    PROVE  Shown(i, items, x, s) = x
<1> DEFINE S == {Trimmed(items[s[k].index], s[k]) : k \in 1 .. Len(s)}
           f == Kepts(items, s)
           t == Kept(items, s)
<1>1. t = Flat(f, Len(s)) /\ IsSeq(t) /\ Len(s) \in Nat
      /\ \A j \in 1 .. Len(s) : f[j] = Unseen(items, s[j])
  BY KeptIs
<1>2. ASSUME NEW j \in 1 .. Len(s) PROVE f[j] \in Seq(S)
  <2>1. f[j] = Unseen(items, s[j])
    BY <1>1
  <2> DEFINE y == Trimmed(items[s[j].index], s[j])
  <2>2. y \in S
    OBVIOUS
  <2>3. Unseen(items, s[j]) = <<y>> \/ Unseen(items, s[j]) = <<>>
    BY DEF Unseen
  <2> HIDE DEF f, S, y
  <2>4. <<y>> \in Seq(S) /\ <<>> \in Seq(S)
    BY <2>2, EmptySeq
  <2>5. QED
    BY <2>1, <2>3, <2>4
<1>3. \A y \in S : y.index # i
  BY TrimmedIndex
<1> HIDE DEF S, f, t
<1>4. t \in Seq(S)
  BY <1>1, <1>2, FlatIn
<1>5. \A k \in 1 .. Len(t) : t[k].index # i
  BY <1>3, <1>4, ElementOfSeq
<1>6. Joined(i, x, t) = x
  BY <1>1, <1>5, JoinedSkips
<1>7. QED
  BY <1>6 DEF Shown, t
----------------------------------------------------------------------------
(* What the client has of an item, told from the delivery's record of it.  *)

\* The events of part number p of item it that went out, deltas joined.
PartEvent(type, i, it, p, part, text) ==
    Event(type, it.fam, i, p, it.id, part.kind, text, <<>>)
PartView(i, it, p, part) ==
    <<PartEvent("part.added", i, it, p, part, <<>>)>>
    \o (IF part.text # <<>> THEN <<PartEvent("delta", i, it, p, part, part.text)>> ELSE <<>>)
    \o (IF part.textDone THEN <<PartEvent("text.done", i, it, p, part, part.text)>> ELSE <<>>)
    \o (IF part.done THEN <<PartEvent("part.done", i, it, p, part, part.text)>> ELSE <<>>)
PartsView(i, it, n) == Flat([p \in Nat |-> PartView(i, it, p, it.parts[p])], n)
Opening(i, it) == Event("item.added", it.fam, i, 0, it.id, "", <<>>, <<>>)
Closing(i, it, content) == Event("item.done", it.fam, i, 0, it.id, "", <<>>, content)
Body(i, it, n) == <<Opening(i, it)>> \o PartsView(i, it, n)
View(i, it) ==
    IF it = NoItem THEN <<>>
    ELSE Body(i, it, Len(it.parts))
         \o (IF it.done /\ it.fam = "message" THEN <<Closing(i, it, it.snapshot)>> ELSE <<>>)

LEMMA JoinPlain ==
    ASSUME NEW s, IsSeq(s), NEW e, e.type # "delta"
    PROVE  Join(s, e) = s \o <<e>>
  BY OneMore DEF Join

LEMMA JoinFirst ==
    ASSUME NEW s, IsSeq(s), Last(s).type # "delta", NEW e
    PROVE  Join(s, e) = s \o <<e>>
  BY OneMore DEF Join

LEMMA JoinDelta ==
    ASSUME NEW s, IsSeq(s), NEW x, x.type = "delta", NEW e, e.type = "delta", x.part = e.part
    PROVE  Join(s \o <<x>>, e) = s \o <<[x EXCEPT !.text = @ \o e.text]>>
<1> DEFINE t == s \o <<x>>
           y == [x EXCEPT !.text = @ \o e.text]
<1>1. IsSeq(t) /\ Last(t) = x /\ t # <<>> /\ Len(t) = Len(s) + 1 /\ t[Len(t)] = x
  BY OneMore
<1>2. [t EXCEPT ![Len(t)] = y] = s \o <<y>>
  BY OneElse
<1> HIDE DEF t
<1>3. Join(t, e) = [t EXCEPT ![Len(t)].text = @ \o e.text]
  BY <1>1 DEF Join
<1>4. [t EXCEPT ![Len(t)].text = @ \o e.text] = [t EXCEPT ![Len(t)] = [t[Len(t)] EXCEPT !.text = @ \o e.text]]
  OBVIOUS
<1>5. QED
  BY <1>1, <1>2, <1>3, <1>4 DEF t

LEMMA PartEventIs ==
    ASSUME NEW type, NEW i, NEW it, NEW p, NEW part, NEW text
    PROVE  LET e == PartEvent(type, i, it, p, part, text)
           IN  /\ DOMAIN e = EventFields
               /\ e.type = type /\ e.fam = it.fam /\ e.index = i /\ e.part = p
               /\ e.id = it.id /\ e.kind = part.kind /\ e.text = text /\ e.content = <<>>
  BY EventIs DEF PartEvent

\* The part told after what was told before, one event after another.
Told(b, i, it, p, part) ==
    LET s1 == b \o <<PartEvent("part.added", i, it, p, part, <<>>)>>
        s2 == IF part.text # <<>>
              THEN s1 \o <<PartEvent("delta", i, it, p, part, part.text)>> ELSE s1
        s3 == IF part.textDone
              THEN s2 \o <<PartEvent("text.done", i, it, p, part, part.text)>> ELSE s2
    IN  IF part.done THEN s3 \o <<PartEvent("part.done", i, it, p, part, part.text)>> ELSE s3

LEMMA CatLaw ==
    /\ \A s, t : IsSeq(s) /\ IsSeq(t) => IsSeq(Cat(s, t))
    /\ \A s, t, u : IsSeq(s) /\ IsSeq(t) /\ IsSeq(u) => Cat(Cat(s, t), u) = Cat(s, Cat(t, u))
<1>1. ASSUME NEW s, NEW t, IsSeq(s), IsSeq(t) PROVE IsSeq(Cat(s, t))
  BY <1>1, Concat DEF Cat
<1>2. ASSUME NEW s, NEW t, NEW u, IsSeq(s), IsSeq(t), IsSeq(u)
      PROVE  Cat(Cat(s, t), u) = Cat(s, Cat(t, u))
  BY <1>2, CatAssoc
<1>3. QED
  BY <1>1, <1>2

LEMMA Maybe ==
    ASSUME NEW s, IsSeq(s), NEW x, NEW c
    PROVE  /\ IsSeq(IF c THEN <<x>> ELSE <<>>)
           /\ s \o (IF c THEN <<x>> ELSE <<>>) = (IF c THEN s \o <<x>> ELSE s)
           /\ IsSeq(IF c THEN s \o <<x>> ELSE s)
  BY OneOf, NoneOf, Concat

LEMMA PartTold ==
    ASSUME NEW b, IsSeq(b), NEW i, NEW it, NEW p, NEW part
    PROVE  /\ b \o PartView(i, it, p, part) = Told(b, i, it, p, part)
           /\ IsSeq(PartView(i, it, p, part)) /\ IsSeq(Told(b, i, it, p, part))
<1> DEFINE a == PartEvent("part.added", i, it, p, part, <<>>)
           x == PartEvent("delta", i, it, p, part, part.text)
           y == PartEvent("text.done", i, it, p, part, part.text)
           z == PartEvent("part.done", i, it, p, part, part.text)
           t == IF part.text # <<>> THEN <<x>> ELSE <<>>
           u == IF part.textDone THEN <<y>> ELSE <<>>
           v == IF part.done THEN <<z>> ELSE <<>>
           s1 == b \o <<a>>
           s2 == IF part.text # <<>> THEN s1 \o <<x>> ELSE s1
           s3 == IF part.textDone THEN s2 \o <<y>> ELSE s2
           s4 == IF part.done THEN s3 \o <<z>> ELSE s3
<1>1. PartView(i, it, p, part) = ((<<a>> \o t) \o u) \o v
  BY DEF PartView
<1>2. Told(b, i, it, p, part) = s4
  BY DEF Told
<1> HIDE DEF a, x, y, z
<1>3. IsSeq(<<a>>) /\ IsSeq(t) /\ IsSeq(u) /\ IsSeq(v)
  BY OneOf, NoneOf
<1>4. IsSeq(s1)
  BY OneMore
<1>5. s1 \o t = s2 /\ IsSeq(s2)
  <2> HIDE DEF s1
  <2>1. QED
    BY <1>4, Maybe
<1>6. s2 \o u = s3 /\ IsSeq(s3)
  <2> HIDE DEF s2
  <2>1. QED
    BY <1>5, Maybe
<1>7. s3 \o v = s4 /\ IsSeq(s4)
  <2> HIDE DEF s3
  <2>1. QED
    BY <1>6, Maybe
<1> HIDE DEF t, u, v, s2, s3, s4
<1>8. IsSeq(((<<a>> \o t) \o u) \o v) /\ b \o (((<<a>> \o t) \o u) \o v) = (((b \o <<a>>) \o t) \o u) \o v
  <2>1. LET r == <<a>> IN
        /\ IsSeq(Cat(Cat(Cat(r, t), u), v))
        /\ Cat(b, Cat(Cat(Cat(r, t), u), v)) = Cat(Cat(Cat(Cat(b, r), t), u), v)
    BY <1>3, CatLaw
  <2>2. QED
    BY <2>1 DEF Cat
<1>9. QED
  BY <1>1, <1>2, <1>5, <1>6, <1>7, <1>8
LEMMA PartViewIsSeq ==
    ASSUME NEW i, NEW it, NEW p, NEW part PROVE IsSeq(PartView(i, it, p, part))
  BY PartTold, NoneOf

LEMMA PartsViewIsSeq ==
    ASSUME NEW i, NEW it, NEW n \in Nat PROVE IsSeq(PartsView(i, it, n))
<1> DEFINE f == [p \in Nat |-> PartView(i, it, p, it.parts[p])]
<1>1. \A p \in 1 .. n : IsSeq(f[p])
  BY PartViewIsSeq
<1> HIDE DEF f
<1>2. QED
  BY <1>1, FlatIsSeq DEF PartsView, f

LEMMA BodyIsSeq == ASSUME NEW i, NEW it, NEW n \in Nat PROVE IsSeq(Body(i, it, n))
  BY PartsViewIsSeq, OneOf, Concat DEF Body

LEMMA BodyNone == ASSUME NEW i, NEW it PROVE Body(i, it, 0) = <<Opening(i, it)>>
<1>1. PartsView(i, it, 0) = <<>>
  BY FlatNone DEF PartsView
<1>2. QED
  BY <1>1, OneOf, NoneOf, Concat DEF Body

\* A part more.
LEMMA BodyNext ==
    ASSUME NEW i, NEW it, NEW n \in Nat
    PROVE  Body(i, it, n + 1) = Body(i, it, n) \o PartView(i, it, n + 1, it.parts[n + 1])
<1> DEFINE f == [p \in Nat |-> PartView(i, it, p, it.parts[p])]
           m == n + 1
           v == PartView(i, it, m, it.parts[m])
           b == PartsView(i, it, n)
           o == <<Opening(i, it)>>
<1>1. m \in Nat /\ f[m] = v /\ IsSeq(v) /\ IsSeq(b) /\ IsSeq(o)
  BY PartViewIsSeq, PartsViewIsSeq, OneOf
<1> HIDE DEF v, f
<1>2. PartsView(i, it, m) = b \o v
  <2>1. Flat(f, m) = Flat(f, n) \o f[m]
    BY <1>1, FlatNext
  <2>2. QED
    BY <1>1, <2>1 DEF PartsView, f
<1> HIDE DEF m, b, o
<1>3. Cat(o, Cat(b, v)) = Cat(Cat(o, b), v)
  BY <1>1, CatLaw
<1>4. o \o (b \o v) = (o \o b) \o v
  BY <1>3 DEF Cat
<1>5. QED
  BY <1>2, <1>4 DEF Body, m, b, o, v

\* Two items that are the same so far.
LEMMA BodySame ==
    ASSUME NEW i, NEW it, NEW jt, NEW n \in Nat, it.fam = jt.fam, it.id = jt.id,
           \A p \in 1 .. n : PartView(i, it, p, it.parts[p]) = PartView(i, jt, p, jt.parts[p])
    PROVE  Body(i, it, n) = Body(i, jt, n)
<1> DEFINE f == [p \in Nat |-> PartView(i, it, p, it.parts[p])]
           g == [p \in Nat |-> PartView(i, jt, p, jt.parts[p])]
<1>1. \A p \in 1 .. n : f[p] = g[p]
  OBVIOUS
<1> HIDE DEF f, g
<1>2. Flat(f, n) = Flat(g, n)
  BY <1>1, FlatSame
<1>3. Opening(i, it) = Opening(i, jt)
  BY DEF Opening
<1>4. QED
  BY <1>2, <1>3 DEF Body, PartsView, f, g

LEMMA PartSame ==
    ASSUME NEW i, NEW it, NEW jt, it.fam = jt.fam, it.id = jt.id, NEW p, NEW part
    PROVE  /\ PartView(i, it, p, part) = PartView(i, jt, p, part)
           /\ \A type, text : PartEvent(type, i, it, p, part, text) = PartEvent(type, i, jt, p, part, text)
           /\ Opening(i, it) = Opening(i, jt)
           /\ \A content : Closing(i, it, content) = Closing(i, jt, content)
  BY DEF PartView, PartEvent, Opening, Closing

----------------------------------------------------------------------------
(* The events of a complete response, as what a client has of all of it.   *)

Whole(part) == [kind |-> part.kind, text |-> part.text, textDone |-> HasText(part.kind),
                done |-> TRUE]
WholeItem(item, summaries) ==
    [fam |-> item.fam, id |-> item.id,
     parts |-> IF item.fam = "message" \/ (item.fam = "reasoning" /\ summaries)
               THEN [p \in 1 .. Len(item.parts) |-> Whole(item.parts[p])] ELSE <<>>,
     done |-> TRUE, snapshot |-> item.parts]

TextOK(part) == ~HasText(part.kind) => part.text = <<>>

LEMMA PartEventsView ==
    ASSUME NEW i, NEW item, NEW p, TextOK(item.parts[p])
    PROVE  PartEvents(i, item, p, FALSE) = PartView(i, item, p, Whole(item.parts[p]))
<1> DEFINE part == item.parts[p]
           w == Whole(part)
           a == PartEvent("part.added", i, item, p, part, <<>>)
           x == PartEvent("delta", i, item, p, part, part.text)
           y == PartEvent("text.done", i, item, p, part, part.text)
           z == PartEvent("part.done", i, item, p, part, part.text)
           deltas == Deltas(part.text, FALSE)
           ds == [j \in 1 .. Len(deltas) |->
                    Event("delta", item.fam, i, p, item.id, part.kind, deltas[j], <<>>)]
           t == IF part.text # <<>> THEN <<x>> ELSE <<>>
           u == IF HasText(part.kind) THEN <<y>> ELSE <<>>
<1>1. PartEvents(i, item, p, FALSE)
      = (<<a>> \o (IF HasText(part.kind) THEN ds \o <<y>> ELSE <<>>)) \o <<z>>
  BY DEF PartEvents, PartEvent
<1>2. /\ w.kind = part.kind /\ w.text = part.text /\ w.done /\ (w.textDone <=> HasText(part.kind))
  BY DEF Whole
<1>3. PartView(i, item, p, w) = ((<<a>> \o t) \o u) \o <<z>>
  BY <1>2 DEF PartView, PartEvent
<1>4. ds = t
  <2>1. CASE part.text = <<>>
    <3>1. deltas = <<>> /\ Len(deltas) = 0
      BY <2>1, NoneOf DEF Deltas
    <3> HIDE DEF deltas, x
    <3>2. ds = <<>>
      BY <3>1
    <3>3. QED
      BY <2>1, <3>2
  <2>2. CASE part.text # <<>>
    <3>1. deltas = <<part.text>> /\ Len(deltas) = 1 /\ deltas[1] = part.text
      BY <2>2, OneOf DEF Deltas
    <3> HIDE DEF deltas
    <3>2. ds = [j \in 1 .. 1 |-> x]
      BY <3>1 DEF PartEvent
    <3> HIDE DEF x, ds
    <3>3. IsSeq(ds) /\ Len(ds) = 1 /\ ds[1] = x
      <4>1. ds = [j \in 1 .. 1 |-> ds[j]] /\ ds[1] = x
        BY <3>2
      <4>2. QED
        BY <4>1, Listed
    <3>4. IsSeq(<<x>>) /\ Len(<<x>>) = 1 /\ <<x>>[1] = x
      BY OneOf
    <3>5. \A j \in 1 .. Len(ds) : ds[j] = <<x>>[j]
      BY <3>3, <3>4
    <3>6. ds = <<x>>
      BY <3>3, <3>4, <3>5, Equal
    <3>7. QED
      BY <2>2, <3>6
  <2>3. QED
    BY <2>1, <2>2
<1> HIDE DEF a, x, y, z, ds
<1>5. IsSeq(<<a>>) /\ IsSeq(<<y>>) /\ IsSeq(<<z>>) /\ IsSeq(t)
  BY OneOf, NoneOf
<1>6. CASE HasText(part.kind)
  <2>1. u = <<y>>
    BY <1>6
  <2>2. PartEvents(i, item, p, FALSE) = (<<a>> \o (t \o <<y>>)) \o <<z>>
    BY <1>1, <1>4, <1>6
  <2> HIDE DEF t, u, w
  <2>3. LET o == <<a>> q == <<y>> IN Cat(o, Cat(t, q)) = Cat(Cat(o, t), q)
    BY <1>5, CatLaw
  <2>4. <<a>> \o (t \o <<y>>) = (<<a>> \o t) \o <<y>>
    BY <2>3 DEF Cat
  <2>5. QED
    BY <1>3, <2>1, <2>2, <2>4 DEF w
<1>7. CASE ~HasText(part.kind)
  <2>1. t = <<>> /\ u = <<>>
    BY <1>7 DEF TextOK
  <2>2. PartEvents(i, item, p, FALSE) = (<<a>> \o <<>>) \o <<z>>
    BY <1>1, <1>7
  <2>3. PartView(i, item, p, w) = ((<<a>> \o <<>>) \o <<>>) \o <<z>>
    BY <1>3, <2>1
  <2>4. <<a>> \o <<>> = <<a>>
    BY <1>5, NoneOf, Concat
  <2>5. QED
    BY <2>2, <2>3, <2>4
<1>8. QED
  BY <1>6, <1>7

LEMMA WholeParts ==
    ASSUME NEW item, IsSeq(item.parts), NEW summaries
    PROVE  LET w == WholeItem(item, summaries) IN
           /\ w.fam = item.fam /\ w.id = item.id /\ IsSeq(w.parts) /\ Len(w.parts) \in Nat
           /\ \/ w.parts = <<>> /\ Len(w.parts) = 0
              \/ Len(w.parts) = Len(item.parts)
           /\ \A p \in 1 .. Len(w.parts) : p \in 1 .. Len(item.parts) /\ w.parts[p] = Whole(item.parts[p])
           /\ item.fam = "message" \/ (item.fam = "reasoning" /\ summaries) => Len(w.parts) = Len(item.parts)
           /\ ~(item.fam = "message" \/ (item.fam = "reasoning" /\ summaries)) => Len(w.parts) = 0
<1> DEFINE w == WholeItem(item, summaries)
           c == item.fam = "message" \/ (item.fam = "reasoning" /\ summaries)
           f == [p \in 1 .. Len(item.parts) |-> Whole(item.parts[p])]
<1>1. w.fam = item.fam /\ w.id = item.id /\ w.parts = IF c THEN f ELSE <<>>
  BY DEF WholeItem
<1> HIDE DEF w
<1>2. Len(item.parts) \in Nat
  BY Elements
<1>3. IsSeq(f) /\ Len(f) = Len(item.parts)
  <2>1. f = [p \in 1 .. Len(item.parts) |-> f[p]]
    OBVIOUS
  <2> HIDE DEF f
  <2>2. QED
    BY <1>2, <2>1, Listed
<1>4. \A p \in 1 .. Len(item.parts) : f[p] = Whole(item.parts[p])
  OBVIOUS
<1> HIDE DEF f
<1>5. CASE c
  <2>1. w.parts = f
    BY <1>1, <1>5
  <2>2. QED
    BY <1>1, <1>2, <1>3, <1>4, <1>5, <2>1 DEF w
<1>6. CASE ~c
  <2>1. w.parts = <<>> /\ Len(w.parts) = 0 /\ IsSeq(w.parts)
    BY <1>1, <1>6, NoneOf
  <2>2. 1 .. 0 = {}
    OBVIOUS
  <2>3. QED
    BY <1>1, <1>6, <2>1, <2>2 DEF w
<1>7. QED
  BY <1>5, <1>6
PartsOK(item) ==
    /\ IsSeq(item.parts)
    /\ \A p \in 1 .. Len(item.parts) : TextOK(item.parts[p]) /\ IsSeq(item.parts[p].text)

LEMMA ItemEventsView ==
    ASSUME NEW i, NEW item, PartsOK(item), NEW summaries
    PROVE  LET w == WholeItem(item, summaries) IN
           ItemEvents(i, item, summaries, FALSE)
           = Body(i, w, Len(w.parts)) \o <<Closing(i, w, item.parts)>>
<1> DEFINE w == WholeItem(item, summaries)
           n == Len(w.parts)
           f == [p \in Nat |-> PartView(i, w, p, w.parts[p])]
           c == item.fam = "message" \/ (item.fam = "reasoning" /\ summaries)
           parts == IF c THEN [p \in 1 .. Len(item.parts) |-> PartEvents(i, item, p, FALSE)] ELSE <<>>
<1>1. /\ w.fam = item.fam /\ w.id = item.id /\ n \in Nat
      /\ \A p \in 1 .. n : p \in 1 .. Len(item.parts) /\ w.parts[p] = Whole(item.parts[p])
      /\ c => n = Len(item.parts)
      /\ ~c => n = 0
  BY WholeParts DEF PartsOK
<1>2. ItemEvents(i, item, summaries, FALSE)
      = (<<Event("item.added", item.fam, i, 0, item.id, "", <<>>, <<>>)>> \o FlattenSeq(parts))
        \o <<Event("item.done", item.fam, i, 0, item.id, "", <<>>, item.parts)>>
  BY DEF ItemEvents
<1> HIDE DEF w, n
<1>3. parts = [p \in 1 .. n |-> f[p]]
  <2>1. ASSUME NEW p \in 1 .. n PROVE PartEvents(i, item, p, FALSE) = f[p]
    <3>1. p \in Nat /\ p \in 1 .. Len(item.parts) /\ w.parts[p] = Whole(item.parts[p])
      BY <1>1
    <3>2. TextOK(item.parts[p])
      BY <3>1 DEF PartsOK
    <3>3. PartEvents(i, item, p, FALSE) = PartView(i, item, p, Whole(item.parts[p]))
      BY <3>2, PartEventsView
    <3>4. PartView(i, item, p, w.parts[p]) = PartView(i, w, p, w.parts[p])
      BY <1>1 DEF PartView, PartEvent
    <3>5. f[p] = PartView(i, w, p, w.parts[p])
      BY <3>1
    <3>6. QED
      BY <3>1, <3>3, <3>4, <3>5
  <2> HIDE DEF f
  <2>2. CASE c
    <3>1. parts = [p \in 1 .. n |-> PartEvents(i, item, p, FALSE)]
      BY <1>1, <2>2
    <3>2. QED
      BY <2>1, <3>1
  <2>3. CASE ~c
    <3>1. parts = <<>> /\ n = 0
      BY <1>1, <2>3
    <3>2. QED
      BY <3>1, ListOfNone
  <2>4. QED
    BY <2>2, <2>3
<1> HIDE DEF parts
<1>4. FlattenSeq(parts) = PartsView(i, w, n)
  BY <1>3 DEF PartsView, Flat
<1>5. QED
  BY <1>1, <1>2, <1>4 DEF Body, Opening, Closing, n, w

----------------------------------------------------------------------------
(* What a delivery's record of an item looks like.                         *)

PartOK(fam, part) ==
    /\ DOMAIN part = {"kind", "text", "textDone", "done"}
    /\ IsSeq(part.text) /\ part.textDone \in BOOLEAN /\ part.done \in BOOLEAN
    /\ fam = "reasoning" <=> part.kind = "summary_text"
    /\ part.text # <<>> \/ part.textDone => HasText(part.kind)
    /\ part.done /\ HasText(part.kind) => part.textDone

\* Some response has an item of this number, family and id with these parts.
Announced(i, it, content) ==
    \E r \in Responses : /\ i \in 1 .. Len(r.output) /\ r.output[i].fam = it.fam
                         /\ r.output[i].id = it.id /\ r.output[i].parts = content

ItemOK(i, it) ==
    /\ DOMAIN it = {"fam", "id", "parts", "done", "snapshot"}
    /\ it.fam \in {"none", "message", "reasoning"} /\ (it.fam = "none" => it = NoItem)
    /\ IsSeq(it.parts) /\ it.done \in BOOLEAN
    /\ \A p \in 1 .. Len(it.parts) : PartOK(it.fam, it.parts[p])
    /\ \A p \in 1 .. Len(it.parts) : it.done \/ p < Len(it.parts) => it.parts[p].done
    /\ it.done /\ it.fam = "message" =>
          MessageComplete(it, it.snapshot) /\ Announced(i, it, it.snapshot)

----------------------------------------------------------------------------
(* What a client can follow, event by event.                               *)

Told1(s, j) ==
    /\ (j = 1) <=> (s[j].type = "item.added")
    /\ j > 1 => Follows(s[j - 1], s[j])
    /\ s[j].type = "text.done" /\ s[j].text # <<>> =>
           s[j - 1].type = "delta" /\ s[j - 1].text = s[j].text
Followable(s) == \A j \in DOMAIN s : Told1(s, j)

LEMMA FollowNone == Followable(<<>>)
<1>1. DOMAIN <<>> = 1 .. 0
  BY NoneOf, Elements
<1>2. QED
  BY <1>1 DEF Followable

LEMMA FollowOne == ASSUME NEW e, e.type = "item.added" PROVE Followable(<<e>>)
<1> DEFINE s == <<e>>
<1>1. IsSeq(s) /\ Len(s) = 1 /\ s[1] = e
  BY OneOf
<1> HIDE DEF s
<1>2. DOMAIN s = 1 .. 1
  BY <1>1, Elements
<1>3. Told1(s, 1)
  BY <1>1 DEF Told1
<1>4. Followable(s)
  BY <1>2, <1>3 DEF Followable
<1>5. QED
  BY <1>4 DEF s

LEMMA FollowMore ==
    ASSUME NEW s, IsSeq(s), s # <<>>, Followable(s), NEW e, e.type # "item.added",
           Follows(Last(s), e),
           e.type = "text.done" /\ e.text # <<>> => Last(s).type = "delta" /\ Last(s).text = e.text
    PROVE  Followable(s \o <<e>>)
<1> DEFINE t == s \o <<e>>
           n == Len(s)
<1>1. n \in Nat /\ n > 0 /\ DOMAIN s = 1 .. n /\ Last(s) = s[n]
  BY Elements DEF Last
<1>2. /\ IsSeq(t) /\ Len(t) = n + 1 /\ t[n + 1] = e
      /\ \A j \in 1 .. n : t[j] = s[j]
  BY OneMore
<1> HIDE DEF t
<1>3. DOMAIN t = 1 .. (n + 1)
  BY <1>2, Elements
<1> HIDE DEF n
<1>4. ASSUME NEW j \in 1 .. n PROVE Told1(t, j)
  <2>1. Told1(s, j)
    BY <1>1 DEF Followable
  <2>2. t[j] = s[j]
    BY <1>2
  <2>3. CASE j = 1
    <3>1. s[1].type = "item.added" /\ t[1] = s[1]
      BY <2>1, <2>2, <2>3 DEF Told1
    <3>2. QED
      BY <2>3, <3>1 DEF Told1
  <2>4. CASE j # 1
    <3>1. j - 1 \in 1 .. n
      BY <1>1, <2>4
    <3>2. t[j - 1] = s[j - 1]
      BY <1>2, <3>1
    <3>3. QED
      BY <2>1, <2>2, <3>2 DEF Told1
  <2>5. QED
    BY <2>3, <2>4
<1>5. Told1(t, n + 1)
  <2> DEFINE m == n + 1
  <2>1. m > 1 /\ m - 1 = n /\ n \in 1 .. n
    BY <1>1
  <2>2. t[n] = s[n]
    BY <1>2, <2>1
  <2> HIDE DEF m
  <2>3. t[m] = e /\ t[m - 1] = Last(s) /\ m # 1
    BY <1>1, <1>2, <2>1, <2>2 DEF m
  <2>4. Told1(t, m)
    BY <2>1, <2>3 DEF Told1
  <2>5. QED
    BY <2>4 DEF m
<1>6. ASSUME NEW j \in 1 .. (n + 1) PROVE Told1(t, j)
  <2>1. j \in 1 .. n \/ j = n + 1
    BY <1>1
  <2>2. QED
    BY <1>4, <1>5, <2>1
<1>7. Followable(t)
  BY <1>3, <1>6 DEF Followable
<1>8. QED
  BY <1>7 DEF t

LEMMA FollowTold ==
    ASSUME NEW b, NEW i, NEW it, NEW p, NEW part
    PROVE  /\ IsSeq(b) /\ b # <<>> /\ Followable(b)
           /\ Follows(Last(b), PartEvent("part.added", i, it, p, part, <<>>))
           /\ PartOK(it.fam, part)
           => LET t == Told(b, i, it, p, part) IN
              /\ Followable(t) /\ IsSeq(t) /\ t # <<>>
              /\ part.done => Last(t).type = "part.done" /\ Last(t).part = p
<1>a. SUFFICES ASSUME IsSeq(b), b # <<>>, Followable(b),
                      Follows(Last(b), PartEvent("part.added", i, it, p, part, <<>>)),
                      PartOK(it.fam, part)
               PROVE  LET t == Told(b, i, it, p, part) IN
                      /\ Followable(t) /\ IsSeq(t) /\ t # <<>>
                      /\ part.done => Last(t).type = "part.done" /\ Last(t).part = p
  OBVIOUS
<1> DEFINE a == PartEvent("part.added", i, it, p, part, <<>>)
           x == PartEvent("delta", i, it, p, part, part.text)
           y == PartEvent("text.done", i, it, p, part, part.text)
           z == PartEvent("part.done", i, it, p, part, part.text)
           s1 == b \o <<a>>
           s2 == IF part.text # <<>> THEN s1 \o <<x>> ELSE s1
           s3 == IF part.textDone THEN s2 \o <<y>> ELSE s2
           s4 == IF part.done THEN s3 \o <<z>> ELSE s3
<1>1. /\ a.type = "part.added" /\ a.part = p
      /\ x.type = "delta" /\ x.part = p /\ x.text = part.text
      /\ y.type = "text.done" /\ y.part = p /\ y.text = part.text
      /\ z.type = "part.done" /\ z.part = p
  BY PartEventIs
<1>2. Told(b, i, it, p, part) = s4
  BY DEF Told
<1>3. /\ part.text # <<>> \/ part.textDone => HasText(part.kind)
      /\ part.done /\ HasText(part.kind) => part.textDone
  BY <1>a DEF PartOK
<1> HIDE DEF a, x, y, z
<1>4. IsSeq(s1) /\ s1 # <<>> /\ Last(s1) = a
  BY <1>a, OneMore
<1>5. Followable(s1)
  <2>1. Follows(Last(b), a)
    BY <1>a DEF a
  <2>2. QED
    BY <1>a, <1>1, <2>1, FollowMore
<1> HIDE DEF s1
<1>6. /\ IsSeq(s2) /\ s2 # <<>> /\ Last(s2) = (IF part.text # <<>> THEN x ELSE a)
      /\ Followable(s2)
  <2>1. CASE part.text # <<>>
    <3>1. Follows(Last(s1), x)
      BY <1>1, <1>4 DEF Follows
    <3>2. Followable(s1 \o <<x>>)
      BY <1>1, <1>4, <1>5, <3>1, FollowMore
    <3>3. IsSeq(s1 \o <<x>>) /\ s1 \o <<x>> # <<>> /\ Last(s1 \o <<x>>) = x
      BY <1>4, OneMore
    <3>4. s2 = s1 \o <<x>>
      BY <2>1
    <3> HIDE DEF s2
    <3>5. QED
      BY <2>1, <3>2, <3>3, <3>4
  <2>2. CASE part.text = <<>>
    BY <1>4, <1>5, <2>2
  <2>3. QED
    BY <2>1, <2>2
<1> HIDE DEF s2
<1>7. /\ IsSeq(s3) /\ s3 # <<>> /\ Followable(s3)
      /\ Last(s3) = (IF part.textDone THEN y ELSE Last(s2))
  <2>1. CASE part.textDone
    <3>1. Follows(Last(s2), y)
      BY <1>1, <1>6 DEF Follows
    <3>2. y.text # <<>> => Last(s2).type = "delta" /\ Last(s2).text = y.text
      BY <1>1, <1>6
    <3>3. Followable(s2 \o <<y>>)
      BY <1>1, <1>6, <3>1, <3>2, FollowMore
    <3>4. IsSeq(s2 \o <<y>>) /\ s2 \o <<y>> # <<>> /\ Last(s2 \o <<y>>) = y
      BY <1>6, OneMore
    <3>5. s3 = s2 \o <<y>>
      BY <2>1
    <3> HIDE DEF s3
    <3>6. QED
      BY <2>1, <3>3, <3>4, <3>5
  <2>2. CASE ~part.textDone
    BY <1>6, <2>2
  <2>3. QED
    BY <2>1, <2>2
<1> HIDE DEF s3
<1>8. CASE part.done
  <2>1. Follows(Last(s3), z)
    <3>1. CASE part.textDone
      BY <1>1, <1>7, <3>1 DEF Follows
    <3>2. CASE ~part.textDone
      <4>1. part.text = <<>>
        BY <1>3, <1>8, <3>2
      <4>2. Last(s3) = a
        BY <1>6, <1>7, <3>2, <4>1
      <4>3. QED
        BY <1>1, <4>2 DEF Follows
    <3>3. QED
      BY <3>1, <3>2
  <2>2. Followable(s3 \o <<z>>)
    BY <1>1, <1>7, <2>1, FollowMore
  <2>3. IsSeq(s3 \o <<z>>) /\ s3 \o <<z>> # <<>> /\ Last(s3 \o <<z>>) = z
    BY <1>7, OneMore
  <2>4. s4 = s3 \o <<z>>
    BY <1>8
  <2> HIDE DEF s4
  <2>5. QED
    BY <1>1, <1>2, <2>2, <2>3, <2>4
<1>9. CASE ~part.done
  <2>1. s4 = s3
    BY <1>9
  <2> HIDE DEF s4
  <2>2. QED
    BY <1>2, <1>7, <1>9, <2>1
<1>10. QED
  BY <1>8, <1>9

LEMMA OpeningIs == ASSUME NEW i, NEW it
    PROVE /\ DOMAIN Opening(i, it) = EventFields
          /\ Opening(i, it).type = "item.added" /\ Opening(i, it).part = 0
          /\ Opening(i, it).index = i
  BY DEF Opening, Event, EventFields
LEMMA ClosingIs == ASSUME NEW i, NEW it, NEW content
    PROVE /\ DOMAIN Closing(i, it, content) = EventFields
          /\ Closing(i, it, content).type = "item.done" /\ Closing(i, it, content).part = 0
          /\ Closing(i, it, content).index = i
  BY DEF Closing, Event, EventFields

LEMMA FollowBody ==
    ASSUME NEW i, NEW it, NEW n \in Nat, \A p \in 1 .. n : PartOK(it.fam, it.parts[p]),
           \A p \in 1 .. n : p < n => it.parts[p].done
    PROVE  LET b == Body(i, it, n) IN
           /\ Followable(b) /\ IsSeq(b) /\ b # <<>>
           /\ n = 0 \/ it.parts[n].done => Last(b).type \in {"item.added", "part.done"}
                                           /\ Last(b).part = n
<1> DEFINE Q(k) == LET b == Body(i, it, k) IN
                   /\ Followable(b) /\ IsSeq(b) /\ b # <<>>
                   /\ k = 0 \/ it.parts[k].done => Last(b).type \in {"item.added", "part.done"}
                                                   /\ Last(b).part = k
           P == {k \in Nat : k <= n => Q(k)}
<1>1. 0 \in P
  <2>1. Body(i, it, 0) = <<Opening(i, it)>>
    BY BodyNone
  <2> DEFINE o == Opening(i, it)
  <2>2. o.type = "item.added" /\ o.part = 0
    BY OpeningIs
  <2> HIDE DEF o
  <2>3. Followable(<<o>>) /\ IsSeq(<<o>>) /\ <<o>> # <<>> /\ Last(<<o>>) = o
    BY <2>2, FollowOne, OneOf
  <2>4. QED
    BY <2>1, <2>2, <2>3 DEF o
<1>2. ASSUME NEW k \in 0 .. n, k + 1 <= n, k \in P PROVE k + 1 \in P
  <2> DEFINE b == Body(i, it, k)
             m == k + 1
             part == it.parts[m]
             t == Told(b, i, it, m, part)
  <2>1. Q(k) /\ k \in Nat /\ m \in Nat /\ m \in 1 .. n /\ m # 0
    BY <1>2
  <2>2. PartOK(it.fam, part)
    BY <2>1
  <2>3. k = 0 \/ it.parts[k].done
    <3>1. k # 0 => k \in 1 .. n /\ k < n
      BY <1>2
    <3>2. QED
      BY <3>1
  <2>4. /\ Followable(b) /\ IsSeq(b) /\ b # <<>> /\ Last(b).type \in {"item.added", "part.done"}
        /\ m = Last(b).part + 1
    BY <2>1, <2>3
  <2>5. Body(i, it, m) = t
    <3>1. Body(i, it, k + 1) = b \o PartView(i, it, k + 1, it.parts[k + 1])
      BY <2>1, BodyNext
    <3>2. b \o PartView(i, it, m, part) = t
      BY <2>4, PartTold
    <3>3. QED
      BY <3>1, <3>2
  <2> HIDE DEF b, m, part, Q
  <2>6. /\ Followable(t) /\ IsSeq(t) /\ t # <<>>
        /\ part.done => Last(t).type = "part.done" /\ Last(t).part = m
    <3>1. Follows(Last(b), PartEvent("part.added", i, it, m, part, <<>>))
      BY <2>4, PartEventIs DEF Follows
    <3>2. QED
      BY <2>2, <2>4, <3>1, FollowTold
  <2> HIDE DEF t
  <2>7. Q(m)
    BY <2>1, <2>5, <2>6 DEF Q, part
  <2>8. QED
    BY <2>1, <2>7 DEF m
<1> HIDE DEF P, Q
<1>3. 0 .. n \subseteq P
  BY <1>1, <1>2, Climb
<1>4. n \in 0 .. n
  OBVIOUS
<1>5. n \in P
  BY <1>3, <1>4
<1>6. QED
  BY <1>5 DEF P, Q
----------------------------------------------------------------------------
(* A replay, part by part: a part nobody has seen, a part that is half     *)
(* with the client, a part that is whole with it.                          *)

LEMMA ShownEvent ==
    ASSUME NEW i, NEW items, NEW x, NEW e, DOMAIN e = EventFields, e.index = i
    PROVE  Shown(i, items, x, <<e>>) = IF Keep(items[i], e) THEN Join(x, Trimmed(items[i], e)) ELSE x
<1>1. Trimmed(items[i], e).index = i
  BY TrimmedIndex
<1>2. Shown(i, items, x, <<e>>) = IF Keep(items[i], e) THEN Took(i, x, Trimmed(items[i], e)) ELSE x
  BY ShownOne
<1>3. QED
  BY <1>1, <1>2 DEF Took

LEMMA ShownMaybe ==
    ASSUME NEW i, NEW items, NEW x, NEW s, IsSeq(s), NEW e, NEW c
    PROVE  Shown(i, items, x, s \o (IF c THEN <<e>> ELSE <<>>))
           = IF c THEN Shown(i, items, Shown(i, items, x, s), <<e>>) ELSE Shown(i, items, x, s)
<1>1. CASE c
  BY <1>1, OneOf, ShownMore
<1>2. CASE ~c
  <2>1. s \o <<>> = s
    BY NoneOf, Concat
  <2>2. QED
    BY <1>2, <2>1
<1>3. QED
  BY <1>1, <1>2

Seen(i, items, x, w, p, part, type, text) ==
    Shown(i, items, x, <<PartEvent(type, i, w, p, part, text)>>)

LEMMA ShownPart ==
    ASSUME NEW i, NEW items, NEW x, NEW w, NEW p, NEW part
    PROVE  LET a == Seen(i, items, x, w, p, part, "part.added", <<>>)
               b == IF part.text # <<>> THEN Seen(i, items, a, w, p, part, "delta", part.text) ELSE a
               c == IF part.textDone THEN Seen(i, items, b, w, p, part, "text.done", part.text) ELSE b
           IN  Shown(i, items, x, PartView(i, w, p, part))
               = IF part.done THEN Seen(i, items, c, w, p, part, "part.done", part.text) ELSE c
<1> DEFINE e1 == PartEvent("part.added", i, w, p, part, <<>>)
           e2 == PartEvent("delta", i, w, p, part, part.text)
           e3 == PartEvent("text.done", i, w, p, part, part.text)
           e4 == PartEvent("part.done", i, w, p, part, part.text)
           s1 == <<e1>>
           s2 == s1 \o (IF part.text # <<>> THEN <<e2>> ELSE <<>>)
           s3 == s2 \o (IF part.textDone THEN <<e3>> ELSE <<>>)
           s4 == s3 \o (IF part.done THEN <<e4>> ELSE <<>>)
           a == Shown(i, items, x, <<e1>>)
           b == IF part.text # <<>> THEN Shown(i, items, a, <<e2>>) ELSE a
           c == IF part.textDone THEN Shown(i, items, b, <<e3>>) ELSE b
           d4 == IF part.done THEN Shown(i, items, c, <<e4>>) ELSE c
<1>1. PartView(i, w, p, part) = s4
  BY DEF PartView
<1> HIDE DEF e1, e2, e3, e4
<1>2. IsSeq(s1) /\ Shown(i, items, x, s1) = a
  BY OneOf
<1> HIDE DEF s1
<1>3. IsSeq(s2) /\ Shown(i, items, x, s2) = b
  <2>1. Shown(i, items, x, s2) = b
    <3>1. CASE part.text # <<>>
      <4>1. s2 = s1 \o <<e2>> /\ b = Shown(i, items, a, <<e2>>) /\ IsSeq(<<e2>>)
        BY <3>1, OneOf
      <4> HIDE DEF s2, b, a
      <4>2. QED
        BY <1>2, <4>1, ShownMore
    <3>2. CASE part.text = <<>>
      <4>1. s2 = s1 \o <<>> /\ b = a /\ s1 \o <<>> = s1
        BY <1>2, <3>2, NoneOf, Concat
      <4> HIDE DEF s2, b, a
      <4>2. QED
        BY <1>2, <4>1
    <3>3. QED
      BY <3>1, <3>2
  <2>2. IsSeq(s2)
    BY <1>2, OneOf, NoneOf, Concat
  <2>3. QED
    BY <2>1, <2>2
<1> HIDE DEF s2, b
<1>4. IsSeq(s3) /\ Shown(i, items, x, s3) = c
  <2>1. Shown(i, items, x, s3) = c
    BY <1>3, ShownMaybe
  <2>2. IsSeq(s3)
    BY <1>3, OneOf, NoneOf, Concat
  <2>3. QED
    BY <2>1, <2>2
<1> HIDE DEF s3, c
<1>5. Shown(i, items, x, s4) = d4
  BY <1>4, ShownMaybe
<1>6. QED
  BY <1>1, <1>5 DEF Seen, e1, e2, e3, e4, b, c

\* How one event of a part is replayed.
PartTypes == {"part.added", "delta", "text.done", "part.done"}

LEMMA SeenIs ==
    ASSUME NEW i, NEW items, NEW x, NEW w, NEW p, NEW part, NEW type, NEW text
    PROVE  LET e == PartEvent(type, i, w, p, part, text) IN
           Seen(i, items, x, w, p, part, type, text)
           = IF Keep(items[i], e) THEN Join(x, Trimmed(items[i], e)) ELSE x
<1> DEFINE e == PartEvent(type, i, w, p, part, text)
<1>1. DOMAIN e = EventFields /\ e.index = i
  BY PartEventIs
<1> HIDE DEF e
<1>2. Shown(i, items, x, <<e>>) = IF Keep(items[i], e) THEN Join(x, Trimmed(items[i], e)) ELSE x
  BY <1>1, ShownEvent
<1>3. QED
  BY <1>2 DEF Seen, e

\* A part the client has nothing of is told from its start to its end.
LEMMA NewPart ==
    ASSUME NEW i, NEW items, NEW x, NEW w, NEW p, NEW part
    PROVE  IsSeq(x) /\ p \notin 1 .. Len(items[i].parts)
           => Shown(i, items, x, PartView(i, w, p, part)) = Told(x, i, w, p, part)
<1>a. SUFFICES ASSUME IsSeq(x), p \notin 1 .. Len(items[i].parts)
               PROVE  Shown(i, items, x, PartView(i, w, p, part)) = Told(x, i, w, p, part)
  OBVIOUS
<1> DEFINE E(type, text) == PartEvent(type, i, w, p, part, text)
           S(y, type, text) == Seen(i, items, y, w, p, part, type, text)
           s1 == x \o <<E("part.added", <<>>)>>
           s2 == IF part.text # <<>> THEN s1 \o <<E("delta", part.text)>> ELSE s1
           s3 == IF part.textDone THEN s2 \o <<E("text.done", part.text)>> ELSE s2
           s4 == IF part.done THEN s3 \o <<E("part.done", part.text)>> ELSE s3
<1>1. ASSUME NEW y, NEW type \in PartTypes, NEW text PROVE S(y, type, text) = Join(y, E(type, text))
  <2> DEFINE e == E(type, text)
  <2>1. e.part = p /\ e.type = type
    BY PartEventIs
  <2> HIDE DEF e
  <2>2. Keep(items[i], e) /\ Trimmed(items[i], e) = e
    BY <1>a, <2>1 DEF Keep, Trimmed, PartTypes
  <2>3. QED
    BY <2>2, SeenIs DEF e
<1>2. \A type, text : E(type, text).type = type
  BY PartEventIs
<1> HIDE DEF S, E
<1>3. S(x, "part.added", <<>>) = s1 /\ IsSeq(s1)
  <2>1. "part.added" \in PartTypes
    BY DEF PartTypes
  <2> DEFINE e == E("part.added", <<>>)
  <2>2. S(x, "part.added", <<>>) = Join(x, e) /\ e.type # "delta"
    BY <1>1, <1>2, <2>1
  <2> HIDE DEF e
  <2>3. Join(x, e) = x \o <<e>> /\ IsSeq(x \o <<e>>)
    BY <1>a, <2>2, JoinPlain, OneMore
  <2>4. QED
    BY <2>2, <2>3 DEF e
<1>4. (IF part.text # <<>> THEN S(s1, "delta", part.text) ELSE s1) = s2 /\ IsSeq(s2)
  <2>1. S(s1, "delta", part.text) = Join(s1, E("delta", part.text))
    BY <1>1 DEF PartTypes
  <2>2. Join(s1, E("delta", part.text)) = s1 \o <<E("delta", part.text)>>
    <3> DEFINE e == E("part.added", <<>>)
               f == E("delta", part.text)
    <3>1. e.type # "delta"
      BY <1>2
    <3> HIDE DEF e, f
    <3>2. IsSeq(x \o <<e>>) /\ Last(x \o <<e>>) = e
      BY <1>a, OneMore
    <3>3. s1 = x \o <<e>>
      BY DEF e
    <3> HIDE DEF s1
    <3>4. Join(s1, f) = s1 \o <<f>>
      BY <3>1, <3>2, <3>3, JoinFirst
    <3>5. QED
      BY <3>4 DEF f
  <2> HIDE DEF s1
  <2>3. IsSeq(s1 \o <<E("delta", part.text)>>)
    BY <1>3, OneMore
  <2>4. QED
    BY <1>3, <2>1, <2>2, <2>3
<1> HIDE DEF s1
<1>5. (IF part.textDone THEN S(s2, "text.done", part.text) ELSE s2) = s3 /\ IsSeq(s3)
  <2> HIDE DEF s2
  <2>1. S(s2, "text.done", part.text) = s2 \o <<E("text.done", part.text)>>
    <3>1. "text.done" \in PartTypes
      BY DEF PartTypes
    <3>2. QED
      BY <1>1, <1>2, <1>4, <3>1, JoinPlain
  <2>2. IsSeq(s2 \o <<E("text.done", part.text)>>)
    BY <1>4, OneMore
  <2>3. QED
    BY <1>4, <2>1, <2>2
<1>6. (IF part.done THEN S(s3, "part.done", part.text) ELSE s3) = s4
  <2> HIDE DEF s3
  <2>1. S(s3, "part.done", part.text) = s3 \o <<E("part.done", part.text)>>
    <3>1. "part.done" \in PartTypes
      BY DEF PartTypes
    <3>2. QED
      BY <1>1, <1>2, <1>5, <3>1, JoinPlain
  <2>2. QED
    BY <2>1
<1> DEFINE a == S(x, "part.added", <<>>)
           b == IF part.text # <<>> THEN S(a, "delta", part.text) ELSE a
           c == IF part.textDone THEN S(b, "text.done", part.text) ELSE b
<1>7. Shown(i, items, x, PartView(i, w, p, part))
      = IF part.done THEN S(c, "part.done", part.text) ELSE c
  BY ShownPart DEF S
<1>8. a = s1 /\ b = s2 /\ c = s3
  <2>1. a = s1
    BY <1>3
  <2> HIDE DEF a
  <2>2. b = s2
    BY <1>4, <2>1
  <2> HIDE DEF b, s2
  <2>3. c = s3
    BY <1>5, <2>2
  <2>4. QED
    BY <2>1, <2>2, <2>3
<1> HIDE DEF a, b, c, s2, s3
<1>9. Shown(i, items, x, PartView(i, w, p, part)) = s4
  BY <1>6, <1>7, <1>8
<1>10. Told(x, i, w, p, part) = s4
  BY DEF Told, E, s1, s2, s3
<1>11. QED
  BY <1>9, <1>10
\* A text and what was said of it.
LEMMA Suffix ==
    ASSUME NEW s, IsSeq(s), NEW t, IsSeq(t), IsPrefix(s, t)
    PROVE  /\ s \o SubSeq(t, Len(s) + 1, Len(t)) = t
           /\ ~(Len(t) > Len(s)) => s = t
           /\ Len(s) \in Nat /\ Len(t) \in Nat
<1> DEFINE m == Len(s)
           n == Len(t)
           u == SubSeq(t, m + 1, n)
<1>1. m \in Nat /\ n \in Nat /\ m <= n /\ SubSeq(s, 1, m) = SubSeq(t, 1, m)
  BY Elements DEF IsPrefix
<1>2. PICK T : s \in Seq(T) /\ t \in Seq(T)
  BY Together
<1>3. SubSeq(s, 1, m) = s /\ SubSeq(t, 1, n) = t
  BY <1>2, SubSeqFull
<1> HIDE DEF m, n
<1>4. SubSeq(t, 1, m) \o SubSeq(t, m + 1, n) = SubSeq(t, 1, n)
  <2>1. 1 \in 1 .. Len(t) + 1 /\ m \in 1 - 1 .. Len(t) /\ n \in m .. Len(t)
    BY <1>1 DEF n
  <2>2. QED
    BY <1>2, <2>1, ConcatAdjacentSubSeq
<1>5. s \o u = t
  BY <1>1, <1>3, <1>4
<1>6. ~(n > m) => s = t
  <2>1. SUFFICES ASSUME ~(n > m) PROVE s = t
    OBVIOUS
  <2>2. m = n
    BY <1>1, <2>1
  <2>3. QED
    BY <1>1, <1>3, <2>2
<1>7. QED
  BY <1>1, <1>5, <1>6 DEF m, n

\* The client's part agrees with the one of the response.
Agrees(fam, q, part) ==
    PartOK(fam, q) /\ IsSeq(part.text) /\ TextOK(part) /\ PartAgrees(q, part)

LEMMA AgreeFacts ==
    ASSUME NEW fam, NEW q, NEW part, Agrees(fam, q, part)
    PROVE  /\ q.kind = part.kind /\ IsSeq(q.text) /\ IsSeq(part.text)
           /\ q.textDone \in BOOLEAN /\ q.done \in BOOLEAN
           /\ HasText(part.kind) => IsPrefix(q.text, part.text)
           /\ ~HasText(part.kind) => q.text = <<>> /\ part.text = <<>> /\ ~q.textDone
           /\ q.textDone => q.text = part.text
           /\ q.done /\ HasText(part.kind) => q.textDone
           /\ part.text = <<>> => q.text = <<>>
<1>1. /\ q.kind = part.kind /\ IsSeq(q.text) /\ IsSeq(part.text)
      /\ q.textDone \in BOOLEAN /\ q.done \in BOOLEAN
  BY DEF Agrees, PartOK, PartAgrees
<1>2. /\ HasText(part.kind) => IsPrefix(q.text, part.text)
      /\ HasText(part.kind) => (q.textDone => part.text = q.text)
      /\ q.text # <<>> \/ q.textDone => HasText(q.kind)
      /\ q.done /\ HasText(q.kind) => q.textDone
      /\ ~HasText(part.kind) => part.text = <<>>
  BY <1>1 DEF Agrees, PartOK, PartAgrees, TextOK
<1>3. part.text = <<>> => q.text = <<>>
  <2> SUFFICES ASSUME part.text = <<>> PROVE q.text = <<>>
    OBVIOUS
  <2>1. CASE HasText(part.kind)
    <3>1. IsPrefix(q.text, part.text)
      BY <1>2, <2>1
    <3>2. Len(q.text) \in Nat /\ Len(q.text) <= Len(part.text) /\ Len(part.text) = 0
      BY <1>1, <3>1, Elements, NoneOf DEF IsPrefix
    <3>3. Len(q.text) = 0
      BY <3>2
    <3>4. QED
      BY <1>1, <3>3, Elements
  <2>2. CASE ~HasText(part.kind)
    BY <1>1, <1>2, <2>2
  <2>3. QED
    BY <2>1, <2>2
<1>4. QED
  BY <1>1, <1>2, <1>3

\* A part that is done with the client is the response's.
LEMMA DonePart ==
    ASSUME NEW i, NEW it, NEW w, w.fam = it.fam, w.id = it.id,
           NEW p, NEW q, NEW part, Agrees(it.fam, q, part), q.done
    PROVE  PartView(i, it, p, q) = PartView(i, w, p, Whole(part))
<1> DEFINE z == Whole(part)
           fam == it.fam
<1>1. z.kind = part.kind /\ z.text = part.text /\ z.done /\ (z.textDone <=> HasText(part.kind))
  BY DEF Whole
<1>2. q.kind = part.kind /\ q.text = part.text /\ (q.textDone <=> HasText(part.kind))
  <2>1. Agrees(fam, q, part) /\ q.done
    OBVIOUS
  <2> HIDE DEF fam
  <2>2. QED
    BY <2>1, AgreeFacts
<1> HIDE DEF z
<1>3. PartView(i, it, p, q) = PartView(i, w, p, z)
  BY <1>1, <1>2 DEF PartView, PartEvent
<1>4. QED
  BY <1>3 DEF z

\* How the four events of a part are replayed to a client that has some of it.
HasPart(items, i, p) == p \in 1 .. Len(items[i].parts)

LEMMA Replayed ==
    ASSUME NEW items, NEW i, NEW p, HasPart(items, i, p), NEW w, NEW part, NEW y
    PROVE  LET q == items[i].parts[p]
               S(type, text) == Seen(i, items, y, w, p, part, type, text)
               E(type, text) == PartEvent(type, i, w, p, part, text)
           IN  /\ S("part.added", <<>>) = y
               /\ S("delta", part.text) =
                    IF Len(part.text) > Len(q.text)
                    THEN Join(y, E("delta", SubSeq(part.text, Len(q.text) + 1, Len(part.text))))
                    ELSE y
               /\ S("text.done", part.text) =
                    IF ~q.textDone THEN Join(y, E("text.done", part.text)) ELSE y
               /\ S("part.done", part.text) =
                    IF ~q.done THEN Join(y, E("part.done", part.text)) ELSE y
<1> DEFINE it == items[i]
           q == it.parts[p]
           S(type, text) == Seen(i, items, y, w, p, part, type, text)
           E(type, text) == PartEvent(type, i, w, p, part, text)
<1>a. p \in 1 .. Len(it.parts)
  BY DEF HasPart
<1>1. it # NoItem
  <2>1. NoItem.parts = <<>> /\ Len(<<>>) = 0
    BY NoneOf DEF NoItem
  <2>2. QED
    BY <1>a, <2>1
<1>2. ASSUME NEW type, NEW text
      PROVE  S(type, text) = IF Keep(it, E(type, text)) THEN Join(y, Trimmed(it, E(type, text))) ELSE y
  BY SeenIs
<1>3. ASSUME NEW type, NEW text
      PROVE  /\ DOMAIN E(type, text) = EventFields
             /\ E(type, text).type = type /\ E(type, text).part = p /\ E(type, text).text = text
  BY PartEventIs
<1>4. S("part.added", <<>>) = y
  <2> DEFINE e == E("part.added", <<>>)
  <2>1. e.type = "part.added" /\ e.part = p
    BY <1>3
  <2> HIDE DEF e
  <2>2. ~Keep(it, e)
    BY <1>a, <1>1, <2>1 DEF Keep
  <2> HIDE DEF S
  <2>3. QED
    BY <1>2, <2>2 DEF e
<1>5. S("text.done", part.text) = IF ~q.textDone THEN Join(y, E("text.done", part.text)) ELSE y
  <2> DEFINE e == E("text.done", part.text)
  <2>1. e.type = "text.done" /\ e.part = p
    BY <1>3
  <2> HIDE DEF e
  <2>2. (Keep(it, e) <=> ~q.textDone) /\ Trimmed(it, e) = e
    BY <1>a, <1>1, <2>1 DEF Keep, Trimmed
  <2>3. S("text.done", part.text) = IF Keep(it, e) THEN Join(y, Trimmed(it, e)) ELSE y
    <3> HIDE DEF S
    <3>1. QED
      BY <1>2 DEF e
  <2> HIDE DEF S, q
  <2>4. QED
    BY <2>2, <2>3 DEF e
<1>6. S("part.done", part.text) = IF ~q.done THEN Join(y, E("part.done", part.text)) ELSE y
  <2> DEFINE e == E("part.done", part.text)
  <2>1. e.type = "part.done" /\ e.part = p
    BY <1>3
  <2> HIDE DEF e
  <2>2. (Keep(it, e) <=> ~q.done) /\ Trimmed(it, e) = e
    BY <1>a, <1>1, <2>1 DEF Keep, Trimmed
  <2>3. S("part.done", part.text) = IF Keep(it, e) THEN Join(y, Trimmed(it, e)) ELSE y
    <3> HIDE DEF S
    <3>1. QED
      BY <1>2 DEF e
  <2> HIDE DEF S, q
  <2>4. QED
    BY <2>2, <2>3 DEF e
<1>7. S("delta", part.text) =
        IF Len(part.text) > Len(q.text)
        THEN Join(y, E("delta", SubSeq(part.text, Len(q.text) + 1, Len(part.text)))) ELSE y
  <2> DEFINE e == E("delta", part.text)
             t == SubSeq(part.text, Len(q.text) + 1, Len(part.text))
             f == E("delta", t)
  <2>1. DOMAIN e = EventFields /\ e.type = "delta" /\ e.part = p /\ e.text = part.text
    BY <1>3
  <2>2. f = [e EXCEPT !.text = t]
    <3> HIDE DEF t
    <3>1. QED
      BY DEF PartEvent, Event
  <2>3. S("delta", part.text) = IF Keep(it, e) THEN Join(y, Trimmed(it, e)) ELSE y
    <3> HIDE DEF S
    <3>1. QED
      BY <1>2 DEF e
  <2> HIDE DEF e, S, f
  <2>4. Keep(it, e) <=> Len(part.text) > Len(q.text)
    BY <1>a, <1>1, <2>1 DEF Keep
  <2>5. Trimmed(it, e) = [e EXCEPT !.text = SubSeq(e.text, Len(q.text) + 1, Len(e.text))]
    BY <1>a, <2>1 DEF Trimmed, Sent
  <2>6. Trimmed(it, e) = f
    BY <2>1, <2>2, <2>5
  <2> HIDE DEF q, t
  <2>7. QED
    BY <2>3, <2>4, <2>6 DEF f, t
<1>8. QED
  BY <1>4, <1>5, <1>6, <1>7
\* The indexes of a tail are indexes of the whole.
LEMMA TailRange == \A m, n \in Nat : (m + 1) .. n \subseteq 1 .. n
OBVIOUS

\* The client has part p of item i so far, told after b; it agrees with part.
HalfSeen(items, i, p, w, part, b) ==
    /\ p \in 1 .. Len(items[i].parts) /\ w.fam = items[i].fam /\ w.id = items[i].id
    /\ Agrees(items[i].fam, items[i].parts[p], part) /\ IsSeq(b)

\* What a client has of a part is completed to the whole of it.
LEMMA HalfPart ==
    ASSUME NEW items, NEW i, NEW p, NEW w, NEW part, NEW b, HalfSeen(items, i, p, w, part, b)
    PROVE  Shown(i, items, Told(b, i, items[i], p, items[i].parts[p]), PartView(i, w, p, Whole(part)))
           = Told(b, i, w, p, Whole(part))
<1> DEFINE it == items[i]
           q == it.parts[p]
           T == part.text
           E(type, text) == PartEvent(type, i, w, p, part, text)
           S(y, type, text) == Seen(i, items, y, w, p, part, type, text)
           z == Whole(part)
           s1 == b \o <<E("part.added", <<>>)>>
           w2 == IF T # <<>> THEN s1 \o <<E("delta", T)>> ELSE s1
           w3 == IF HasText(part.kind) THEN w2 \o <<E("text.done", T)>> ELSE w2
           w4 == w3 \o <<E("part.done", T)>>
           q2 == IF q.text # <<>> THEN s1 \o <<E("delta", q.text)>> ELSE s1
           q3 == IF q.textDone THEN q2 \o <<E("text.done", q.text)>> ELSE q2
           q4 == IF q.done THEN q3 \o <<E("part.done", q.text)>> ELSE q3
           x2 == IF q.textDone THEN w2 \o <<E("text.done", T)>> ELSE w2
           x3 == IF q.done THEN x2 \o <<E("part.done", T)>> ELSE x2
           z3 == IF q.done THEN w3 \o <<E("part.done", T)>> ELSE w3
           y2 == IF T # <<>> THEN S(q4, "delta", T) ELSE q4
           y3 == IF HasText(part.kind) THEN S(y2, "text.done", T) ELSE y2
<1>a. /\ p \in 1 .. Len(it.parts) /\ w.fam = it.fam /\ w.id = it.id
      /\ Agrees(it.fam, q, part) /\ IsSeq(b)
  BY DEF HalfSeen
<1>1. /\ z.kind = part.kind /\ z.text = T /\ z.done /\ (z.textDone <=> HasText(part.kind))
  BY DEF Whole
<1>2. /\ q.kind = part.kind /\ IsSeq(q.text) /\ IsSeq(T)
      /\ q.textDone \in BOOLEAN /\ q.done \in BOOLEAN
      /\ HasText(part.kind) => IsPrefix(q.text, T)
      /\ ~HasText(part.kind) => q.text = <<>> /\ T = <<>> /\ ~q.textDone
      /\ q.textDone => q.text = T
      /\ q.done /\ HasText(part.kind) => q.textDone
      /\ T = <<>> => q.text = <<>>
  <2> DEFINE fam == it.fam
  <2>1. Agrees(fam, q, part)
    BY <1>a
  <2> HIDE DEF fam, q
  <2>2. QED
    BY <2>1, AgreeFacts
<1>3. Told(b, i, w, p, z) = w4
  BY <1>1 DEF Told, PartEvent
<1>4. Told(b, i, it, p, q) = q4
  <2>1. \A type, text : PartEvent(type, i, it, p, q, text) = E(type, text)
    BY <1>a, <1>2 DEF PartEvent
  <2>2. QED
    BY <2>1 DEF Told
<1>5. ASSUME NEW y
      PROVE  /\ S(y, "part.added", <<>>) = y
             /\ S(y, "delta", T) =
                  IF Len(T) > Len(q.text)
                  THEN Join(y, E("delta", SubSeq(T, Len(q.text) + 1, Len(T)))) ELSE y
             /\ S(y, "text.done", T) = IF ~q.textDone THEN Join(y, E("text.done", T)) ELSE y
             /\ S(y, "part.done", T) = IF ~q.done THEN Join(y, E("part.done", T)) ELSE y
  <2>1. HasPart(items, i, p)
    BY <1>a DEF HasPart
  <2>2. QED
    BY <2>1, Replayed
<1>6. \A type, text : /\ DOMAIN E(type, text) = EventFields /\ E(type, text).type = type
                      /\ E(type, text).part = p /\ E(type, text).text = text
  BY PartEventIs
<1>7. Shown(i, items, q4, PartView(i, w, p, z)) = S(y3, "part.done", T)
  <2> DEFINE a == Seen(i, items, q4, w, p, z, "part.added", <<>>)
             bb == IF z.text # <<>> THEN Seen(i, items, a, w, p, z, "delta", z.text) ELSE a
             c == IF z.textDone THEN Seen(i, items, bb, w, p, z, "text.done", z.text) ELSE bb
  <2>1. Shown(i, items, q4, PartView(i, w, p, z))
        = IF z.done THEN Seen(i, items, c, w, p, z, "part.done", z.text) ELSE c
    <3> HIDE DEF q4, z
    <3>1. QED
      BY ShownPart
  <2>2. ASSUME NEW y, NEW type, NEW text PROVE Seen(i, items, y, w, p, z, type, text) = S(y, type, text)
    BY <1>1 DEF Seen, PartEvent
  <2> HIDE DEF S, z, q4
  <2>3. a = q4
    BY <1>5, <2>2
  <2> HIDE DEF a
  <2>4. bb = y2
    BY <1>1, <2>2, <2>3
  <2> HIDE DEF bb, y2
  <2>5. c = y3
    BY <1>1, <2>2, <2>4
  <2> HIDE DEF c, y3
  <2>6. QED
    BY <1>1, <2>1, <2>2, <2>5
<1> DEFINE ea == E("part.added", <<>>)
           et == E("text.done", T)
           ed == E("part.done", T)
           D(t) == E("delta", t)
<1>8. ea.type # "delta" /\ et.type # "delta" /\ ed.type # "delta"
      /\ \A t : DOMAIN D(t) = EventFields /\ D(t).type = "delta" /\ D(t).part = p /\ D(t).text = t
  BY <1>6
<1>9. \A s, t : [D(s) EXCEPT !.text = t] = D(t)
  BY DEF PartEvent, Event
<1>10. IsSeq(s1) /\ Last(s1) = ea
  <2> HIDE DEF E
  <2>1. QED
    BY <1>a, OneMore
<1> HIDE DEF S, z, E
<1>11. IsSeq(w2) /\ IsSeq(w3)
  <2> HIDE DEF s1
  <2>1. IsSeq(w2)
    BY <1>10, OneMore
  <2> HIDE DEF w2
  <2>2. QED
    BY <2>1, OneMore
<1>12. y2 = x3
  <2>1. CASE q.text = T
    <3>1. q4 = x3
      BY <2>1
    <3>2. S(q4, "delta", T) = q4
      <4>1. Len(T) \in Nat /\ ~(Len(T) > Len(q.text))
        BY <1>2, <2>1, Elements
      <4> HIDE DEF q4
      <4>2. QED
        BY <1>5, <4>1
    <3> HIDE DEF q4, x3
    <3>3. QED
      BY <3>1, <3>2
  <2>2. CASE q.text # T
    <3>1. T # <<>> /\ HasText(part.kind) /\ ~q.textDone /\ ~q.done
      BY <1>2, <2>2
    <3> DEFINE u == SubSeq(T, Len(q.text) + 1, Len(T))
    <3>2. Len(T) > Len(q.text) /\ q.text \o u = T
      BY <1>2, <2>2, <3>1, Suffix
    <3>3. IsSeq(u)
      <4>1. PICK X : T \in Seq(X)
        BY <1>2 DEF IsSeq
      <4>2. \A j \in (Len(q.text) + 1) .. Len(T) : T[j] \in X
        <5>1. Len(q.text) \in Nat /\ Len(T) \in Nat
          BY <1>2, Elements
        <5>2. \A j \in 1 .. Len(T) : T[j] \in X
          BY <4>1, ElementOfSeq
        <5>3. (Len(q.text) + 1) .. Len(T) \subseteq 1 .. Len(T)
          BY <5>1, TailRange
        <5>4. QED
          BY <5>2, <5>3
      <4>3. Len(q.text) + 1 \in Int /\ Len(T) \in Int
        BY <1>2, Elements
      <4>4. u \in Seq(X)
        BY <4>2, <4>3, SubSeqProperties
      <4>5. QED
        BY <4>4 DEF IsSeq
    <3> HIDE DEF u
    <3>4. q4 = q2 /\ x3 = s1 \o <<D(T)>>
      BY <3>1
    <3>5. y2 = Join(q2, D(u))
      <4>1. y2 = S(q2, "delta", T)
        BY <3>1, <3>4
      <4> HIDE DEF y2, q2
      <4>2. QED
        BY <1>5, <3>2, <4>1 DEF u
    <3>6. CASE q.text = <<>>
      <4>1. u = T /\ q2 = s1
        BY <3>2, <3>3, <3>6, NoneOf, Concat
      <4> HIDE DEF s1, D, q2, y2, x3
      <4>2. Join(s1, D(T)) = s1 \o <<D(T)>>
        BY <1>8, <1>10, JoinFirst
      <4>3. QED
        BY <3>4, <3>5, <4>1, <4>2
    <3>7. CASE q.text # <<>>
      <4>1. q2 = s1 \o <<D(q.text)>>
        BY <3>7
      <4> DEFINE e == D(q.text)
                 f == D(u)
      <4>2. e.type = "delta" /\ f.type = "delta" /\ e.part = f.part
        BY <1>8
      <4>3. [e EXCEPT !.text = @ \o f.text] = D(T)
        <5>1. e.text = q.text /\ f.text = u
          BY <1>8
        <5>2. [e EXCEPT !.text = @ \o f.text] = [e EXCEPT !.text = T]
          BY <3>2, <5>1
        <5>3. QED
          BY <1>9, <5>2
      <4> HIDE DEF s1, D, e, f, q2, y2, x3
      <4>4. Join(s1 \o <<e>>, f) = s1 \o <<[e EXCEPT !.text = @ \o f.text]>>
        BY <1>10, <4>2, JoinDelta
      <4>5. Join(q2, f) = s1 \o <<D(T)>>
        BY <4>1, <4>3, <4>4 DEF e
      <4>6. QED
        BY <3>4, <3>5, <4>5 DEF f
    <3>8. QED
      BY <3>6, <3>7
  <2>3. QED
    BY <2>1, <2>2
<1> HIDE DEF y2
<1>13. y3 = z3
  <2>1. CASE HasText(part.kind) /\ q.textDone
    <3>1. y3 = S(y2, "text.done", T) /\ S(y2, "text.done", T) = y2
      BY <1>5, <2>1
    <3>2. x3 = z3
      BY <2>1
    <3>3. QED
      BY <1>12, <3>1, <3>2
  <2>2. CASE HasText(part.kind) /\ ~q.textDone
    <3>1. ~q.done
      BY <1>2, <2>2
    <3>2. x3 = w2 /\ z3 = w2 \o <<et>>
      BY <2>2, <3>1
    <3>3. y3 = Join(y2, et)
      BY <1>5, <2>2
    <3>4. Join(w2, et) = w2 \o <<et>>
      <4> HIDE DEF w2, et
      <4>1. QED
        BY <1>8, <1>11, JoinPlain
    <3>5. QED
      BY <1>12, <3>2, <3>3, <3>4
  <2>3. CASE ~HasText(part.kind)
    <3>1. ~q.textDone /\ y3 = y2
      BY <1>2, <2>3
    <3>2. x3 = z3
      BY <2>3, <3>1
    <3>3. QED
      BY <1>12, <3>1, <3>2
  <2>4. QED
    BY <2>1, <2>2, <2>3
<1> HIDE DEF y3, w3
<1>14. S(z3, "part.done", T) = w4
  <2>1. CASE q.done
    <3>1. z3 = w4
      BY <2>1
    <3> HIDE DEF z3, w4
    <3>2. QED
      BY <1>5, <2>1, <3>1
  <2>2. CASE ~q.done
    <3>1. z3 = w3
      BY <2>2
    <3>2. S(z3, "part.done", T) = Join(w3, ed)
      BY <1>5, <2>2, <3>1
    <3>3. Join(w3, ed) = w3 \o <<ed>>
      <4> HIDE DEF ed
      <4>1. QED
        BY <1>8, <1>11, JoinPlain
    <3>4. QED
      BY <3>2, <3>3
  <2>3. QED
    BY <2>1, <2>2
<1> HIDE DEF z3, w4, q4
<1>15. QED
  BY <1>3, <1>4, <1>7, <1>13, <1>14 DEF z
\* Nothing more is told of a part that is whole with the client.
LEMMA DoneSkips ==
    ASSUME NEW items, NEW i, NEW p, NEW w, NEW part, NEW x
    PROVE  LET it == items[i]
               q == it.parts[p]
           IN  p \in 1 .. Len(it.parts) /\ Agrees(it.fam, q, part) /\ q.done
               => Shown(i, items, x, PartView(i, w, p, Whole(part))) = x
<1> DEFINE it == items[i]
           q == it.parts[p]
           T == part.text
           E(type, text) == PartEvent(type, i, w, p, part, text)
           S(y, type, text) == Seen(i, items, y, w, p, part, type, text)
           z == Whole(part)
           fam == it.fam
<1>a. SUFFICES ASSUME p \in 1 .. Len(it.parts), Agrees(it.fam, q, part), q.done
               PROVE  Shown(i, items, x, PartView(i, w, p, z)) = x
  OBVIOUS
<1>1. /\ z.kind = part.kind /\ z.text = T /\ z.done /\ (z.textDone <=> HasText(part.kind))
  BY DEF Whole
<1>2. /\ q.kind = part.kind /\ IsSeq(q.text)
      /\ HasText(part.kind) => q.textDone
      /\ q.text = T
  <2> HIDE DEF fam, q
  <2>1. QED
    BY <1>a, AgreeFacts
<1>3. ASSUME NEW y
      PROVE  /\ S(y, "part.added", <<>>) = y
             /\ S(y, "delta", T) =
                  IF Len(T) > Len(q.text)
                  THEN Join(y, E("delta", SubSeq(T, Len(q.text) + 1, Len(T)))) ELSE y
             /\ S(y, "text.done", T) = IF ~q.textDone THEN Join(y, E("text.done", T)) ELSE y
             /\ S(y, "part.done", T) = IF ~q.done THEN Join(y, E("part.done", T)) ELSE y
  <2>1. HasPart(items, i, p)
    BY <1>a DEF HasPart
  <2>2. QED
    BY <2>1, Replayed
<1>4. ~(Len(T) > Len(q.text))
  BY <1>2, Elements
<1> DEFINE a == Seen(i, items, x, w, p, z, "part.added", <<>>)
           bb == IF z.text # <<>> THEN Seen(i, items, a, w, p, z, "delta", z.text) ELSE a
           c == IF z.textDone THEN Seen(i, items, bb, w, p, z, "text.done", z.text) ELSE bb
<1>5. Shown(i, items, x, PartView(i, w, p, z))
      = IF z.done THEN Seen(i, items, c, w, p, z, "part.done", z.text) ELSE c
  <2> HIDE DEF z
  <2>1. QED
    BY ShownPart
<1>6. ASSUME NEW y, NEW type, NEW text PROVE Seen(i, items, y, w, p, z, type, text) = S(y, type, text)
  BY <1>1 DEF Seen, PartEvent
<1> HIDE DEF S, z, q
<1>7. a = x
  BY <1>3, <1>6
<1> HIDE DEF a
<1>8. bb = x
  BY <1>1, <1>3, <1>4, <1>6, <1>7
<1> HIDE DEF bb
<1>9. c = x
  BY <1>1, <1>2, <1>3, <1>6, <1>8
<1> HIDE DEF c
<1>10. QED
  BY <1>a, <1>1, <1>3, <1>5, <1>6, <1>9

----------------------------------------------------------------------------
(* A replay, item by item.                                                 *)

\* The client's item agrees with the one of the response.
Matches(i, it, item) ==
    /\ ItemOK(i, it) /\ it # NoItem /\ PartsOK(item)
    /\ item.fam = it.fam /\ item.id = it.id /\ ItemAgrees(it, item.parts)

LEMMA MatchFacts ==
    ASSUME NEW i, NEW it, NEW item, Matches(i, it, item)
    PROVE  /\ Len(it.parts) \in Nat /\ Len(item.parts) \in Nat /\ Len(it.parts) <= Len(item.parts)
           /\ it.fam \in {"message", "reasoning"} /\ it.done \in BOOLEAN
           /\ \A p \in 1 .. Len(it.parts) : Agrees(it.fam, it.parts[p], item.parts[p])
           /\ \A p \in 1 .. Len(it.parts) : it.done \/ p < Len(it.parts) => it.parts[p].done
<1>1. IsSeq(it.parts) /\ IsSeq(item.parts) /\ Len(it.parts) <= Len(item.parts)
  BY DEF Matches, ItemOK, PartsOK, ItemAgrees
<1>2. Len(it.parts) \in Nat /\ Len(item.parts) \in Nat
  BY <1>1, Elements
<1>3. ASSUME NEW p \in 1 .. Len(it.parts) PROVE Agrees(it.fam, it.parts[p], item.parts[p])
  <2>1. p \in 1 .. Len(item.parts)
    BY <1>1, <1>2
  <2>2. PartOK(it.fam, it.parts[p])
    BY DEF Matches, ItemOK
  <2>3. TextOK(item.parts[p]) /\ IsSeq(item.parts[p].text)
    BY <2>1 DEF Matches, PartsOK
  <2>4. PartAgrees(it.parts[p], item.parts[p])
    BY DEF Matches, ItemAgrees
  <2>5. QED
    BY <2>2, <2>3, <2>4 DEF Agrees
<1>4. it.fam \in {"message", "reasoning"} /\ it.done \in BOOLEAN
  BY DEF Matches, ItemOK
<1>5. \A p \in 1 .. Len(it.parts) : it.done \/ p < Len(it.parts) => it.parts[p].done
  BY DEF Matches, ItemOK
<1>6. QED
  BY <1>1, <1>2, <1>3, <1>4, <1>5

\* All of an item that is replayed with its summaries.
Full(item) == WholeItem(item, TRUE)

\* As far as its parts are done, what the client has is what the response says.
LEMMA DoneBody ==
    ASSUME NEW i, NEW it, NEW item, Matches(i, it, item), NEW n \in 0 .. Len(it.parts),
           \A p \in 1 .. n : it.parts[p].done
    PROVE  Body(i, it, n) = Body(i, Full(item), n)
<1> DEFINE w == Full(item)
<1>1. /\ w.fam = item.fam /\ w.id = item.id /\ Len(w.parts) = Len(item.parts)
      /\ \A p \in 1 .. Len(w.parts) : w.parts[p] = Whole(item.parts[p])
  <2>1. IsSeq(item.parts) /\ item.fam \in {"message", "reasoning"}
    BY DEF Matches, ItemOK, PartsOK
  <2>2. QED
    BY <2>1, WholeParts DEF Full
<1> HIDE DEF w
<1>2. w.fam = it.fam /\ w.id = it.id
  BY <1>1 DEF Matches
<1>3. ASSUME NEW p \in 1 .. n PROVE PartView(i, it, p, it.parts[p]) = PartView(i, w, p, w.parts[p])
  <2>1. p \in 1 .. Len(it.parts) /\ p \in 1 .. Len(w.parts)
    BY <1>1, MatchFacts
  <2> DEFINE q == it.parts[p]
             part == item.parts[p]
  <2>2. Agrees(it.fam, q, part) /\ q.done
    BY <2>1, MatchFacts
  <2> HIDE DEF q, part
  <2>3. PartView(i, it, p, q) = PartView(i, w, p, Whole(part))
    BY <1>2, <2>2, DonePart
  <2>4. QED
    BY <1>1, <2>1, <2>3 DEF q, part
<1>4. n \in Nat
  OBVIOUS
<1>5. Body(i, it, n) = Body(i, w, n)
  BY <1>2, <1>3, <1>4, BodySame
<1>6. QED
  BY <1>5 DEF w
LEMMA MatchWhole ==
    ASSUME NEW i, NEW it, NEW item, Matches(i, it, item)
    PROVE  LET w == Full(item) IN
           /\ w.fam = it.fam /\ w.id = it.id /\ Len(w.parts) = Len(item.parts)
           /\ \A p \in 1 .. Len(item.parts) : w.parts[p] = Whole(item.parts[p])
<1> DEFINE w == Full(item)
<1>1. IsSeq(item.parts) /\ item.fam \in {"message", "reasoning"} /\ item.fam = it.fam /\ item.id = it.id
  BY DEF Matches, ItemOK, PartsOK
<1>2. /\ w.fam = item.fam /\ w.id = item.id /\ Len(w.parts) = Len(item.parts)
      /\ \A p \in 1 .. Len(w.parts) : w.parts[p] = Whole(item.parts[p])
  BY <1>1, WholeParts DEF Full
<1> HIDE DEF w
<1>3. QED
  BY <1>1, <1>2 DEF w

\* The opening of an item goes out once.
LEMMA ShownOpening ==
    ASSUME NEW items, NEW i, NEW w, NEW x
    PROVE  Shown(i, items, x, <<Opening(i, w)>>)
           = IF items[i] = NoItem THEN Join(x, Opening(i, w)) ELSE x
<1> DEFINE e == Opening(i, w)
           it == items[i]
<1>1. DOMAIN e = EventFields /\ e.type = "item.added" /\ e.index = i
  BY OpeningIs
<1> HIDE DEF e
<1>2. Shown(i, items, x, <<e>>) = IF Keep(it, e) THEN Join(x, Trimmed(it, e)) ELSE x
  BY <1>1, ShownEvent
<1> HIDE DEF it
<1>3. (Keep(it, e) <=> it = NoItem) /\ Trimmed(it, e) = e
  BY <1>1 DEF Keep, Trimmed
<1>4. QED
  BY <1>2, <1>3 DEF it, e

\* The closing goes out with the response unless it went out before.
Closes(e, i) == DOMAIN e = EventFields /\ e.type = "item.done" /\ e.index = i

LEMMA ShownClosing ==
    ASSUME NEW items, NEW i, NEW e, Closes(e, i), NEW x
    PROVE  /\ items[i] = NoItem \/ items[i].fam = "reasoning" \/ ~items[i].done
              => Shown(i, items, x, <<e>>) = Join(x, e)
           /\ items[i] # NoItem /\ items[i].fam # "reasoning" /\ items[i].done
              => Shown(i, items, x, <<e>>) = x
<1> DEFINE it == items[i]
<1>1. DOMAIN e = EventFields /\ e.type = "item.done" /\ e.index = i
  BY DEF Closes
<1>2. Shown(i, items, x, <<e>>) = IF Keep(it, e) THEN Join(x, Trimmed(it, e)) ELSE x
  BY <1>1, ShownEvent
<1> HIDE DEF it
<1>3. (Keep(it, e) <=> (it = NoItem \/ it.fam = "reasoning" \/ ~it.done)) /\ Trimmed(it, e) = e
  BY <1>1 DEF Keep, Trimmed
<1>4. QED
  BY <1>2, <1>3 DEF it

\* Nothing more is told of the parts that are whole with the client.
LEMMA SkipBody ==
    ASSUME NEW items, NEW i, NEW item, NEW x, NEW n
    PROVE  LET it == items[i]
               w == Full(item)
           IN  /\ Matches(i, it, item) /\ n \in 0 .. Len(it.parts)
               /\ \A p \in 1 .. n : it.parts[p].done
               => Shown(i, items, x, Body(i, w, n)) = x
<1> DEFINE it == items[i]
           w == Full(item)
           P == {k \in Nat : k <= n => Shown(i, items, x, Body(i, w, k)) = x}
<1>a. SUFFICES ASSUME Matches(i, it, item), n \in 0 .. Len(it.parts), \A p \in 1 .. n : it.parts[p].done
               PROVE  Shown(i, items, x, Body(i, w, n)) = x
  OBVIOUS
<1>1. /\ Len(it.parts) \in Nat /\ Len(item.parts) \in Nat /\ Len(it.parts) <= Len(item.parts)
      /\ \A p \in 1 .. Len(it.parts) : Agrees(it.fam, it.parts[p], item.parts[p])
  BY <1>a, MatchFacts
<1>2. \A p \in 1 .. Len(item.parts) : w.parts[p] = Whole(item.parts[p])
  <2>1. Matches(i, it, item)
    BY <1>a
  <2> HIDE DEF it
  <2>2. QED
    BY <2>1, MatchWhole
<1>3. it # NoItem
  BY <1>a DEF Matches
<1> HIDE DEF w
<1>4. n \in Nat
  BY <1>a, <1>1
<1>5. 0 \in P
  <2>1. Body(i, w, 0) = <<Opening(i, w)>>
    BY BodyNone
  <2>2. Shown(i, items, x, <<Opening(i, w)>>) = x
    BY <1>3, ShownOpening
  <2>3. QED
    BY <2>1, <2>2
<1>6. ASSUME NEW k \in 0 .. n, k + 1 <= n, k \in P PROVE k + 1 \in P
  <2> DEFINE m == k + 1
             part == item.parts[m]
             v == PartView(i, w, m, w.parts[m])
             b == Body(i, w, k)
  <2>1. k \in Nat /\ m \in Nat /\ m \in 1 .. n /\ m \in 1 .. Len(it.parts) /\ m \in 1 .. Len(item.parts)
    BY <1>a, <1>1, <1>6
  <2>2. Shown(i, items, x, b) = x
    BY <1>4, <1>6
  <2>3. Agrees(it.fam, it.parts[m], part) /\ it.parts[m].done /\ w.parts[m] = Whole(part)
    BY <1>a, <1>1, <1>2, <2>1
  <2>4. IsSeq(b) /\ IsSeq(v)
    BY <2>1, BodyIsSeq, PartViewIsSeq
  <2>5. Body(i, w, m) = b \o v
    BY <2>1, BodyNext
  <2> HIDE DEF m, part
  <2>6. Shown(i, items, x, PartView(i, w, m, Whole(part))) = x
    BY <2>1, <2>3, DoneSkips
  <2>7. Shown(i, items, x, v) = x
    BY <2>3, <2>6
  <2> HIDE DEF b, v
  <2>8. Shown(i, items, x, Body(i, w, m)) = x
    BY <2>2, <2>4, <2>5, <2>7, ShownMore
  <2>9. QED
    BY <2>1, <2>8 DEF m
<1> HIDE DEF P
<1>7. 0 .. n \subseteq P
  BY <1>4, <1>5, <1>6, Climb
<1>8. n \in 0 .. n
  BY <1>4
<1>9. n \in P
  BY <1>7, <1>8
<1>10. QED
  BY <1>4, <1>9 DEF P

\* What the client has is completed as far as the delivery's parts go.
LEMMA HalfBody ==
    ASSUME NEW items, NEW i, NEW item
    PROVE  LET it == items[i]
               w == Full(item)
               n == Len(it.parts)
           IN  Matches(i, it, item) => Shown(i, items, Body(i, it, n), Body(i, w, n)) = Body(i, w, n)
<1> DEFINE it == items[i]
           w == Full(item)
           n == Len(it.parts)
<1>a. SUFFICES ASSUME Matches(i, it, item)
               PROVE  Shown(i, items, Body(i, it, n), Body(i, w, n)) = Body(i, w, n)
  OBVIOUS
<1>1. /\ n \in Nat /\ Len(item.parts) \in Nat /\ n <= Len(item.parts)
      /\ \A p \in 1 .. n : Agrees(it.fam, it.parts[p], item.parts[p])
      /\ \A p \in 1 .. n : p < n => it.parts[p].done
  BY <1>a, MatchFacts
<1>2. /\ w.fam = it.fam /\ w.id = it.id
      /\ \A p \in 1 .. Len(item.parts) : w.parts[p] = Whole(item.parts[p])
  <2>1. Matches(i, it, item)
    BY <1>a
  <2> HIDE DEF it
  <2>2. QED
    BY <2>1, MatchWhole
<1>3. it # NoItem
  BY <1>a DEF Matches
<1>4. CASE n = 0
  <2>1. \A y : Shown(i, items, y, Body(i, w, n)) = y
    <3>1. \A p \in 1 .. 0 : it.parts[p].done
      OBVIOUS
    <3>2. 0 \in 0 .. Len(it.parts)
      BY <1>1
    <3>3. QED
      BY <1>a, <1>4, <3>1, <3>2, SkipBody
  <2> HIDE DEF w
  <2>2. Body(i, it, n) = Body(i, w, n)
    BY <1>2, <1>4, BodyNone, PartSame
  <2>3. QED
    BY <2>1, <2>2
<1>5. CASE n # 0
  <2> DEFINE k == n - 1
             b == Body(i, it, k)
             q == it.parts[n]
             part == item.parts[n]
  <2>1. k \in Nat /\ k + 1 = n /\ k \in 0 .. n /\ n \in 1 .. n /\ n \in 1 .. Len(item.parts)
    BY <1>1, <1>5
  <2>2. \A p \in 1 .. k : it.parts[p].done
    BY <1>1, <2>1
  <2>3. b = Body(i, w, k)
    BY <1>a, <2>1, <2>2, DoneBody
  <2>4. \A y : Shown(i, items, y, Body(i, w, k)) = y
    BY <1>a, <2>1, <2>2, SkipBody
  <2>5. Agrees(it.fam, q, part) /\ w.parts[n] = Whole(part)
    BY <1>1, <1>2, <2>1
  <2>6. IsSeq(b) /\ IsSeq(PartView(i, w, n, Whole(part)))
    BY <2>1, BodyIsSeq, PartViewIsSeq
  <2> HIDE DEF w
  <2>7. Body(i, it, n) = Told(b, i, it, n, q)
    <3>1. Body(i, it, k + 1) = b \o PartView(i, it, k + 1, it.parts[k + 1])
      BY <2>1, BodyNext
    <3>2. Body(i, it, n) = b \o PartView(i, it, n, q)
      BY <2>1, <3>1
    <3> HIDE DEF b, q, n
    <3>3. QED
      BY <2>6, <3>2, PartTold
  <2>8. Body(i, w, n) = b \o PartView(i, w, n, Whole(part)) /\ b \o PartView(i, w, n, Whole(part)) = Told(b, i, w, n, Whole(part))
    <3>1. Body(i, w, k + 1) = Body(i, w, k) \o PartView(i, w, k + 1, w.parts[k + 1])
      BY <2>1, BodyNext
    <3>2. Body(i, w, n) = b \o PartView(i, w, n, w.parts[n])
      BY <2>1, <2>3, <3>1
    <3> HIDE DEF b, part, n
    <3>3. b \o PartView(i, w, n, Whole(part)) = Told(b, i, w, n, Whole(part))
      BY <2>6, PartTold
    <3>4. QED
      BY <2>5, <3>2, <3>3
  <2>9. Shown(i, items, Told(b, i, it, n, q), PartView(i, w, n, Whole(part))) = Told(b, i, w, n, Whole(part))
    <3>1. HalfSeen(items, i, n, w, part, b)
      BY <1>2, <2>1, <2>5, <2>6 DEF HalfSeen
    <3> HIDE DEF b, part, k, n
    <3>2. QED
      BY <3>1, HalfPart
  <2> HIDE DEF b, q, part, k, n
  <2>10. \A y : Shown(i, items, y, b \o PartView(i, w, n, Whole(part)))
                = Shown(i, items, Shown(i, items, y, b), PartView(i, w, n, Whole(part)))
    BY <2>6, ShownMore
  <2>11. \A y : Shown(i, items, y, b) = y
    BY <2>3, <2>4
  <2>12. Shown(i, items, Body(i, it, n), b \o PartView(i, w, n, Whole(part))) = Told(b, i, w, n, Whole(part))
    BY <2>7, <2>9, <2>10, <2>11
  <2>13. QED
    BY <2>8, <2>12
<1>6. QED
  BY <1>4, <1>5

\* The parts the client has nothing of follow those it has, m in number.
HasBody(items, i, w, x, m) ==
    /\ m \in Nat /\ Len(items[i].parts) = m
    /\ Shown(i, items, x, Body(i, w, m)) = Body(i, w, m)

LEMMA NewParts ==
    ASSUME NEW items, NEW i, NEW w, NEW x, NEW m, HasBody(items, i, w, x, m), NEW n \in Nat
    PROVE  Shown(i, items, x, Body(i, w, m + n)) = Body(i, w, m + n)
<1>a. /\ m \in Nat /\ n \in Nat /\ Len(items[i].parts) = m
      /\ Shown(i, items, x, Body(i, w, m)) = Body(i, w, m)
  BY DEF HasBody
<1> DEFINE P == {k \in Nat : Shown(i, items, x, Body(i, w, m + k)) = Body(i, w, m + k)}
<1>1. 0 \in P
  BY <1>a
<1>2. ASSUME NEW k \in 0 .. n, k + 1 <= n, k \in P PROVE k + 1 \in P
  <2> DEFINE l == m + k
             p == l + 1
             part == w.parts[p]
             v == PartView(i, w, p, part)
             b == Body(i, w, l)
  <2>1. l \in Nat /\ p \in Nat /\ p = m + (k + 1) /\ k + 1 \in Nat /\ p \notin 1 .. m
    BY <1>a, <1>2
  <2>2. Shown(i, items, x, b) = b
    BY <1>2
  <2>3. IsSeq(b) /\ IsSeq(v)
    BY <2>1, BodyIsSeq, PartViewIsSeq
  <2>4. Body(i, w, p) = b \o v
    BY <2>1, BodyNext
  <2> HIDE DEF b, l, p, part
  <2>5. Shown(i, items, b, v) = Told(b, i, w, p, part)
    <3>1. p \notin 1 .. Len(items[i].parts) /\ IsSeq(b)
      BY <1>a, <2>1, <2>3
    <3>2. QED
      BY <3>1, NewPart
  <2>6. b \o v = Told(b, i, w, p, part)
    BY <2>3, PartTold
  <2> HIDE DEF v
  <2>7. Shown(i, items, x, b \o v) = Shown(i, items, Shown(i, items, x, b), v)
    BY <2>3, ShownMore
  <2>8. Shown(i, items, x, Body(i, w, p)) = Body(i, w, p)
    BY <2>2, <2>4, <2>5, <2>6, <2>7
  <2>9. QED
    BY <2>1, <2>8
<1> HIDE DEF P
<1>3. 0 .. n \subseteq P
  BY <1>a, <1>1, <1>2, Climb
<1>4. n \in 0 .. n
  BY <1>a
<1>5. n \in P
  BY <1>3, <1>4
<1>6. QED
  BY <1>5 DEF P
\* A message that is whole with the client is what the response says.
LEMMA DoneItem ==
    ASSUME NEW i, NEW it, NEW item, Matches(i, it, item), it.done, it.fam = "message",
           it.snapshot = item.parts
    PROVE  View(i, it) = ItemEvents(i, item, TRUE, FALSE)
<1> DEFINE w == Full(item)
           m == Len(it.parts)
           n == Len(item.parts)
<1>1. m \in Nat /\ m = n /\ \A p \in 1 .. m : it.parts[p].done
  <2>1. m = n
    BY DEF Matches, ItemAgrees
  <2>2. m \in Nat /\ \A p \in 1 .. m : it.done => it.parts[p].done
    BY MatchFacts
  <2>3. QED
    BY <2>1, <2>2
<1>2. it # NoItem /\ PartsOK(item)
  BY DEF Matches
<1>3. w.fam = it.fam /\ w.id = it.id /\ Len(w.parts) = n
  BY MatchWhole
<1>4. ItemEvents(i, item, TRUE, FALSE) = Body(i, w, Len(w.parts)) \o <<Closing(i, w, item.parts)>>
  BY <1>2, ItemEventsView DEF Full
<1>5. Body(i, it, m) = Body(i, w, m)
  <2>1. m \in 0 .. m
    BY <1>1
  <2>2. QED
    BY <1>1, <2>1, DoneBody
<1>6. Closing(i, it, it.snapshot) = Closing(i, w, item.parts)
  BY <1>3 DEF Closing
<1>7. View(i, it) = Body(i, it, m) \o <<Closing(i, it, it.snapshot)>>
  BY <1>2 DEF View
<1> HIDE DEF w, m, n
<1>8. QED
  BY <1>1, <1>3, <1>4, <1>5, <1>6, <1>7

\* What went out early of an item and what is replayed of it are its events;
\* nothing is replayed of a message that is whole with the client.
LEMMA ResumedItem ==
    ASSUME NEW items, NEW i, NEW item, Matches(i, items[i], item)
    PROVE  Shown(i, items, View(i, items[i]), ItemEvents(i, item, TRUE, FALSE))
           = IF items[i].done /\ items[i].fam = "message" THEN View(i, items[i])
             ELSE ItemEvents(i, item, TRUE, FALSE)
<1> DEFINE it == items[i]
           w == Full(item)
           m == Len(it.parts)
           n == Len(item.parts)
           e == Closing(i, w, item.parts)
           c == <<e>>
           v == View(i, it)
<1>a. Matches(i, it, item)
  OBVIOUS
<1> HIDE DEF it
<1>1. /\ m \in Nat /\ n \in Nat /\ m <= n /\ it.fam \in {"message", "reasoning"} /\ it.done \in BOOLEAN
      /\ it.done => \A p \in 1 .. m : it.parts[p].done
  BY <1>a, MatchFacts
<1>2. it # NoItem /\ PartsOK(item)
  BY <1>a DEF Matches
<1>3. w.fam = it.fam /\ w.id = it.id /\ Len(w.parts) = n
  BY <1>a, MatchWhole
<1>4. ItemEvents(i, item, TRUE, FALSE) = Body(i, w, n) \o c
  <2>1. ItemEvents(i, item, TRUE, FALSE) = Body(i, w, Len(w.parts)) \o c
    BY <1>2, ItemEventsView DEF Full
  <2>2. QED
    BY <1>3, <2>1
<1> HIDE DEF w
<1>5. IsSeq(Body(i, w, n)) /\ IsSeq(c)
  BY <1>1, BodyIsSeq, OneOf
<1>6. ASSUME NEW y
      PROVE  /\ it.fam = "reasoning" \/ ~it.done => Shown(i, items, y, c) = Join(y, e)
             /\ it # NoItem /\ it.fam # "reasoning" /\ it.done => Shown(i, items, y, c) = y
  <2>1. Closes(e, i)
    BY ClosingIs DEF Closes
  <2> HIDE DEF e
  <2>2. QED
    BY <2>1, ShownClosing DEF it
<1>7. \A y : Shown(i, items, y, Body(i, w, n) \o c) = Shown(i, items, Shown(i, items, y, Body(i, w, n)), c)
  BY <1>5, ShownMore
<1>8. CASE it.done /\ it.fam = "message"
  <2>1. m = n
    BY <1>a, <1>8 DEF Matches, ItemAgrees
  <2>2. m \in 0 .. m /\ \A p \in 1 .. m : it.parts[p].done
    BY <1>1, <1>8
  <2>3. \A y : Shown(i, items, y, Body(i, w, m)) = y
    BY <1>a, <2>2, SkipBody DEF w, it
  <2> HIDE DEF m, n, e, v
  <2>4. Shown(i, items, v, c) = v
    BY <1>2, <1>6, <1>8
  <2>5. Shown(i, items, v, Body(i, w, n) \o c) = v
    BY <1>7, <2>1, <2>3, <2>4
  <2>6. QED
    BY <1>4, <1>8, <2>5 DEF it, v
<1>9. CASE ~(it.done /\ it.fam = "message")
  <2> DEFINE b == Body(i, it, m)
  <2>1. v = b
    <3>1. v = b \o <<>> /\ IsSeq(b)
      BY <1>1, <1>2, <1>9, BodyIsSeq DEF View
    <3> HIDE DEF b, v
    <3>2. QED
      BY <3>1, Concat, NoneOf
  <2>2. Shown(i, items, b, Body(i, w, m)) = Body(i, w, m)
    BY <1>a, HalfBody DEF w, it
  <2>3. Shown(i, items, b, Body(i, w, n)) = Body(i, w, n)
    <3> DEFINE k == n - m
    <3>1. k \in Nat /\ m + k = n
      BY <1>1
    <3>2. Len(items[i].parts) = m
      BY DEF it
    <3> HIDE DEF b, m, n, k
    <3>3. Shown(i, items, b, Body(i, w, m + k)) = Body(i, w, m + k)
      <4>1. HasBody(items, i, w, b, m)
        BY <1>1, <2>2, <3>2 DEF HasBody
      <4>2. QED
        BY <3>1, <4>1, NewParts
    <3>4. QED
      BY <3>1, <3>3
  <2> HIDE DEF m, n, v, b
  <2>4. Shown(i, items, Body(i, w, n), c) = Body(i, w, n) \o c
    <3>1. Shown(i, items, Body(i, w, n), c) = Join(Body(i, w, n), e)
      BY <1>1, <1>6, <1>9
    <3>2. e.type # "delta"
      BY ClosingIs
    <3> HIDE DEF e
    <3>3. QED
      BY <1>5, <3>1, <3>2, JoinPlain
  <2>5. QED
    BY <1>4, <1>7, <1>9, <2>1, <2>3, <2>4 DEF it, v
<1>10. QED
  BY <1>8, <1>9

\* An item nothing went out of is replayed from its start to its end.
LEMMA NewItem ==
    ASSUME NEW items, NEW i, items[i] = NoItem, NEW item, PartsOK(item), NEW summaries
    PROVE  Shown(i, items, <<>>, ItemEvents(i, item, summaries, FALSE))
           = ItemEvents(i, item, summaries, FALSE)
<1> DEFINE w == WholeItem(item, summaries)
           n == Len(w.parts)
           o == Opening(i, w)
           e == Closing(i, w, item.parts)
           c == <<e>>
<1>0. items[i] = NoItem
  OBVIOUS
<1>1. n \in Nat
  BY WholeParts DEF PartsOK
<1>2. ItemEvents(i, item, summaries, FALSE) = Body(i, w, n) \o c
  BY ItemEventsView
<1> HIDE DEF w
<1>3. Len(items[i].parts) = 0
  <2>1. NoItem.parts = <<>>
    BY DEF NoItem
  <2>2. QED
    BY <1>0, <2>1, NoneOf
<1>4. Shown(i, items, <<>>, Body(i, w, 0)) = Body(i, w, 0)
  <2>1. Body(i, w, 0) = <<o>> /\ Shown(i, items, <<>>, <<o>>) = Join(<<>>, o) /\ o.type # "delta"
    <3>1. Body(i, w, 0) = <<o>>
      BY BodyNone
    <3>2. Shown(i, items, <<>>, <<o>>) = Join(<<>>, o)
      BY <1>0, ShownOpening
    <3>3. o.type # "delta"
      BY OpeningIs
    <3>4. QED
      BY <3>1, <3>2, <3>3
  <2> HIDE DEF o
  <2>2. Join(<<>>, o) = <<>> \o <<o>>
    BY <2>1, NoneOf, JoinPlain
  <2>3. <<>> \o <<o>> = <<o>>
    BY OneOf, Concat
  <2>4. QED
    BY <2>1, <2>2, <2>3
<1>5. Shown(i, items, <<>>, Body(i, w, n)) = Body(i, w, n)
  <2> HIDE DEF n
  <2>1. 0 \in Nat /\ 0 + n = n
    BY <1>1
  <2>2. Shown(i, items, <<>>, Body(i, w, 0 + n)) = Body(i, w, 0 + n)
    <3>1. HasBody(items, i, w, <<>>, 0)
      BY <1>3, <1>4 DEF HasBody
    <3>2. QED
      BY <1>1, <3>1, NewParts
  <2>3. QED
    BY <2>1, <2>2
<1> HIDE DEF n
<1>6. IsSeq(Body(i, w, n)) /\ IsSeq(c)
  BY <1>1, BodyIsSeq, OneOf
<1>7. Shown(i, items, Body(i, w, n), c) = Body(i, w, n) \o c
  <2>1. Shown(i, items, Body(i, w, n), c) = Join(Body(i, w, n), e)
    <3> DEFINE b == Body(i, w, n)
    <3>1. Closes(e, i)
      BY ClosingIs DEF Closes
    <3> HIDE DEF b, e
    <3>2. Shown(i, items, b, c) = Join(b, e)
      BY <1>0, <3>1, ShownClosing
    <3>3. QED
      BY <3>2 DEF b
  <2>2. e.type # "delta"
    BY ClosingIs
  <2> HIDE DEF e
  <2>3. QED
    BY <1>6, <2>1, <2>2, JoinPlain
<1>8. Shown(i, items, <<>>, Body(i, w, n) \o c) = Shown(i, items, Shown(i, items, <<>>, Body(i, w, n)), c)
  BY <1>6, ShownMore
<1>9. QED
  BY <1>2, <1>5, <1>7, <1>8
----------------------------------------------------------------------------
(* What events there are.                                                  *)

\* x is one of the elements of s.
Elem(x, s) == \E k \in 1 .. Len(s) : x = s[k]

LEMMA ElemOne == ASSUME NEW x, NEW y, Elem(x, <<y>>) PROVE x = y
<1> DEFINE s == <<y>>
<1>1. Len(s) = 1 /\ s[1] = y
  BY OneOf
<1>2. Elem(x, s)
  OBVIOUS
<1> HIDE DEF s
<1>3. QED
  BY <1>1, <1>2 DEF Elem

LEMMA ElemNone == ASSUME NEW x PROVE ~Elem(x, <<>>)
  BY NoneOf DEF Elem

LEMMA ElemConcat ==
    ASSUME NEW s, IsSeq(s), NEW t, IsSeq(t), NEW x, Elem(x, s \o t)
    PROVE  Elem(x, s) \/ Elem(x, t)
<1> DEFINE u == s \o t
           m == Len(s)
           n == Len(t)
<1>1. /\ m \in Nat /\ n \in Nat /\ Len(u) = m + n
      /\ \A j \in 1 .. m : u[j] = s[j]
      /\ \A j \in 1 .. n : u[m + j] = t[j]
  <2>1. m \in Nat /\ n \in Nat
    BY Elements
  <2>2. Len(u) = m + n
    BY Concat
  <2>3. \A j \in 1 .. m : u[j] = s[j]
    BY Concat
  <2>4. \A j \in 1 .. n : u[m + j] = t[j]
    BY Concat
  <2>5. QED
    BY <2>1, <2>2, <2>3, <2>4
<1>2. PICK k \in 1 .. Len(u) : x = u[k]
  BY DEF Elem
<1> HIDE DEF u, m, n
<1>3. CASE k <= m
  <2>1. k \in 1 .. m
    BY <1>1, <1>2, <1>3
  <2>2. x = s[k]
    BY <1>1, <1>2, <2>1
  <2>3. QED
    BY <2>1, <2>2 DEF Elem, m
<1>4. CASE ~(k <= m)
  <2> DEFINE j == k - m
  <2>1. j \in 1 .. n /\ m + j = k
    BY <1>1, <1>2, <1>4
  <2> HIDE DEF j
  <2>2. x = t[j]
    BY <1>1, <1>2, <2>1
  <2>3. QED
    BY <2>1, <2>2 DEF Elem, n
<1>5. QED
  BY <1>3, <1>4

LEMMA ElemFlat ==
    ASSUME NEW f, NEW n \in Nat, \A j \in 1 .. n : IsSeq(f[j]), NEW x, Elem(x, Flat(f, n))
    PROVE  \E j \in 1 .. n : Elem(x, f[j])
<1> DEFINE P == {k \in Nat : k <= n => (Elem(x, Flat(f, k)) => \E j \in 1 .. k : Elem(x, f[j]))}
<1>1. 0 \in P
  <2>1. ~Elem(x, Flat(f, 0))
    BY FlatNone, ElemNone
  <2>2. QED
    BY <2>1
<1>2. ASSUME NEW k \in 0 .. n, k + 1 <= n, k \in P PROVE k + 1 \in P
  <2> DEFINE m == k + 1
             s == Flat(f, k)
  <2>1. m \in 1 .. n /\ m \in Nat /\ m \in 1 .. m /\ 1 .. k \subseteq 1 .. m
    BY <1>2
  <2>2. IsSeq(s) /\ IsSeq(f[m])
    <3>1. \A j \in 1 .. k : IsSeq(f[j])
      BY <1>2
    <3>2. QED
      BY <2>1, <3>1, FlatIsSeq
  <2>3. Flat(f, m) = s \o f[m]
    BY <2>2, FlatNext
  <2>4. Elem(x, s) => \E j \in 1 .. k : Elem(x, f[j])
    BY <1>2
  <2> HIDE DEF m, s
  <2>5. ASSUME Elem(x, Flat(f, m)) PROVE \E j \in 1 .. m : Elem(x, f[j])
    <3>1. Elem(x, s \o f[m])
      BY <2>3, <2>5
    <3>2. Elem(x, s) \/ Elem(x, f[m])
      BY <2>2, <3>1, ElemConcat
    <3>3. QED
      BY <2>1, <2>4, <3>2
  <2>6. QED
    BY <2>1, <2>5 DEF m
<1> HIDE DEF P
<1>3. 0 .. n \subseteq P
  BY <1>1, <1>2, Climb
<1>4. n \in 0 .. n
  OBVIOUS
<1>5. n \in P
  BY <1>3, <1>4
<1>6. QED
  BY <1>5 DEF P

\* An event of item number i of a response.
PartEventOf(e, i, item, p) ==
    LET part == item.parts[p]
    IN  \/ e = PartEvent("part.added", i, item, p, part, <<>>)
        \/ /\ HasText(part.kind)
           /\ \E t : IsSeq(t) /\ t # <<>> /\ e = PartEvent("delta", i, item, p, part, t)
        \/ HasText(part.kind) /\ e = PartEvent("text.done", i, item, p, part, part.text)
        \/ e = PartEvent("part.done", i, item, p, part, part.text)
EventOf(e, i, item) ==
    \/ e = Opening(i, item)
    \/ e = Closing(i, item, item.parts)
    \/ \E p \in 1 .. Len(item.parts) : PartEventOf(e, i, item, p)

LEMMA EventOfFields ==
    ASSUME NEW e, NEW i, NEW item, EventOf(e, i, item)
    PROVE  /\ DOMAIN e = EventFields /\ e.index = i /\ e.fam = item.fam /\ e.id = item.id
           /\ e.type # "created"
<1>1. CASE e = Opening(i, item)
  BY <1>1 DEF Opening, Event, EventFields
<1>2. CASE e = Closing(i, item, item.parts)
  BY <1>2 DEF Closing, Event, EventFields
<1>3. ASSUME NEW p \in 1 .. Len(item.parts), PartEventOf(e, i, item, p)
      PROVE  DOMAIN e = EventFields /\ e.index = i /\ e.fam = item.fam /\ e.id = item.id /\ e.type # "created"
  <2>1. PICK type, text : type \in PartTypes /\ e = PartEvent(type, i, item, p, item.parts[p], text)
    BY <1>3 DEF PartEventOf, PartTypes
  <2>2. QED
    BY <2>1, PartEventIs DEF PartTypes
<1>4. QED
  BY <1>1, <1>2, <1>3 DEF EventOf

LEMMA DeltasShape ==
    ASSUME NEW text, IsSeq(text), NEW split
    PROVE  LET s == Deltas(text, split)
           IN  IsSeq(s) /\ \A j \in 1 .. Len(s) : IsSeq(s[j]) /\ s[j] # <<>>
<1> DEFINE s == Deltas(text, split)
<1>1. CASE text = <<>>
  <2>1. s = <<>>
    BY <1>1 DEF Deltas
  <2> HIDE DEF s
  <2>2. QED
    BY <2>1, NoneOf DEF s
<1>2. CASE text # <<>> /\ split
  <2>1. s = [j \in 1 .. Len(text) |-> <<text[j]>>]
    BY <1>2 DEF Deltas
  <2>2. Len(text) \in Nat
    BY Elements
  <2> HIDE DEF s
  <2>3. s = [j \in 1 .. Len(text) |-> s[j]]
    BY <2>1
  <2>4. IsSeq(s) /\ Len(s) = Len(text)
    BY <2>2, <2>3, Listed
  <2>5. \A j \in 1 .. Len(s) : s[j] = <<text[j]>>
    BY <2>1, <2>4
  <2>6. QED
    <3>1. ASSUME NEW j \in 1 .. Len(s) PROVE IsSeq(s[j]) /\ s[j] # <<>>
      <4> DEFINE x == text[j]
      <4>1. s[j] = <<x>>
        BY <2>5
      <4> HIDE DEF x
      <4>2. QED
        BY <4>1, OneOf
    <3>2. QED
      BY <2>4, <3>1 DEF s
<1>3. CASE text # <<>> /\ ~split
  <2>1. s = <<text>> /\ IsSeq(<<text>>) /\ Len(<<text>>) = 1 /\ <<text>>[1] = text
    BY <1>3, OneOf DEF Deltas
  <2> HIDE DEF s
  <2>2. IsSeq(s) /\ Len(s) = 1 /\ s[1] = text
    BY <2>1
  <2>3. \A j \in 1 .. Len(s) : s[j] = text
    BY <2>2
  <2>4. QED
    BY <1>3, <2>2, <2>3 DEF s
<1>4. QED
  BY <1>1, <1>2, <1>3

LEMMA PartEventsShape ==
    ASSUME NEW i, NEW item, NEW p, IsSeq(item.parts[p].text), NEW split
    PROVE  /\ IsSeq(PartEvents(i, item, p, split))
           /\ \A e : Elem(e, PartEvents(i, item, p, split)) => PartEventOf(e, i, item, p)
<1> DEFINE part == item.parts[p]
           a == PartEvent("part.added", i, item, p, part, <<>>)
           y == PartEvent("text.done", i, item, p, part, part.text)
           z == PartEvent("part.done", i, item, p, part, part.text)
           deltas == Deltas(part.text, split)
           X(t) == PartEvent("delta", i, item, p, part, t)
           ds == [j \in 1 .. Len(deltas) |-> X(deltas[j])]
           t == IF HasText(part.kind) THEN ds \o <<y>> ELSE <<>>
           s == PartEvents(i, item, p, split)
<1>1. s = (<<a>> \o t) \o <<z>>
  BY DEF PartEvents, PartEvent
<1>2. IsSeq(deltas) /\ \A j \in 1 .. Len(deltas) : IsSeq(deltas[j]) /\ deltas[j] # <<>>
  BY DeltasShape
<1> HIDE DEF a, y, z, deltas, X, s
<1>3. IsSeq(ds) /\ Len(ds) = Len(deltas)
  <2>1. Len(deltas) \in Nat
    BY <1>2, Elements
  <2>2. ds = [j \in 1 .. Len(deltas) |-> ds[j]]
    OBVIOUS
  <2> HIDE DEF ds
  <2>3. QED
    BY <2>1, <2>2, Listed
<1>4. ASSUME NEW e, Elem(e, ds) PROVE \E u : IsSeq(u) /\ u # <<>> /\ e = X(u)
  <2>1. PICK j \in 1 .. Len(ds) : e = ds[j]
    BY <1>4 DEF Elem
  <2>2. ds[j] = X(deltas[j])
    BY <1>3, <2>1
  <2>3. QED
    BY <1>2, <1>3, <2>1, <2>2
<1> HIDE DEF ds
<1>5. IsSeq(<<a>>) /\ IsSeq(<<y>>) /\ IsSeq(<<z>>)
  BY OneOf
<1>6. IsSeq(t) /\ IsSeq(ds \o <<y>>)
  BY <1>3, <1>5, NoneOf, Concat
<1>7. ASSUME NEW e, Elem(e, t) PROVE HasText(part.kind) /\ (e = y \/ \E u : IsSeq(u) /\ u # <<>> /\ e = X(u))
  <2>1. HasText(part.kind)
    BY <1>7, ElemNone
  <2>2. Elem(e, ds \o <<y>>)
    BY <1>7, <2>1
  <2>3. Elem(e, ds) \/ Elem(e, <<y>>)
    BY <1>3, <1>5, <2>2, ElemConcat
  <2>4. QED
    BY <1>4, <2>1, <2>3, ElemOne
<1> HIDE DEF t
<1>8. IsSeq(<<a>> \o t) /\ IsSeq(s)
  BY <1>1, <1>5, <1>6, Concat
<1>9. ASSUME NEW e, Elem(e, s) PROVE PartEventOf(e, i, item, p)
  <2>1. Elem(e, <<a>> \o t) \/ Elem(e, <<z>>)
    BY <1>1, <1>5, <1>8, <1>9, ElemConcat
  <2>2. Elem(e, <<a>>) \/ Elem(e, t) \/ Elem(e, <<z>>)
    BY <1>5, <1>6, <2>1, ElemConcat
  <2>3. e = a \/ Elem(e, t) \/ e = z
    BY <2>2, ElemOne
  <2>4. QED
    BY <1>7, <2>3 DEF PartEventOf, a, y, z, X
<1>10. QED
  BY <1>8, <1>9 DEF s

LEMMA ItemEventsShape ==
    ASSUME NEW i, NEW item, PartsOK(item), NEW summaries, NEW split
    PROVE  /\ IsSeq(ItemEvents(i, item, summaries, split))
           /\ \A e : Elem(e, ItemEvents(i, item, summaries, split)) => EventOf(e, i, item)
<1> DEFINE a == Opening(i, item)
           z == Closing(i, item, item.parts)
           c == item.fam = "message" \/ (item.fam = "reasoning" /\ summaries)
           n == IF c THEN Len(item.parts) ELSE 0
           f == [p \in Nat |-> PartEvents(i, item, p, split)]
           parts == IF c THEN [p \in 1 .. Len(item.parts) |-> PartEvents(i, item, p, split)] ELSE <<>>
           t == Flat(f, n)
           s == ItemEvents(i, item, summaries, split)
<1>1. Len(item.parts) \in Nat /\ n \in Nat /\ 1 .. n \subseteq 1 .. Len(item.parts)
  BY Elements DEF PartsOK
<1>2. \A p \in 1 .. n : /\ f[p] = PartEvents(i, item, p, split) /\ IsSeq(f[p])
                        /\ \A e : Elem(e, f[p]) => PartEventOf(e, i, item, p)
  <2>1. ASSUME NEW p \in 1 .. n
        PROVE  /\ f[p] = PartEvents(i, item, p, split) /\ IsSeq(f[p])
               /\ \A e : Elem(e, f[p]) => PartEventOf(e, i, item, p)
    <3>1. p \in Nat /\ IsSeq(item.parts[p].text)
      BY <1>1 DEF PartsOK
    <3>2. f[p] = PartEvents(i, item, p, split)
      BY <3>1
    <3> HIDE DEF f
    <3>3. QED
      BY <3>1, <3>2, PartEventsShape
  <2>2. QED
    BY <2>1
<1>3. s = (<<a>> \o FlattenSeq(parts)) \o <<z>>
  BY DEF ItemEvents, Opening, Closing
<1> HIDE DEF f
<1>4. parts = [p \in 1 .. n |-> f[p]]
  <2>1. CASE c
    BY <1>2, <2>1
  <2>2. CASE ~c
    <3>1. parts = <<>> /\ n = 0
      BY <2>2
    <3>2. QED
      BY <3>1, ListOfNone
  <2>3. QED
    BY <2>1, <2>2
<1> HIDE DEF parts, n, a, z, s
<1>5. s = (<<a>> \o t) \o <<z>>
  BY <1>3, <1>4 DEF Flat
<1>6. IsSeq(t)
  BY <1>1, <1>2, FlatIsSeq
<1>7. ASSUME NEW e, Elem(e, t) PROVE \E p \in 1 .. Len(item.parts) : PartEventOf(e, i, item, p)
  <2>1. \E p \in 1 .. n : Elem(e, f[p])
    BY <1>1, <1>2, <1>7, ElemFlat
  <2>2. QED
    BY <1>1, <1>2, <2>1
<1> HIDE DEF t
<1>8. IsSeq(<<a>>) /\ IsSeq(<<z>>) /\ IsSeq(<<a>> \o t) /\ IsSeq(s)
  BY <1>5, <1>6, OneOf, Concat
<1>9. ASSUME NEW e, Elem(e, s) PROVE EventOf(e, i, item)
  <2>1. Elem(e, <<a>> \o t) \/ Elem(e, <<z>>)
    BY <1>5, <1>8, <1>9, ElemConcat
  <2>2. Elem(e, <<a>>) \/ Elem(e, t) \/ Elem(e, <<z>>)
    BY <1>6, <1>8, <2>1, ElemConcat
  <2>3. e = a \/ Elem(e, t) \/ e = z
    BY <2>2, ElemOne
  <2>4. QED
    BY <1>7, <2>3 DEF EventOf, a, z
<1>10. QED
  BY <1>8, <1>9 DEF s
----------------------------------------------------------------------------
(* Complete responses.                                                     *)

LEMMA ResponseItems ==
    ASSUME NEW r \in Responses
    PROVE  /\ IsSeq(r.output) /\ Len(r.output) \in Nat
           /\ \A i \in 1 .. Len(r.output) :
                 /\ i \in Indexes /\ i \in Nat \ {0}
                 /\ PartsOK(r.output[i]) /\ r.output[i].fam \in {"message", "reasoning", "tool"}
                 /\ \A p \in 1 .. Len(r.output[i].parts) :
                       r.output[i].fam = "reasoning" <=> r.output[i].parts[p].kind = "summary_text"
<1>1. /\ r.output \in Seq(Item)
      /\ \A i \in 1 .. Len(r.output) : \A p \in 1 .. Len(r.output[i].parts) :
            /\ r.output[i].fam = "reasoning" <=> r.output[i].parts[p].kind = "summary_text"
            /\ ~HasText(r.output[i].parts[p].kind) => r.output[i].parts[p].text = <<>>
  BY DeliveryAssumption DEF DeliveryAssumption
<1>2. IsSeq(r.output) /\ Len(r.output) \in Nat
  <2>1. IsSeq(r.output)
    BY <1>1 DEF IsSeq
  <2>2. QED
    BY <2>1, Elements
<1>3. ASSUME NEW i \in 1 .. Len(r.output)
      PROVE  /\ i \in Indexes /\ i \in Nat \ {0}
             /\ PartsOK(r.output[i]) /\ r.output[i].fam \in {"message", "reasoning", "tool"}
  <2> DEFINE item == r.output[i]
  <2>1. item \in Item
    BY <1>1, ElementOfSeq
  <2>2. i \in Indexes /\ i \in Nat \ {0}
    BY <1>2 DEF Indexes
  <2>3. \A p \in 1 .. Len(item.parts) : TextOK(item.parts[p])
    BY <1>1 DEF TextOK
  <2> HIDE DEF item
  <2> DEFINE Part == [kind : STRING, text : Seq(STRING)]
  <2>4. item.fam \in {"message", "reasoning", "tool"} /\ item.parts \in Seq(Part)
    BY <2>1 DEF Item
  <2>5. ASSUME NEW p \in 1 .. Len(item.parts) PROVE IsSeq(item.parts[p].text)
    <3> HIDE DEF Part
    <3>1. item.parts[p] \in Part
      BY <2>4, ElementOfSeq
    <3>2. item.parts[p].text \in Seq(STRING)
      BY <3>1 DEF Part
    <3>3. QED
      BY <3>2 DEF IsSeq
  <2>6. IsSeq(item.parts)
    <3> HIDE DEF Part
    <3>1. QED
      BY <2>4 DEF IsSeq
  <2>7. PartsOK(item)
    BY <2>3, <2>5, <2>6 DEF PartsOK, item
  <2>8. QED
    BY <2>2, <2>4, <2>7 DEF item
<1>4. QED
  BY <1>1, <1>2, <1>3

ItemsOf(r, summaries, split) == [i \in Nat |-> ItemEvents(i, r.output[i], summaries, split)]

LEMMA SyntheticIs ==
    ASSUME NEW r \in Responses, NEW summaries, NEW split
    PROVE  LET f == ItemsOf(r, summaries, split) IN
           /\ SyntheticEvents(r, summaries, split) = Flat(f, Len(r.output))
           /\ IsSeq(SyntheticEvents(r, summaries, split))
           /\ \A i \in 1 .. Len(r.output) :
                 /\ f[i] = ItemEvents(i, r.output[i], summaries, split) /\ IsSeq(f[i])
                 /\ \A e : Elem(e, f[i]) => EventOf(e, i, r.output[i])
<1> DEFINE f == ItemsOf(r, summaries, split)
           n == Len(r.output)
<1>1. n \in Nat
  BY ResponseItems
<1>2. ASSUME NEW i \in 1 .. n
      PROVE  /\ f[i] = ItemEvents(i, r.output[i], summaries, split) /\ IsSeq(f[i])
             /\ \A e : Elem(e, f[i]) => EventOf(e, i, r.output[i])
  <2> DEFINE item == r.output[i]
             s == ItemEvents(i, item, summaries, split)
  <2>1. f[i] = s
    BY <1>1 DEF ItemsOf
  <2>2. PartsOK(item)
    BY ResponseItems
  <2> HIDE DEF item
  <2>3. IsSeq(s) /\ \A e : Elem(e, s) => EventOf(e, i, item)
    BY <2>2, ItemEventsShape
  <2> HIDE DEF f, s
  <2>4. QED
    BY <2>1, <2>3 DEF s, item
<1>3. [i \in 1 .. n |-> ItemEvents(i, r.output[i], summaries, split)] = [i \in 1 .. n |-> f[i]]
  BY <1>2
<1>4. SyntheticEvents(r, summaries, split) = Flat(f, n)
  BY <1>3 DEF SyntheticEvents, Flat
<1> HIDE DEF f
<1>5. IsSeq(Flat(f, n))
  BY <1>1, <1>2, FlatIsSeq
<1>6. QED
  BY <1>2, <1>4, <1>5 DEF f

\* Every event of a response is of one of its items.
LEMMA SyntheticShape ==
    ASSUME NEW r \in Responses, NEW summaries, NEW split, NEW e,
           Elem(e, SyntheticEvents(r, summaries, split))
    PROVE  \E i \in 1 .. Len(r.output) : EventOf(e, i, r.output[i])
<1> DEFINE f == ItemsOf(r, summaries, split)
           n == Len(r.output)
<1>1. n \in Nat
  BY ResponseItems
<1>2. /\ SyntheticEvents(r, summaries, split) = Flat(f, n)
      /\ \A i \in 1 .. n : IsSeq(f[i]) /\ \A x : Elem(x, f[i]) => EventOf(x, i, r.output[i])
  BY SyntheticIs
<1> HIDE DEF f, n
<1>3. \E i \in 1 .. n : Elem(e, f[i])
  BY <1>1, <1>2, ElemFlat
<1>4. QED
  BY <1>2, <1>3 DEF n

\* What an upstream may send.
LEMMA AlphabetShape ==
    ASSUME NEW e \in Alphabet
    PROVE  \/ e.type = "created" /\ e.fam = "response"
           \/ \E r \in Responses : \E i \in 1 .. Len(r.output) : EventOf(e, i, r.output[i])
<1>0. PICK r \in Responses : e \in {Scripts[r][j] : j \in 1 .. Len(Scripts[r])}
  BY DEF Alphabet
<1>1. PICK j \in 1 .. Len(Scripts[r]) : e = Scripts[r][j]
  BY <1>0
<1> DEFINE c == Created(r.id)
           s == SyntheticEvents(r, TRUE, TRUE)
<1>2. Scripts[r] = <<c>> \o s
  BY DEF Scripts
<1>3. IsSeq(s)
  BY SyntheticIs
<1>4. \A x : Elem(x, s) => \E i \in 1 .. Len(r.output) : EventOf(x, i, r.output[i])
  BY SyntheticShape
<1>5. c.type = "created" /\ c.fam = "response"
  BY DEF Created, Event
<1> HIDE DEF c, s
<1>6. Elem(e, <<c>> \o s)
  BY <1>1, <1>2 DEF Elem
<1>7. Elem(e, <<c>>) \/ Elem(e, s)
  BY <1>3, <1>6, OneOf, ElemConcat
<1>8. QED
  BY <1>4, <1>5, <1>7, ElemOne

----------------------------------------------------------------------------
(* The replay of a whole response.                                         *)

LEMMA IndexIs == ASSUME NEW i \in Indexes PROVE i \in Nat \ {0} /\ NewDelivery.items[i] = NoItem
<1>1. PICK r \in Responses : i \in 1 .. Len(r.output)
  BY DEF Indexes
<1>2. i \in Nat \ {0}
  BY <1>1, ResponseItems
<1>3. NewDelivery.items[i] = NoItem
  BY DEF NewDelivery
<1>4. QED
  BY <1>2, <1>3

\* Only an item's own events tell of it.
OwnShown(r, summaries, items, i, x) ==
    /\ i <= Len(r.output) =>
          Shown(i, items, x, SyntheticEvents(r, summaries, FALSE))
          = Shown(i, items, x, ItemEvents(i, r.output[i], summaries, FALSE))
    /\ ~(i <= Len(r.output)) => Shown(i, items, x, SyntheticEvents(r, summaries, FALSE)) = x

LEMMA ShownItems ==
    ASSUME NEW r \in Responses, NEW summaries, NEW items, NEW i \in Indexes, NEW x
    PROVE  OwnShown(r, summaries, items, i, x)
<1> SUFFICES /\ i <= Len(r.output) =>
                   Shown(i, items, x, SyntheticEvents(r, summaries, FALSE))
                   = Shown(i, items, x, ItemEvents(i, r.output[i], summaries, FALSE))
             /\ ~(i <= Len(r.output)) => Shown(i, items, x, SyntheticEvents(r, summaries, FALSE)) = x
  BY DEF OwnShown
<1> DEFINE f == ItemsOf(r, summaries, FALSE)
           n == Len(r.output)
           P == {k \in Nat : k <= n => Shown(i, items, x, Flat(f, k))
                                       = IF i <= k THEN Shown(i, items, x, f[i]) ELSE x}
<1>1. n \in Nat /\ i \in Nat \ {0}
  BY ResponseItems, IndexIs
<1>2. /\ SyntheticEvents(r, summaries, FALSE) = Flat(f, n)
      /\ \A j \in 1 .. n : /\ f[j] = ItemEvents(j, r.output[j], summaries, FALSE) /\ IsSeq(f[j])
                           /\ \A e : Elem(e, f[j]) => EventOf(e, j, r.output[j])
  BY SyntheticIs
<1> HIDE DEF f, n
<1>3. 0 \in P
  <2>1. Shown(i, items, x, Flat(f, 0)) = x
    BY FlatNone, ShownNone
  <2>2. QED
    BY <1>1, <2>1
<1>4. ASSUME NEW k \in 0 .. n, k + 1 <= n, k \in P PROVE k + 1 \in P
  <2> DEFINE m == k + 1
             s == Flat(f, k)
  <2>1. m \in 1 .. n /\ m \in Nat /\ k \in Nat /\ k <= n
    BY <1>1, <1>4
  <2>2. IsSeq(s) /\ IsSeq(f[m])
    <3>0. 1 .. k \subseteq 1 .. n
      BY <1>1, <2>1
    <3>1. \A j \in 1 .. k : IsSeq(f[j])
      BY <1>2, <3>0
    <3>2. QED
      BY <1>2, <2>1, <3>1, FlatIsSeq
  <2>3. Flat(f, m) = s \o f[m]
    BY <2>1, <2>2, FlatNext
  <2>4. Shown(i, items, x, s) = IF i <= k THEN Shown(i, items, x, f[i]) ELSE x
    BY <1>4, <2>1
  <2>5. i <= m <=> i <= k \/ i = m
    BY <1>1, <2>1
  <2>6. i <= k => i # m
    BY <1>1, <2>1
  <2> HIDE DEF m, s
  <2>7. Shown(i, items, x, Flat(f, m)) = Shown(i, items, Shown(i, items, x, s), f[m])
    BY <2>2, <2>3, ShownMore
  <2>8. CASE i = m
    <3>1. Shown(i, items, x, s) = x
      BY <2>4, <2>6, <2>8
    <3>2. Shown(i, items, x, Flat(f, m)) = Shown(i, items, x, f[i])
      BY <2>7, <2>8, <3>1
    <3>3. QED
      BY <2>1, <2>5, <2>8, <3>2 DEF m
  <2>9. CASE i # m
    <3> DEFINE t == f[m]
    <3>1. ASSUME NEW j \in 1 .. Len(t) PROVE DOMAIN t[j] = EventFields /\ t[j].index # i
      <4>1. Elem(t[j], t)
        BY DEF Elem
      <4>2. EventOf(t[j], m, r.output[m])
        BY <1>2, <2>1, <4>1
      <4> HIDE DEF t
      <4>3. QED
        BY <2>9, <4>2, EventOfFields
    <3> HIDE DEF t
    <3>2. \A y : Shown(i, items, y, t) = y
      BY <2>2, <3>1, ShownSkips DEF t
    <3>3. Shown(i, items, x, Flat(f, m)) = IF i <= k THEN Shown(i, items, x, f[i]) ELSE x
      BY <2>4, <2>7, <3>2 DEF t
    <3>4. QED
      BY <2>1, <2>5, <2>9, <3>3 DEF m
  <2>10. QED
    BY <2>8, <2>9
<1> HIDE DEF P
<1>5. 0 .. n \subseteq P
  BY <1>1, <1>3, <1>4, Climb
<1>6. n \in 0 .. n
  BY <1>1
<1>7. n \in P
  BY <1>5, <1>6
<1>8. Shown(i, items, x, Flat(f, n)) = IF i <= n THEN Shown(i, items, x, f[i]) ELSE x
  BY <1>1, <1>7 DEF P
<1>9. i <= n => f[i] = ItemEvents(i, r.output[i], summaries, FALSE)
  <2>1. i <= n => i \in 1 .. n
    BY <1>1
  <2>2. QED
    BY <1>2, <2>1
<1>10. QED
  BY <1>2, <1>8, <1>9 DEF n
\* The responses agree on the kinds of a message's parts wherever they agree
\* on the message and on how many parts it has.
SameShapes ==
    \A r, s \in Responses : \A i \in (1 .. Len(r.output)) \cap (1 .. Len(s.output)) :
        /\ r.output[i].fam = "message" /\ s.output[i].fam = "message"
        /\ r.output[i].id = s.output[i].id
        /\ Len(r.output[i].parts) = Len(s.output[i].parts)
        => \A p \in 1 .. Len(r.output[i].parts) :
              r.output[i].parts[p].kind = s.output[i].parts[p].kind

LEMMA ResponsePart ==
    ASSUME NEW r \in Responses, NEW i \in 1 .. Len(r.output), NEW p \in 1 .. Len(r.output[i].parts)
    PROVE  LET part == r.output[i].parts[p] IN
           /\ part = [kind |-> part.kind, text |-> part.text]
           /\ ~HasText(part.kind) => part.text = <<>>
<1>1. /\ r.output \in Seq(Item)
      /\ ~HasText(r.output[i].parts[p].kind) => r.output[i].parts[p].text = <<>>
  BY DeliveryAssumption DEF DeliveryAssumption
<1> DEFINE item == r.output[i]
           Part == [kind : STRING, text : Seq(STRING)]
<1>2. item \in Item
  BY <1>1, ElementOfSeq
<1> HIDE DEF item
<1>3. item.parts \in Seq(Part)
  BY <1>2 DEF Item
<1>4. item.parts[p] \in Part
  <2> HIDE DEF Part
  <2>1. QED
    BY <1>3, ElementOfSeq DEF item
<1> DEFINE part == item.parts[p]
<1> HIDE DEF part
<1>5. part = [kind |-> part.kind, text |-> part.text]
  BY <1>4 DEF part
<1>6. QED
  BY <1>1, <1>5 DEF part, item

\* What a message was closed with is what the response says of it.
LEMMA SnapshotIs ==
    ASSUME SameShapes, NEW r \in Responses, NEW i \in 1 .. Len(r.output), NEW it,
           Matches(i, it, r.output[i]), it.done, it.fam = "message"
    PROVE  it.snapshot = r.output[i].parts
<1> DEFINE item == r.output[i]
           n == Len(item.parts)
<1>1. MessageComplete(it, it.snapshot) /\ Announced(i, it, it.snapshot)
  BY DEF Matches, ItemOK
<1>2. PICK s \in Responses : /\ i \in 1 .. Len(s.output) /\ s.output[i].fam = it.fam
                             /\ s.output[i].id = it.id /\ s.output[i].parts = it.snapshot
  BY <1>1 DEF Announced
<1>3. item.fam = it.fam /\ item.id = it.id /\ Len(it.parts) = n
  BY DEF Matches, ItemAgrees
<1>4. Len(it.snapshot) = n
  BY <1>1, <1>3 DEF MessageComplete
<1>5. IsSeq(it.snapshot) /\ IsSeq(item.parts)
  BY <1>2, ResponseItems DEF PartsOK
<1>6. \A p \in 1 .. n : s.output[i].parts[p].kind = item.parts[p].kind
  <2> DEFINE other == s.output[i]
  <2>1. i \in (1 .. Len(r.output)) \cap (1 .. Len(s.output))
    BY <1>2
  <2>2. /\ item.fam = "message" /\ other.fam = "message" /\ item.id = other.id
        /\ Len(item.parts) = Len(other.parts)
    BY <1>2, <1>3, <1>4
  <2>3. \A p \in 1 .. Len(item.parts) : item.parts[p].kind = other.parts[p].kind
    BY <2>1, <2>2 DEF SameShapes
  <2>4. QED
    BY <2>3
<1>7. ASSUME NEW p \in 1 .. n PROVE it.snapshot[p] = item.parts[p]
  <2> DEFINE q == it.parts[p]
             a == it.snapshot[p]
             b == item.parts[p]
  <2>1. Agrees(it.fam, q, b) /\ q.done
    BY <1>3, MatchFacts
  <2>2. a = [kind |-> a.kind, text |-> a.text] /\ (~HasText(a.kind) => a.text = <<>>)
    <3> DEFINE c == s.output[i].parts[p]
    <3>1. p \in 1 .. Len(s.output[i].parts) /\ i \in 1 .. Len(s.output) /\ a = c
      BY <1>2, <1>4
    <3>2. c = [kind |-> c.kind, text |-> c.text] /\ (~HasText(c.kind) => c.text = <<>>)
      BY <3>1, ResponsePart
    <3> HIDE DEF a, c
    <3>3. QED
      BY <3>1, <3>2
  <2>3. b = [kind |-> b.kind, text |-> b.text] /\ (~HasText(b.kind) => b.text = <<>>)
    BY ResponsePart
  <2>4. a.kind = b.kind
    BY <1>2, <1>6
  <2>5. HasText(q.kind) => a.text = q.text
    BY <1>1, <1>3 DEF MessageComplete
  <2> HIDE DEF q, a, b
  <2>6. q.kind = b.kind /\ (HasText(b.kind) => q.textDone) /\ (q.textDone => q.text = b.text)
    BY <2>1, AgreeFacts
  <2>7. a.text = b.text
    BY <2>2, <2>3, <2>4, <2>5, <2>6
  <2>8. a = b
    BY <2>2, <2>3, <2>4, <2>7
  <2>9. QED
    BY <2>8 DEF a, b
<1>8. QED
  BY <1>4, <1>5, <1>7, Equal
LEMMA FollowClosed ==
    ASSUME NEW i, NEW it, NEW n \in Nat, \A p \in 1 .. n : PartOK(it.fam, it.parts[p]),
           \A p \in 1 .. n : it.parts[p].done, NEW content
    PROVE  Followable(Body(i, it, n) \o <<Closing(i, it, content)>>)
<1> DEFINE b == Body(i, it, n)
           e == Closing(i, it, content)
<1>1. n = 0 \/ it.parts[n].done
  <2>1. n # 0 => n \in 1 .. n
    OBVIOUS
  <2>2. QED
    BY <2>1
<1>2. Followable(b) /\ IsSeq(b) /\ b # <<>> /\ Last(b).type \in {"item.added", "part.done"}
  BY <1>1, FollowBody
<1>3. e.type = "item.done"
  BY ClosingIs
<1> HIDE DEF b, e
<1>4. Follows(Last(b), e)
  BY <1>2, <1>3 DEF Follows
<1>5. Followable(b \o <<e>>)
  BY <1>2, <1>3, <1>4, FollowMore
<1>6. QED
  BY <1>5 DEF b, e

\* The client can follow the events of an item.
LEMMA FollowItem ==
    ASSUME NEW i, NEW item, PartsOK(item), NEW summaries,
           \A p \in 1 .. Len(item.parts) : item.fam = "reasoning" <=> item.parts[p].kind = "summary_text"
    PROVE  Followable(ItemEvents(i, item, summaries, FALSE))
<1> DEFINE w == WholeItem(item, summaries)
           n == Len(w.parts)
<1>1. /\ w.fam = item.fam /\ n \in Nat
      /\ \A p \in 1 .. n : p \in 1 .. Len(item.parts) /\ w.parts[p] = Whole(item.parts[p])
  BY WholeParts DEF PartsOK
<1>2. ItemEvents(i, item, summaries, FALSE) = Body(i, w, n) \o <<Closing(i, w, item.parts)>>
  BY ItemEventsView
<1> HIDE DEF w, n
<1>3. ASSUME NEW p \in 1 .. n PROVE PartOK(w.fam, w.parts[p]) /\ w.parts[p].done
  <2> DEFINE part == item.parts[p]
  <2>1. /\ w.parts[p] = Whole(part) /\ IsSeq(part.text) /\ (~HasText(part.kind) => part.text = <<>>)
        /\ item.fam = "reasoning" <=> part.kind = "summary_text"
    BY <1>1 DEF PartsOK, TextOK
  <2> HIDE DEF part
  <2>2. HasText(part.kind) \in BOOLEAN
    BY DEF HasText
  <2>3. PartOK(item.fam, Whole(part)) /\ Whole(part).done
    BY <2>1, <2>2 DEF PartOK, Whole
  <2>4. QED
    BY <1>1, <2>1, <2>3
<1>4. QED
  BY <1>1, <1>2, <1>3, FollowClosed

\* The client can follow what it has of an item.
LEMMA FollowView ==
    ASSUME NEW i, NEW it, ItemOK(i, it)
    PROVE  Followable(View(i, it)) /\ IsSeq(View(i, it))
<1> DEFINE n == Len(it.parts)
           b == Body(i, it, n)
           c == <<Closing(i, it, it.snapshot)>>
<1>1. n \in Nat
  BY Elements DEF ItemOK
<1>2. /\ \A p \in 1 .. n : PartOK(it.fam, it.parts[p])
      /\ \A p \in 1 .. n : it.done \/ p < n => it.parts[p].done
  BY DEF ItemOK
<1>3. CASE it = NoItem
  BY <1>3, FollowNone, NoneOf DEF View
<1>4. CASE it # NoItem /\ it.done /\ it.fam = "message"
  <2>1. View(i, it) = b \o c
    BY <1>4 DEF View
  <2>2. Followable(b \o c)
    BY <1>1, <1>2, <1>4, FollowClosed
  <2>3. IsSeq(b \o c)
    BY <1>1, BodyIsSeq, OneOf, Concat
  <2>4. QED
    BY <2>1, <2>2, <2>3
<1>5. CASE it # NoItem /\ ~(it.done /\ it.fam = "message")
  <2>1. View(i, it) = b \o <<>>
    BY <1>5 DEF View
  <2>2. Followable(b) /\ IsSeq(b)
    BY <1>1, <1>2, FollowBody
  <2> HIDE DEF b
  <2>3. b \o <<>> = b
    BY <2>2, Concat
  <2>4. QED
    BY <2>1, <2>2, <2>3
<1>6. QED
  BY <1>3, <1>4, <1>5

\* A response nothing went out of is replayed whole.
LEMMA KeptAll ==
    ASSUME NEW items, NEW s, IsSeq(s), \A k \in 1 .. Len(s) : items[s[k].index] = NoItem
    PROVE  Kept(items, s) = s
<1> DEFINE f == Kepts(items, s)
           n == Len(s)
           P == {k \in Nat : k <= n => /\ IsSeq(Flat(f, k)) /\ Len(Flat(f, k)) = k
                                       /\ \A j \in 1 .. k : Flat(f, k)[j] = s[j]}
<1>1. n \in Nat /\ Kept(items, s) = Flat(f, n) /\ \A j \in 1 .. n : f[j] = Unseen(items, s[j])
  BY KeptIs
<1>2. ASSUME NEW j \in 1 .. n PROVE f[j] = <<s[j]>>
  <2> DEFINE e == s[j]
             it == items[e.index]
  <2>1. it = NoItem /\ f[j] = Unseen(items, e)
    BY <1>1
  <2>2. NoItem.parts = <<>>
    BY DEF NoItem
  <2> HIDE DEF it, e, f
  <2>3. e.part \notin 1 .. Len(it.parts)
    <3>1. Len(it.parts) = 0
      BY <2>1, <2>2, NoneOf
    <3>2. 1 .. 0 = {}
      OBVIOUS
    <3>3. QED
      BY <3>1, <3>2
  <2>4. Keep(it, e) /\ Trimmed(it, e) = e
    BY <2>1, <2>3 DEF Keep, Trimmed
  <2>5. Unseen(items, e) = <<e>>
    BY <2>4 DEF Unseen, it
  <2>6. QED
    BY <2>1, <2>5 DEF e
<1> HIDE DEF f, n
<1>3. 0 \in P
  <2>1. Flat(f, 0) = <<>> /\ 1 .. 0 = {}
    BY FlatNone
  <2>2. QED
    BY <2>1, NoneOf
<1>4. ASSUME NEW k \in 0 .. n, k + 1 <= n, k \in P PROVE k + 1 \in P
  <2> DEFINE m == k + 1
             t == Flat(f, k)
             e == s[m]
  <2>1. m \in 1 .. n /\ m \in Nat /\ k \in Nat /\ \A j \in 1 .. m : j \in 1 .. k \/ j = m
    BY <1>1, <1>4
  <2>2. IsSeq(t) /\ Len(t) = k /\ \A j \in 1 .. k : t[j] = s[j]
    BY <1>4
  <2>3. f[m] = <<e>> /\ IsSeq(<<e>>)
    BY <1>2, <2>1, OneOf
  <2>4. Flat(f, m) = t \o <<e>>
    <3>1. k \in Nat /\ IsSeq(f[k + 1])
      BY <2>1, <2>3
    <3>2. Flat(f, k + 1) = t \o f[k + 1]
      BY <3>1, FlatNext
    <3>3. QED
      BY <2>3, <3>2
  <2> HIDE DEF t, e
  <2>5. /\ IsSeq(t \o <<e>>) /\ Len(t \o <<e>>) = m /\ (t \o <<e>>)[m] = e
        /\ \A j \in 1 .. k : (t \o <<e>>)[j] = t[j]
    BY <2>2, OneMore
  <2> HIDE DEF m
  <2>6. \A j \in 1 .. m : (t \o <<e>>)[j] = s[j]
    BY <2>1, <2>2, <2>5 DEF e
  <2>7. QED
    BY <2>1, <2>4, <2>5, <2>6 DEF m
<1> HIDE DEF P
<1>5. 0 .. n \subseteq P
  BY <1>1, <1>3, <1>4, Climb
<1>6. n \in 0 .. n
  BY <1>1
<1>7. n \in P
  BY <1>5, <1>6
<1>8. IsSeq(Flat(f, n)) /\ Len(Flat(f, n)) = n /\ \A j \in 1 .. n : Flat(f, n)[j] = s[j]
  BY <1>1, <1>7 DEF P
<1>9. Flat(f, n) = s
  BY <1>8, Equal DEF n
<1>10. QED
  BY <1>1, <1>9

LEMMA FullReplay ==
    ASSUME NEW r \in Responses, NEW i \in Indexes, NEW summaries
    PROVE  LET s == Joined(i, <<>>, SyntheticEvents(r, summaries, FALSE)) IN
           /\ s = IF i <= Len(r.output) THEN ItemEvents(i, r.output[i], summaries, FALSE) ELSE <<>>
           /\ Followable(s)
<1> DEFINE items == NewDelivery.items
           t == SyntheticEvents(r, summaries, FALSE)
           n == Len(r.output)
           x == ItemEvents(i, r.output[i], summaries, FALSE)
<1>1. i \in Nat \ {0} /\ items[i] = NoItem
  BY IndexIs
<1>2. IsSeq(t)
  BY SyntheticIs
<1>3. ASSUME NEW k \in 1 .. Len(t) PROVE items[t[k].index] = NoItem
  <2> DEFINE e == t[k]
  <2>1. Elem(e, t)
    BY DEF Elem
  <2>2. PICK j \in 1 .. n : EventOf(e, j, r.output[j])
    BY <2>1, SyntheticShape
  <2> HIDE DEF e
  <2>3. e.index = j
    BY <2>2, EventOfFields
  <2>4. j \in Indexes
    BY ResponseItems
  <2> HIDE DEF items, t
  <2>5. items[j] = NoItem
    BY <2>4, IndexIs DEF items
  <2>6. QED
    BY <2>3, <2>5 DEF e
<1>4. Kept(items, t) = t
  <2> HIDE DEF items, t
  <2>1. QED
    BY <1>2, <1>3, KeptAll
<1>5. Joined(i, <<>>, t) = Shown(i, items, <<>>, t)
  BY <1>4 DEF Shown
<1>6. Shown(i, items, <<>>, t) = IF i <= n THEN Shown(i, items, <<>>, x) ELSE <<>>
  <2> DEFINE v == <<>>
  <2> HIDE DEF items, v, t, x, n
  <2>1. OwnShown(r, summaries, items, i, v)
    BY ShownItems
  <2>2. /\ i <= n => Shown(i, items, v, t) = Shown(i, items, v, x)
        /\ ~(i <= n) => Shown(i, items, v, t) = v
    BY <2>1 DEF OwnShown, t, x, n
  <2>3. QED
    BY <2>2 DEF v
<1>7. CASE i <= n
  <2> DEFINE item == r.output[i]
  <2>0. n \in Nat
    BY ResponseItems
  <2> HIDE DEF n, items
  <2>1. i \in 1 .. n
    BY <1>1, <1>7, <2>0
  <2>2. PartsOK(item) /\ \A p \in 1 .. Len(item.parts) : item.fam = "reasoning" <=> item.parts[p].kind = "summary_text"
    BY <2>1, ResponseItems DEF n
  <2> HIDE DEF item
  <2>3. Shown(i, items, <<>>, ItemEvents(i, item, summaries, FALSE)) = ItemEvents(i, item, summaries, FALSE)
    BY <1>1, <2>2, NewItem
  <2>4. Followable(ItemEvents(i, item, summaries, FALSE))
    BY <2>2, FollowItem
  <2> HIDE DEF t, n
  <2>5. QED
    BY <1>5, <1>6, <1>7, <2>3, <2>4 DEF item, t, n
<1>8. CASE ~(i <= n)
  <2> HIDE DEF t, n, x, items
  <2>1. Joined(i, <<>>, t) = <<>>
    BY <1>5, <1>6, <1>8
  <2>2. QED
    BY <1>8, <2>1, FollowNone DEF t, n
<1>9. QED
  BY <1>7, <1>8

\* What the replay adds to what went out early.
LEMMA ResumedReplay ==
    ASSUME NEW r \in Responses, NEW items, NEW i \in Indexes,
           items[i] = NoItem \/ (i <= Len(r.output) /\ Matches(i, items[i], r.output[i]))
    PROVE  LET s == Joined(i, View(i, items[i]), Kept(items, SyntheticEvents(r, TRUE, FALSE))) IN
           /\ SameShapes => s = IF i <= Len(r.output) THEN ItemEvents(i, r.output[i], TRUE, FALSE) ELSE <<>>
           /\ Followable(s)
<1> DEFINE it == items[i]
           item == r.output[i]
           t == SyntheticEvents(r, TRUE, FALSE)
           v == View(i, it)
           n == Len(r.output)
           x == ItemEvents(i, item, TRUE, FALSE)
           s == Joined(i, v, Kept(items, t))
<1>1. s = IF i <= n THEN Shown(i, items, v, x) ELSE v
  <2>1. s = Shown(i, items, v, t)
    BY DEF Shown
  <2> HIDE DEF s, v, t, x, n, item
  <2>2. OwnShown(r, TRUE, items, i, v)
    BY ShownItems
  <2>3. /\ i <= n => Shown(i, items, v, t) = Shown(i, items, v, x)
        /\ ~(i <= n) => Shown(i, items, v, t) = v
    BY <2>2 DEF OwnShown, t, x, n, item
  <2>4. QED
    BY <2>1, <2>3
<1>2. it = NoItem => v = <<>>
  BY DEF View
<1>3. i <= n => /\ i \in 1 .. n /\ PartsOK(item)
                /\ \A p \in 1 .. Len(item.parts) : item.fam = "reasoning" <=> item.parts[p].kind = "summary_text"
  <2>0. n \in Nat /\ i \in Nat \ {0}
    BY ResponseItems, IndexIs
  <2> HIDE DEF n
  <2>1. i <= n => i \in 1 .. n
    BY <2>0
  <2>2. QED
    BY <2>1, ResponseItems DEF n
<1>4. i <= n => Followable(x)
  BY <1>3, FollowItem
<1>5. CASE ~(i <= n)
  <2>1. v = <<>>
    BY <1>2, <1>5
  <2> HIDE DEF v, x, s, n
  <2>2. s = <<>>
    BY <1>1, <1>5, <2>1
  <2>3. QED
    BY <1>5, <2>2, FollowNone DEF s, n, v
<1>6. CASE i <= n /\ it = NoItem
  <2>1. v = <<>>
    BY <1>2, <1>6
  <2>2. Shown(i, items, <<>>, x) = x
    BY <1>3, <1>6, NewItem
  <2> HIDE DEF v, x, s, n
  <2>3. s = x
    BY <1>1, <1>6, <2>1, <2>2
  <2>4. QED
    BY <1>4, <1>6, <2>3 DEF s, n, v, x
<1>7. CASE i <= n /\ it # NoItem
  <2>1. Matches(i, it, item)
    BY <1>7
  <2>2. Shown(i, items, v, x) = IF it.done /\ it.fam = "message" THEN v ELSE x
    BY <2>1, ResumedItem
  <2>3. Followable(v)
    <3>1. ItemOK(i, it)
      BY <2>1 DEF Matches
    <3>2. QED
      BY <3>1, FollowView
  <2>4. ASSUME SameShapes, it.done, it.fam = "message" PROVE v = x
    <3>1. it.snapshot = item.parts
      BY <1>3, <1>7, <2>1, <2>4, SnapshotIs
    <3>2. QED
      BY <2>1, <2>4, <3>1, DoneItem
  <2> HIDE DEF v, x, s, n
  <2>5. CASE it.done /\ it.fam = "message"
    <3>1. s = v
      BY <1>1, <1>7, <2>2, <2>5
    <3>2. QED
      BY <1>7, <2>3, <2>4, <2>5, <3>1 DEF s, n, v, x
  <2>6. CASE ~(it.done /\ it.fam = "message")
    <3>1. s = x
      BY <1>1, <1>7, <2>2, <2>6
    <3>2. QED
      BY <1>4, <1>7, <3>1 DEF s, n, v, x
  <2>7. QED
    BY <2>5, <2>6
<1>8. QED
  BY <1>5, <1>6, <1>7
----------------------------------------------------------------------------
(* An event that is accepted: the record and what the client has of the    *)
(* item stay in step.                                                      *)

LEMMA PartFacts ==
    ASSUME NEW e, NEW i, NEW item, NEW p, PartEventOf(e, i, item, p)
    PROVE  LET part == item.parts[p] IN
           /\ e = PartEvent(e.type, i, item, p, part, e.text)
           /\ e.type \in PartTypes /\ e.part = p /\ e.kind = part.kind
           /\ e.type = "part.added" => e.text = <<>>
           /\ e.type = "delta" => HasText(part.kind) /\ IsSeq(e.text) /\ e.text # <<>>
           /\ e.type = "text.done" => HasText(part.kind)
           /\ e.type = "part.done" => e.text = part.text
<1> DEFINE part == item.parts[p]
           Goal == /\ e = PartEvent(e.type, i, item, p, part, e.text)
                   /\ e.type \in PartTypes /\ e.part = p /\ e.kind = part.kind
                   /\ e.type = "part.added" => e.text = <<>>
                   /\ e.type = "delta" => HasText(part.kind) /\ IsSeq(e.text) /\ e.text # <<>>
                   /\ e.type = "text.done" => HasText(part.kind)
                   /\ e.type = "part.done" => e.text = part.text
<1>1. ASSUME NEW type, NEW text, e = PartEvent(type, i, item, p, part, text)
      PROVE  /\ e.type = type /\ e.text = text /\ e.part = p /\ e.kind = part.kind
             /\ e = PartEvent(e.type, i, item, p, part, e.text)
  BY <1>1, PartEventIs
<1>2. CASE e = PartEvent("part.added", i, item, p, part, <<>>)
  <2>1. e.type = "part.added" /\ e.text = <<>> /\ e.part = p /\ e.kind = part.kind
        /\ e = PartEvent(e.type, i, item, p, part, e.text)
    BY <1>1, <1>2
  <2>2. QED
    BY <2>1 DEF PartTypes
<1>3. ASSUME NEW t, HasText(part.kind), IsSeq(t), t # <<>>, e = PartEvent("delta", i, item, p, part, t)
      PROVE  Goal
  <2>1. e.type = "delta" /\ e.text = t /\ e.part = p /\ e.kind = part.kind
        /\ e = PartEvent(e.type, i, item, p, part, e.text)
    BY <1>1, <1>3
  <2>2. QED
    BY <1>3, <2>1 DEF PartTypes
<1>4. CASE HasText(part.kind) /\ e = PartEvent("text.done", i, item, p, part, part.text)
  <2>1. e.type = "text.done" /\ e.text = part.text /\ e.part = p /\ e.kind = part.kind
        /\ e = PartEvent(e.type, i, item, p, part, e.text)
    BY <1>1, <1>4
  <2>2. QED
    BY <1>4, <2>1 DEF PartTypes
<1>5. CASE e = PartEvent("part.done", i, item, p, part, part.text)
  <2>1. e.type = "part.done" /\ e.text = part.text /\ e.part = p /\ e.kind = part.kind
        /\ e = PartEvent(e.type, i, item, p, part, e.text)
    BY <1>1, <1>5
  <2>2. QED
    BY <2>1 DEF PartTypes
<1>6. QED
  BY <1>2, <1>3, <1>4, <1>5 DEF PartEventOf

LEMMA EventCases ==
    ASSUME NEW e, NEW i, NEW item, EventOf(e, i, item)
    PROVE  /\ e.type = "item.added" => e = Opening(i, item)
           /\ e.type = "item.done" => e = Closing(i, item, item.parts)
           /\ e.type \notin {"item.added", "item.done"} =>
                 \E p \in 1 .. Len(item.parts) : PartEventOf(e, i, item, p)
           /\ e.type \in PartTypes \cup {"item.added", "item.done"}
<1>1. CASE e = Opening(i, item)
  <2>1. e.type = "item.added"
    BY <1>1, OpeningIs
  <2>2. QED
    BY <1>1, <2>1
<1>2. CASE e = Closing(i, item, item.parts)
  <2>1. e.type = "item.done"
    BY <1>2, ClosingIs
  <2>2. QED
    BY <1>2, <2>1
<1>3. ASSUME NEW p \in 1 .. Len(item.parts), PartEventOf(e, i, item, p)
      PROVE  e.type \in PartTypes /\ e.type \notin {"item.added", "item.done"}
  <2>1. e.type \in PartTypes
    BY <1>3, PartFacts
  <2>2. QED
    BY <2>1 DEF PartTypes
<1>4. QED
  BY <1>1, <1>2, <1>3 DEF EventOf

LEMMA ItemFacts ==
    ASSUME NEW i, NEW it, ItemOK(i, it), it # NoItem
    PROVE  /\ DOMAIN it = {"fam", "id", "parts", "done", "snapshot"}
           /\ it.fam \in {"message", "reasoning"} /\ it.done \in BOOLEAN
           /\ IsSeq(it.parts) /\ Len(it.parts) \in Nat
           /\ \A p \in 1 .. Len(it.parts) : PartOK(it.fam, it.parts[p])
           /\ \A p \in 1 .. Len(it.parts) : it.done \/ p < Len(it.parts) => it.parts[p].done
           /\ ~it.done => View(i, it) = Body(i, it, Len(it.parts))
<1>1. /\ DOMAIN it = {"fam", "id", "parts", "done", "snapshot"}
      /\ it.fam \in {"message", "reasoning"} /\ it.done \in BOOLEAN /\ IsSeq(it.parts)
  BY DEF ItemOK
<1>2. /\ \A p \in 1 .. Len(it.parts) : PartOK(it.fam, it.parts[p])
      /\ \A p \in 1 .. Len(it.parts) : it.done \/ p < Len(it.parts) => it.parts[p].done
  BY DEF ItemOK
<1>3. Len(it.parts) \in Nat
  BY <1>1, Elements
<1>4. ~it.done => View(i, it) = Body(i, it, Len(it.parts))
  <2> DEFINE b == Body(i, it, Len(it.parts))
  <2>1. IsSeq(b)
    BY <1>3, BodyIsSeq
  <2>2. ~it.done => View(i, it) = b \o <<>>
    BY DEF View
  <2> HIDE DEF b
  <2>3. b \o <<>> = b
    BY <2>1, Concat
  <2>4. QED
    BY <2>2, <2>3 DEF b
<1>5. QED
  BY <1>1, <1>2, <1>3, <1>4

\* The last part of an open item, and what a change of it to q brings about.
MayChange(it, n, q) == it # NoItem /\ ~it.done /\ n = Len(it.parts) /\ n # 0 /\ PartOK(it.fam, q)
Changed(i, it, n, q) ==
    LET jt == [it EXCEPT !.parts[n] = q]
        b == Body(i, it, n - 1)
    IN  /\ ItemOK(i, jt) /\ IsSeq(b)
        /\ View(i, it) = Told(b, i, it, n, it.parts[n])
        /\ View(i, jt) = Told(b, i, it, n, q)

LEMMA LastPart ==
    ASSUME NEW i, NEW it, NEW n, NEW q, ItemOK(i, it), MayChange(it, n, q)
    PROVE  Changed(i, it, n, q)
<1>0. it # NoItem /\ ~it.done /\ n = Len(it.parts) /\ n # 0 /\ PartOK(it.fam, q)
  BY DEF MayChange
<1> USE <1>0
<1> DEFINE jt == [it EXCEPT !.parts[n] = q]
           k == n - 1
           b == Body(i, it, k)
           old == it.parts[n]
<1>1. /\ DOMAIN it = {"fam", "id", "parts", "done", "snapshot"}
      /\ it.fam \in {"message", "reasoning"} /\ it.done \in BOOLEAN
      /\ IsSeq(it.parts) /\ n \in Nat
      /\ \A p \in 1 .. n : PartOK(it.fam, it.parts[p])
      /\ \A p \in 1 .. n : p < n => it.parts[p].done
      /\ View(i, it) = Body(i, it, n)
  BY ItemFacts
<1>2. k \in Nat /\ k + 1 = n /\ n \in 1 .. n /\ \A p \in 1 .. k : p \in 1 .. n /\ p # n
  BY <1>1
<1>3. /\ DOMAIN jt = DOMAIN it /\ jt.fam = it.fam /\ jt.id = it.id /\ jt.done = it.done
      /\ jt.parts = [it.parts EXCEPT ![n] = q]
  BY <1>1
<1>4. DOMAIN it.parts = 1 .. n
  BY <1>1, Elements
<1> HIDE DEF jt
<1>5. jt.parts[n] = q /\ \A p \in 1 .. n : p # n => jt.parts[p] = it.parts[p]
  BY <1>2, <1>3, <1>4
<1>6. IsSeq(jt.parts) /\ Len(jt.parts) = n
  <2>1. jt.parts = [p \in 1 .. n |-> jt.parts[p]]
    BY <1>3, <1>4
  <2> DEFINE s == jt.parts
  <2> HIDE DEF s
  <2>2. IsSeq(s) /\ Len(s) = n
    <3>1. s = [p \in 1 .. n |-> s[p]]
      BY <2>1 DEF s
    <3>2. QED
      BY <1>1, <3>1, Listed
  <2>3. QED
    BY <2>2 DEF s
<1>7. ItemOK(i, jt)
  <2>1. \A p \in 1 .. n : PartOK(jt.fam, jt.parts[p])
    BY <1>1, <1>3, <1>5
  <2>2. \A p \in 1 .. n : p < n => jt.parts[p].done
    BY <1>1, <1>5
  <2>3. jt.fam # "none" /\ ~jt.done
    BY <1>1, <1>3
  <2>4. QED
    BY <1>1, <1>3, <1>6, <2>1, <2>2, <2>3 DEF ItemOK
<1>8. jt # NoItem
  <2>1. NoItem.fam = "none" /\ jt.fam # "none"
    BY <1>1, <1>3 DEF NoItem
  <2>2. QED
    BY <2>1
<1>s. it.fam = jt.fam /\ it.id = jt.id
  BY <1>3
<1>9. View(i, jt) = Body(i, jt, n)
  BY <1>3, <1>6, <1>7, <1>8, ItemFacts
<1>10. IsSeq(b)
  BY <1>2, BodyIsSeq
<1>11. Body(i, it, n) = Told(b, i, it, n, old)
  <2>1. Body(i, it, k + 1) = b \o PartView(i, it, k + 1, it.parts[k + 1])
    BY <1>2, BodyNext
  <2>2. Body(i, it, n) = b \o PartView(i, it, n, old)
    BY <1>2, <2>1
  <2> HIDE DEF b, old
  <2>3. QED
    BY <1>10, <2>2, PartTold
<1>12. Body(i, jt, n) = Told(b, i, it, n, q)
  <2>1. Body(i, jt, k + 1) = Body(i, jt, k) \o PartView(i, jt, k + 1, jt.parts[k + 1])
    BY <1>2, BodyNext
  <2>2. Body(i, jt, n) = Body(i, jt, k) \o PartView(i, jt, n, q)
    BY <1>2, <1>5, <2>1
  <2>3. PartView(i, jt, n, q) = PartView(i, it, n, q)
    BY <1>s DEF PartView, PartEvent
  <2>4. Body(i, it, k) = Body(i, jt, k)
    <3>1. ASSUME NEW p \in 1 .. k PROVE PartView(i, it, p, it.parts[p]) = PartView(i, jt, p, jt.parts[p])
      <4>1. jt.parts[p] = it.parts[p]
        BY <1>2, <1>5
      <4> DEFINE part == it.parts[p]
      <4>2. PartView(i, it, p, part) = PartView(i, jt, p, part)
        BY <1>s DEF PartView, PartEvent
      <4>3. QED
        BY <4>1, <4>2
    <3>2. QED
      BY <1>2, <1>s, <3>1, BodySame
  <2>5. Body(i, jt, n) = b \o PartView(i, it, n, q)
    BY <2>2, <2>3, <2>4
  <2> HIDE DEF b
  <2>6. QED
    BY <1>10, <2>5, PartTold
<1>13. QED
  BY <1>1, <1>7, <1>9, <1>10, <1>11, <1>12 DEF jt, Changed
\* A part more of an open item.
LEMMA NextPart ==
    ASSUME NEW i, NEW it, ItemOK(i, it), it # NoItem, ~it.done,
           \A p \in 1 .. Len(it.parts) : it.parts[p].done, NEW q, PartOK(it.fam, q)
    PROVE  LET jt == [it EXCEPT !.parts = Append(@, q)]
               m == Len(it.parts) + 1
           IN  ItemOK(i, jt) /\ View(i, jt) = View(i, it) \o PartView(i, it, m, q)
<1> DEFINE jt == [it EXCEPT !.parts = Append(@, q)]
           n == Len(it.parts)
           m == n + 1
<1>1. /\ DOMAIN it = {"fam", "id", "parts", "done", "snapshot"}
      /\ it.fam \in {"message", "reasoning"} /\ it.done \in BOOLEAN
      /\ IsSeq(it.parts) /\ n \in Nat
      /\ \A p \in 1 .. n : PartOK(it.fam, it.parts[p])
      /\ View(i, it) = Body(i, it, n)
  BY ItemFacts
<1>2. m \in Nat /\ m \in 1 .. m /\ (\A p \in 1 .. m : p \in 1 .. n \/ p = m) /\ (\A p \in 1 .. m : p < m => p \in 1 .. n)
  BY <1>1
<1>3. /\ DOMAIN jt = DOMAIN it /\ it.fam = jt.fam /\ it.id = jt.id /\ jt.done = it.done
      /\ jt.parts = Append(it.parts, q)
  BY <1>1
<1> HIDE DEF jt
<1>4. /\ IsSeq(jt.parts) /\ Len(jt.parts) = m /\ jt.parts[m] = q
      /\ \A p \in 1 .. n : jt.parts[p] = it.parts[p]
  <2> DEFINE s == it.parts
  <2>1. jt.parts = s \o <<q>> /\ IsSeq(s)
    BY <1>1, <1>3, OneMore
  <2> DEFINE o == Len(s)
  <2>2. o = n
    BY Zenon
  <2> HIDE DEF s, n
  <2>3. /\ IsSeq(s \o <<q>>) /\ Len(s \o <<q>>) = o + 1 /\ (s \o <<q>>)[o + 1] = q
        /\ \A p \in 1 .. o : (s \o <<q>>)[p] = s[p]
    BY <2>1, OneMore
  <2> HIDE DEF o
  <2>4. /\ IsSeq(jt.parts) /\ Len(jt.parts) = m /\ jt.parts[m] = q
        /\ \A p \in 1 .. n : jt.parts[p] = s[p]
    BY <2>1, <2>2, <2>3
  <2>5. QED
    BY <2>4 DEF s
<1>5. ItemOK(i, jt)
  <2>1. \A p \in 1 .. m : PartOK(jt.fam, jt.parts[p])
    BY <1>1, <1>2, <1>3, <1>4
  <2>2. \A p \in 1 .. m : p < m => jt.parts[p].done
    BY <1>2, <1>4
  <2>3. jt.fam # "none" /\ ~jt.done
    BY <1>1, <1>3
  <2>4. QED
    BY <1>1, <1>3, <1>4, <2>1, <2>2, <2>3 DEF ItemOK
<1>6. jt # NoItem
  <2>1. NoItem.fam = "none" /\ jt.fam # "none"
    BY <1>1, <1>3 DEF NoItem
  <2>2. QED
    BY <2>1
<1>7. View(i, jt) = Body(i, jt, m)
  BY <1>3, <1>4, <1>5, <1>6, ItemFacts
<1>8. Body(i, jt, m) = Body(i, jt, n) \o PartView(i, jt, m, q)
  <2>1. n \in Nat /\ jt.parts[n + 1] = q
    BY <1>1, <1>4
  <2> HIDE DEF n
  <2>2. Body(i, jt, n + 1) = Body(i, jt, n) \o PartView(i, jt, n + 1, jt.parts[n + 1])
    BY <2>1, BodyNext
  <2>3. QED
    BY <2>1, <2>2
<1>9. PartView(i, jt, m, q) = PartView(i, it, m, q)
  BY <1>3 DEF PartView, PartEvent
<1>10. Body(i, it, n) = Body(i, jt, n)
  <2>1. ASSUME NEW p \in 1 .. n PROVE PartView(i, it, p, it.parts[p]) = PartView(i, jt, p, jt.parts[p])
    <3>1. jt.parts[p] = it.parts[p]
      BY <1>4
    <3> DEFINE part == it.parts[p]
    <3>2. PartView(i, it, p, part) = PartView(i, jt, p, part)
      <4> HIDE DEF part
      <4>1. QED
        BY <1>3 DEF PartView, PartEvent
    <3>3. QED
      BY <3>1, <3>2
  <2>2. QED
    BY <1>1, <1>3, <2>1, BodySame
<1> HIDE DEF m, n
<1>11. View(i, jt) = View(i, it) \o PartView(i, it, m, q)
  BY <1>1, <1>7, <1>8, <1>9, <1>10
<1>12. QED
  BY <1>5, <1>11 DEF jt, m, n

\* An event of item number i that some response has.
Spoken(e, i) ==
    /\ e.fam \in {"message", "reasoning"}
    /\ \E r \in Responses : i \in 1 .. Len(r.output) /\ EventOf(e, i, r.output[i])

\* What is kept of the item and what its client has stay in step.
InStep(i, it, e) ==
    /\ ItemOK(i, Recorded(it, e))
    /\ View(i, Recorded(it, e)) = IF Frames(e) = <<>> THEN View(i, it) ELSE Join(View(i, it), e)

LEMMA FramesIs ==
    ASSUME NEW e
    PROVE  /\ e.type = "item.done" /\ e.fam = "reasoning" => Frames(e) = <<>>
           /\ ~(e.type = "item.done" /\ e.fam = "reasoning") => Frames(e) = <<e>> /\ Frames(e) # <<>>
  BY OneOf DEF Frames

LEMMA StepOpening ==
    ASSUME NEW i, NEW it, ItemOK(i, it), NEW e, Spoken(e, i), Accepts(it, e), e.type = "item.added"
    PROVE  InStep(i, it, e)
<1> DEFINE jt == [NoItem EXCEPT !.fam = e.fam, !.id = e.id]
<1>1. it = NoItem
  BY DEF Accepts
<1>2. PICK r \in Responses : i \in 1 .. Len(r.output) /\ EventOf(e, i, r.output[i])
  BY DEF Spoken
<1> DEFINE item == r.output[i]
<1>3. e = Opening(i, item) /\ e.fam = item.fam /\ e.id = item.id
  BY <1>2, EventCases, EventOfFields
<1>4. e.fam \in {"message", "reasoning"}
  BY DEF Spoken
<1>5. Recorded(it, e) = jt
  BY <1>1 DEF Recorded
<1>6. /\ DOMAIN jt = {"fam", "id", "parts", "done", "snapshot"} /\ jt.fam = e.fam /\ jt.id = e.id
      /\ jt.parts = <<>> /\ jt.done = FALSE
  BY DEF NoItem
<1>7. NoItem.fam = "none"
  BY DEF NoItem
<1> HIDE DEF item, jt
<1>8. jt # NoItem /\ jt.fam # "none"
  BY <1>4, <1>6, <1>7
<1>9. IsSeq(jt.parts) /\ Len(jt.parts) = 0 /\ 1 .. 0 = {}
  BY <1>6, NoneOf
<1>10. ItemOK(i, jt)
  BY <1>4, <1>6, <1>8, <1>9 DEF ItemOK
<1>11. View(i, jt) = <<e>>
  <2>1. View(i, jt) = Body(i, jt, 0)
    BY <1>6, <1>8, <1>9, <1>10, ItemFacts
  <2>2. Body(i, jt, 0) = <<Opening(i, jt)>>
    BY BodyNone
  <2>3. Opening(i, jt) = e
    BY <1>3, <1>6 DEF Opening
  <2>4. QED
    BY <2>1, <2>2, <2>3
<1>12. View(i, it) = <<>>
  BY <1>1 DEF View
<1>13. Join(<<>>, e) = <<e>>
  <2>1. Join(<<>>, e) = <<>> \o <<e>>
    BY NoneOf, JoinPlain
  <2>2. <<>> \o <<e>> = <<e>>
    BY OneOf, Concat
  <2>3. QED
    BY <2>1, <2>2
<1>14. Frames(e) # <<>>
  BY FramesIs
<1>15. QED
  BY <1>5, <1>10, <1>11, <1>12, <1>13, <1>14 DEF InStep
LEMMA StepClosing ==
    ASSUME NEW i, NEW it, ItemOK(i, it), NEW e, Spoken(e, i), Accepts(it, e), e.type = "item.done"
    PROVE  InStep(i, it, e)
<1> DEFINE jt == [it EXCEPT !.done = TRUE, !.snapshot = e.content]
           n == Len(it.parts)
           b == Body(i, it, n)
<1>1. /\ it.fam = e.fam /\ ~it.done /\ e.id = it.id /\ \A p \in 1 .. n : it.parts[p].done
      /\ e.fam = "message" => MessageComplete(it, e.content)
  BY DEF Accepts
<1>2. PICK r \in Responses : i \in 1 .. Len(r.output) /\ EventOf(e, i, r.output[i])
  BY DEF Spoken
<1> DEFINE item == r.output[i]
<1>3. e.fam \in {"message", "reasoning"} /\ it # NoItem
  <2>1. NoItem.fam = "none"
    BY DEF NoItem
  <2>2. e.fam \in {"message", "reasoning"}
    BY DEF Spoken
  <2>3. QED
    BY <1>1, <2>1, <2>2
<1>4. e = Closing(i, item, item.parts) /\ e.fam = item.fam /\ e.id = item.id
  BY <1>2, EventCases, EventOfFields
<1>5. e.content = item.parts
  BY <1>4 DEF Closing, Event
<1>6. Announced(i, it, e.content)
  BY <1>1, <1>2, <1>4, <1>5 DEF Announced
<1>7. Recorded(it, e) = jt
  BY DEF Recorded
<1>8. /\ DOMAIN it = {"fam", "id", "parts", "done", "snapshot"}
      /\ it.fam \in {"message", "reasoning"} /\ IsSeq(it.parts) /\ n \in Nat
      /\ \A p \in 1 .. n : PartOK(it.fam, it.parts[p])
      /\ View(i, it) = b
  BY <1>1, <1>3, ItemFacts
<1>9. /\ DOMAIN jt = DOMAIN it /\ jt.fam = it.fam /\ jt.id = it.id /\ jt.done = TRUE
      /\ jt.parts = it.parts /\ jt.snapshot = e.content
  BY <1>8
<1> HIDE DEF item, jt
<1>10. ItemOK(i, jt)
  <2>1. jt.fam = "message" => MessageComplete(jt, jt.snapshot) /\ Announced(i, jt, jt.snapshot)
    BY <1>1, <1>6, <1>9 DEF MessageComplete, Announced
  <2>2. jt.fam # "none" /\ jt.fam \in {"message", "reasoning"}
    BY <1>8, <1>9
  <2>3. QED
    BY <1>1, <1>8, <1>9, <2>1, <2>2 DEF ItemOK
<1>11. jt # NoItem
  <2>1. NoItem.fam = "none" /\ jt.fam # "none"
    BY <1>8, <1>9 DEF NoItem
  <2>2. QED
    BY <2>1
<1>12. Body(i, jt, n) = b
  <2>1. \A p \in 1 .. n : PartView(i, jt, p, jt.parts[p]) = PartView(i, it, p, it.parts[p])
    BY <1>9 DEF PartView, PartEvent
  <2>2. QED
    BY <1>8, <1>9, <2>1, BodySame
<1>13. IsSeq(b)
  BY <1>8, BodyIsSeq
<1>14. CASE e.fam = "message"
  <2>1. View(i, jt) = b \o <<Closing(i, jt, jt.snapshot)>>
    BY <1>1, <1>9, <1>11, <1>12, <1>14 DEF View
  <2>2. Closing(i, jt, jt.snapshot) = e
    BY <1>1, <1>4, <1>5, <1>9 DEF Closing
  <2> HIDE DEF b
  <2>3. Join(b, e) = b \o <<e>>
    BY <1>13, JoinPlain
  <2>4. Frames(e) # <<>>
    BY <1>14, FramesIs
  <2>5. QED
    BY <1>7, <1>8, <1>10, <2>1, <2>2, <2>3, <2>4 DEF InStep
<1>15. CASE e.fam = "reasoning"
  <2>1. View(i, jt) = b \o <<>>
    BY <1>1, <1>9, <1>11, <1>12, <1>15 DEF View
  <2> HIDE DEF b
  <2>2. b \o <<>> = b
    BY <1>13, Concat
  <2>3. Frames(e) = <<>>
    BY <1>15, FramesIs
  <2>4. QED
    BY <1>7, <1>8, <1>10, <2>1, <2>2, <2>3 DEF InStep
<1>16. QED
  BY <1>3, <1>14, <1>15

LEMMA StepNewPart ==
    ASSUME NEW i, NEW it, ItemOK(i, it), NEW e, Spoken(e, i), Accepts(it, e), e.type = "part.added"
    PROVE  InStep(i, it, e)
<1> DEFINE q == [kind |-> e.kind, text |-> <<>>, textDone |-> FALSE, done |-> FALSE]
           jt == [it EXCEPT !.parts = Append(@, q)]
           n == Len(it.parts)
           m == n + 1
<1>1. /\ it.fam = e.fam /\ ~it.done /\ e.id = it.id /\ e.part = m
      /\ e.part > 1 => it.parts[e.part - 1].done
  BY DEF Accepts
<1>2. PICK r \in Responses : i \in 1 .. Len(r.output) /\ EventOf(e, i, r.output[i])
  BY DEF Spoken
<1> DEFINE item == r.output[i]
<1>3. e.fam \in {"message", "reasoning"} /\ it # NoItem
  <2>1. NoItem.fam = "none"
    BY DEF NoItem
  <2>2. e.fam \in {"message", "reasoning"}
    BY DEF Spoken
  <2>3. QED
    BY <1>1, <2>1, <2>2
<1>4. PICK p \in 1 .. Len(item.parts) : PartEventOf(e, i, item, p)
  BY <1>2, EventCases
<1>5. e.fam = item.fam /\ e.id = item.id
  BY <1>2, EventOfFields
<1>6. /\ e = PartEvent(e.type, i, item, p, item.parts[p], e.text)
      /\ e.part = p /\ e.kind = item.parts[p].kind /\ e.text = <<>>
  BY <1>4, PartFacts
<1>7. item.fam = "reasoning" <=> item.parts[p].kind = "summary_text"
  BY <1>2, ResponseItems
<1>8. Recorded(it, e) = jt
  BY DEF Recorded
<1>9. \A j \in 1 .. n : it.parts[j].done
  <2>1. n \in Nat /\ \A j \in 1 .. n : j < n => it.parts[j].done
    BY <1>3, ItemFacts
  <2>2. n # 0 => it.parts[n].done
    BY <1>1, <2>1
  <2>3. QED
    BY <2>1, <2>2
<1>10. PartOK(it.fam, q)
  <2>1. /\ DOMAIN q = {"kind", "text", "textDone", "done"} /\ q.text = <<>> /\ q.textDone = FALSE /\ q.done = FALSE
        /\ q.kind = e.kind
    OBVIOUS
  <2> HIDE DEF q
  <2>2. it.fam = "reasoning" <=> q.kind = "summary_text"
    BY <1>1, <1>5, <1>6, <1>7, <2>1
  <2>3. QED
    BY <2>1, <2>2, NoneOf DEF PartOK
<1>11. PartView(i, it, m, q) = <<e>>
  <2> DEFINE a == PartEvent("part.added", i, it, m, q, <<>>)
  <2>1. a = e
    BY <1>1, <1>5, <1>6 DEF PartEvent
  <2>2. PartView(i, it, m, q) = ((<<a>> \o <<>>) \o <<>>) \o <<>>
    BY DEF PartView
  <2> HIDE DEF a
  <2>3. <<a>> \o <<>> = <<a>>
    BY OneOf, Concat
  <2>4. QED
    BY <2>1, <2>2, <2>3
<1> HIDE DEF item, q
<1>12. ItemOK(i, jt) /\ View(i, jt) = View(i, it) \o PartView(i, it, m, q)
  BY <1>1, <1>3, <1>9, <1>10, NextPart
<1> HIDE DEF jt, m
<1>13. Join(View(i, it), e) = View(i, it) \o <<e>>
  BY FollowView, JoinPlain
<1>14. Frames(e) # <<>>
  BY FramesIs
<1>15. QED
  BY <1>8, <1>11, <1>12, <1>13, <1>14 DEF InStep

\* The facts the events of an open part share.
LEMMA OpenPart ==
    ASSUME NEW i, NEW it, ItemOK(i, it), NEW e, Spoken(e, i), Accepts(it, e),
           e.type \in {"delta", "text.done", "part.done"}
    PROVE  LET n == Len(it.parts)
               q == it.parts[n]
           IN  /\ it # NoItem /\ ~it.done /\ n # 0 /\ e.part = n
               /\ ~q.done /\ PartOK(it.fam, q) /\ e.kind = q.kind
               /\ e = PartEvent(e.type, i, it, n, q, e.text)
               /\ e.type = "delta" => ~q.textDone /\ HasText(q.kind) /\ IsSeq(e.text) /\ e.text # <<>>
               /\ e.type = "text.done" => ~q.textDone /\ HasText(q.kind) /\ e.text = q.text
               /\ e.type = "part.done" => (HasText(q.kind) => q.textDone) /\ e.text = q.text
<1> DEFINE n == Len(it.parts)
           k == e.part
           q == it.parts[k]
<1>1. /\ it.fam = e.fam /\ ~it.done /\ e.id = it.id
      /\ k \in 1 .. n /\ ~q.done
      /\ e.type = "delta" => HasText(q.kind) /\ ~q.textDone
      /\ e.type = "text.done" => HasText(q.kind) /\ ~q.textDone /\ e.text = q.text
      /\ e.type = "part.done" => e.kind = q.kind /\ (HasText(q.kind) => q.textDone /\ e.text = q.text)
  BY DEF Accepts
<1>2. PICK r \in Responses : i \in 1 .. Len(r.output) /\ EventOf(e, i, r.output[i])
  BY DEF Spoken
<1> DEFINE item == r.output[i]
<1>3. e.fam \in {"message", "reasoning"} /\ it # NoItem
  <2>1. NoItem.fam = "none"
    BY DEF NoItem
  <2>2. e.fam \in {"message", "reasoning"}
    BY DEF Spoken
  <2>3. QED
    BY <1>1, <2>1, <2>2
<1>4. PICK p \in 1 .. Len(item.parts) : PartEventOf(e, i, item, p)
  BY <1>2, EventCases
<1> DEFINE part == item.parts[p]
<1>5. e.fam = item.fam /\ e.id = item.id
  BY <1>2, EventOfFields
<1>6. /\ e = PartEvent(e.type, i, item, p, part, e.text)
      /\ e.part = p /\ e.kind = part.kind
      /\ e.type = "delta" => HasText(part.kind) /\ IsSeq(e.text) /\ e.text # <<>>
      /\ e.type = "text.done" => HasText(part.kind)
      /\ e.type = "part.done" => e.text = part.text
  BY <1>4, PartFacts
<1>7. item.fam = "reasoning" <=> part.kind = "summary_text"
  BY <1>2, ResponseItems
<1>8. ~HasText(part.kind) => part.text = <<>>
  BY <1>2, ResponsePart
<1>9. /\ n \in Nat /\ \A j \in 1 .. n : PartOK(it.fam, it.parts[j])
      /\ \A j \in 1 .. n : j < n => it.parts[j].done
  BY <1>3, ItemFacts
<1>10. k = n /\ n # 0 /\ PartOK(it.fam, q)
  BY <1>1, <1>9
<1> HIDE DEF item, part, q
<1>11. e.kind = q.kind
  <2>1. CASE e.type = "part.done"
    BY <1>1, <2>1
  <2>2. CASE e.type \in {"delta", "text.done"}
    <3>1. HasText(q.kind) /\ HasText(part.kind)
      BY <1>1, <1>6, <2>2
    <3>2. it.fam = "reasoning" <=> q.kind = "summary_text"
      BY <1>10 DEF PartOK
    <3>3. QED
      BY <1>1, <1>5, <1>6, <1>7, <3>1, <3>2 DEF HasText
  <2>3. QED
    BY <2>1, <2>2
<1>12. e = PartEvent(e.type, i, it, n, q, e.text)
  BY <1>1, <1>5, <1>6, <1>10, <1>11 DEF PartEvent
<1>13. e.type = "part.done" => e.text = q.text
  <2>1. ASSUME e.type = "part.done", ~HasText(q.kind) PROVE e.text = q.text
    <3>1. q.text = <<>>
      BY <1>10, <2>1 DEF PartOK
    <3>2. part.text = <<>>
      BY <1>6, <1>8, <1>11, <2>1
    <3>3. QED
      BY <1>6, <2>1, <3>1, <3>2
  <2>2. QED
    BY <1>1, <2>1
<1>14. QED
  BY <1>1, <1>3, <1>6, <1>10, <1>11, <1>12, <1>13 DEF q
LEMMA SameEvent ==
    ASSUME NEW type, NEW i, NEW it, NEW p, NEW part, NEW other, NEW text, other.kind = part.kind
    PROVE  PartEvent(type, i, it, p, other, text) = PartEvent(type, i, it, p, part, text)
  BY DEF PartEvent

LEMMA StepDelta ==
    ASSUME NEW i, NEW it, ItemOK(i, it), NEW e, Spoken(e, i), Accepts(it, e), e.type = "delta"
    PROVE  InStep(i, it, e)
<1> DEFINE n == Len(it.parts)
           q == it.parts[n]
           w == [q EXCEPT !.text = @ \o e.text]
           jt == [it EXCEPT !.parts[n] = w]
           b == Body(i, it, n - 1)
           a == PartEvent("part.added", i, it, n, q, <<>>)
           s == b \o <<a>>
<1>1. /\ it # NoItem /\ ~it.done /\ n # 0 /\ e.part = n
      /\ ~q.done /\ PartOK(it.fam, q) /\ e.kind = q.kind
      /\ e = PartEvent("delta", i, it, n, q, e.text)
      /\ ~q.textDone /\ HasText(q.kind) /\ IsSeq(e.text) /\ e.text # <<>>
  BY OpenPart
<1>2. Recorded(it, e) = jt
  BY <1>1 DEF Recorded
<1>3. /\ DOMAIN w = {"kind", "text", "textDone", "done"}
      /\ w.kind = q.kind /\ w.textDone = q.textDone /\ w.done = q.done /\ w.text = q.text \o e.text
  BY <1>1 DEF PartOK
<1>4. IsSeq(q.text)
  BY <1>1 DEF PartOK
<1> HIDE DEF w, q
<1>5. PartOK(it.fam, w)
  <2>1. IsSeq(w.text)
    BY <1>1, <1>3, <1>4, Concat
  <2>2. it.fam = "reasoning" <=> q.kind = "summary_text"
    BY <1>1 DEF PartOK
  <2>3. QED
    BY <1>1, <1>3, <2>1, <2>2 DEF PartOK
<1>6. /\ ItemOK(i, jt) /\ IsSeq(b)
      /\ View(i, it) = Told(b, i, it, n, q)
      /\ View(i, jt) = Told(b, i, it, n, w)
  <2>1. n = Len(it.parts)
    OBVIOUS
  <2>q. q = it.parts[n]
    BY DEF q
  <2> HIDE DEF n
  <2>2. MayChange(it, n, w)
    BY <1>1, <1>5, <2>1 DEF MayChange
  <2>5. Changed(i, it, n, w)
    BY <2>2, LastPart
  <2>3. /\ ItemOK(i, jt) /\ IsSeq(b)
        /\ View(i, it) = Told(b, i, it, n, it.parts[n])
        /\ View(i, jt) = Told(b, i, it, n, w)
    BY <2>5 DEF Changed
  <2>4. QED
    BY <2>3, <2>q
<1> HIDE DEF jt, b, n
<1>7. a.type = "part.added" /\ PartEvent("part.added", i, it, n, w, <<>>) = a
  BY <1>3, PartEventIs, SameEvent
<1>8. IsSeq(s) /\ Last(s) = a
  <2> HIDE DEF a
  <2>1. QED
    BY <1>6, OneMore
<1>9. Join(View(i, it), e) = View(i, jt)
  <2>1. CASE q.text = <<>>
    <3>1. View(i, it) = s
      BY <1>1, <1>6, <2>1 DEF Told
    <3>2. w.text = e.text
      BY <1>1, <1>3, <2>1, Concat
    <3>3. PartEvent("delta", i, it, n, w, w.text) = e
      <4>1. PartEvent("delta", i, it, n, w, e.text) = PartEvent("delta", i, it, n, q, e.text)
        BY <1>3, SameEvent
      <4>2. QED
        BY <1>1, <3>2, <4>1
    <3>4. View(i, jt) = s \o <<e>>
      <4>1. Told(b, i, it, n, w)
            = b \o <<PartEvent("part.added", i, it, n, w, <<>>)>> \o <<PartEvent("delta", i, it, n, w, w.text)>>
        BY <1>1, <1>3, <3>2 DEF Told
      <4>2. QED
        BY <1>6, <1>7, <3>3, <4>1
    <3> HIDE DEF a, s
    <3>5. Join(s, e) = s \o <<e>>
      BY <1>7, <1>8, JoinFirst
    <3>6. QED
      BY <3>1, <3>4, <3>5
  <2>2. CASE q.text # <<>>
    <3> DEFINE x == PartEvent("delta", i, it, n, q, q.text)
               y == PartEvent("delta", i, it, n, w, w.text)
    <3>1. View(i, it) = s \o <<x>>
      BY <1>1, <1>6, <2>2 DEF Told
    <3>2. w.text # <<>>
      <4> DEFINE u == q.text
                 v == e.text
      <4>1. IsSeq(u) /\ IsSeq(v) /\ u # <<>>
        BY <1>1, <1>4, <2>2
      <4> HIDE DEF u, v
      <4>2. u \o v # <<>>
        <5>1. Len(u \o v) = Len(u) + Len(v) /\ Len(u) \in Nat /\ Len(v) \in Nat /\ Len(u) # 0
          BY <4>1, Concat, Elements
        <5>2. Len(u \o v) # 0
          BY <5>1
        <5>3. QED
          BY <5>2, NoneOf
      <4>3. QED
        BY <1>3, <4>2 DEF u, v
    <3>3. View(i, jt) = s \o <<y>>
      <4>1. Told(b, i, it, n, w) = b \o <<PartEvent("part.added", i, it, n, w, <<>>)>> \o <<y>>
        BY <1>1, <1>3, <3>2 DEF Told
      <4>2. QED
        BY <1>6, <1>7, <4>1
    <3>4. [x EXCEPT !.text = @ \o e.text] = y
      <4>1. y = PartEvent("delta", i, it, n, q, q.text \o e.text)
        BY <1>3, SameEvent
      <4> DEFINE u == q.text \o e.text
      <4>2. x.text = q.text
        BY PartEventIs
      <4> HIDE DEF u
      <4>3. [x EXCEPT !.text = u] = PartEvent("delta", i, it, n, q, u)
        BY DEF PartEvent, Event
      <4>4. [x EXCEPT !.text = @ \o e.text] = [x EXCEPT !.text = u]
        BY <4>2 DEF u
      <4>5. QED
        BY <4>1, <4>3, <4>4 DEF u
    <3>5. x.type = "delta" /\ x.part = e.part
      BY <1>1, PartEventIs
    <3> HIDE DEF a, s, x, y
    <3>6. Join(s \o <<x>>, e) = s \o <<[x EXCEPT !.text = @ \o e.text]>>
      BY <1>8, <3>5, JoinDelta
    <3>7. QED
      BY <3>1, <3>3, <3>4, <3>6
  <2>3. QED
    BY <2>1, <2>2
<1>10. Frames(e) # <<>>
  BY FramesIs
<1>11. QED
  BY <1>2, <1>6, <1>9, <1>10 DEF InStep

LEMMA StepTextDone ==
    ASSUME NEW i, NEW it, ItemOK(i, it), NEW e, Spoken(e, i), Accepts(it, e), e.type = "text.done"
    PROVE  InStep(i, it, e)
<1> DEFINE n == Len(it.parts)
           q == it.parts[n]
           w == [q EXCEPT !.textDone = TRUE]
           jt == [it EXCEPT !.parts[n] = w]
           b == Body(i, it, n - 1)
<1>1. /\ it # NoItem /\ ~it.done /\ n # 0 /\ e.part = n
      /\ ~q.done /\ PartOK(it.fam, q) /\ e.kind = q.kind
      /\ e = PartEvent("text.done", i, it, n, q, e.text)
      /\ ~q.textDone /\ HasText(q.kind) /\ e.text = q.text
  BY OpenPart
<1>2. Recorded(it, e) = jt
  BY <1>1 DEF Recorded
<1>3. /\ DOMAIN w = {"kind", "text", "textDone", "done"}
      /\ w.kind = q.kind /\ w.textDone = TRUE /\ w.done = q.done /\ w.text = q.text
  BY <1>1 DEF PartOK
<1> HIDE DEF w, q
<1>5. PartOK(it.fam, w)
  BY <1>1, <1>3 DEF PartOK
<1>6. /\ ItemOK(i, jt) /\ IsSeq(b)
      /\ View(i, it) = Told(b, i, it, n, q)
      /\ View(i, jt) = Told(b, i, it, n, w)
  <2>1. n = Len(it.parts)
    OBVIOUS
  <2>q. q = it.parts[n]
    BY DEF q
  <2> HIDE DEF n
  <2>2. MayChange(it, n, w)
    BY <1>1, <1>5, <2>1 DEF MayChange
  <2>5. Changed(i, it, n, w)
    BY <2>2, LastPart
  <2>3. /\ ItemOK(i, jt) /\ IsSeq(b)
        /\ View(i, it) = Told(b, i, it, n, it.parts[n])
        /\ View(i, jt) = Told(b, i, it, n, w)
    BY <2>5 DEF Changed
  <2>4. QED
    BY <2>3, <2>q
<1> HIDE DEF jt, b, n
<1>7. /\ PartEvent("part.added", i, it, n, w, <<>>) = PartEvent("part.added", i, it, n, q, <<>>)
      /\ PartEvent("delta", i, it, n, w, w.text) = PartEvent("delta", i, it, n, q, q.text)
      /\ PartEvent("text.done", i, it, n, w, w.text) = e
  BY <1>1, <1>3, SameEvent
<1>8. View(i, jt) = View(i, it) \o <<e>>
  BY <1>1, <1>3, <1>6, <1>7 DEF Told
<1>9. Join(View(i, it), e) = View(i, it) \o <<e>>
  BY FollowView, JoinPlain
<1>10. Frames(e) # <<>>
  BY FramesIs
<1>11. QED
  BY <1>2, <1>6, <1>8, <1>9, <1>10 DEF InStep

LEMMA StepPartDone ==
    ASSUME NEW i, NEW it, ItemOK(i, it), NEW e, Spoken(e, i), Accepts(it, e), e.type = "part.done"
    PROVE  InStep(i, it, e)
<1> DEFINE n == Len(it.parts)
           q == it.parts[n]
           w == [q EXCEPT !.done = TRUE]
           jt == [it EXCEPT !.parts[n] = w]
           b == Body(i, it, n - 1)
<1>1. /\ it # NoItem /\ ~it.done /\ n # 0 /\ e.part = n
      /\ ~q.done /\ PartOK(it.fam, q) /\ e.kind = q.kind
      /\ e = PartEvent("part.done", i, it, n, q, e.text)
      /\ HasText(q.kind) => q.textDone
      /\ e.text = q.text
  BY OpenPart
<1>2. Recorded(it, e) = jt
  BY <1>1 DEF Recorded
<1>3. /\ DOMAIN w = {"kind", "text", "textDone", "done"}
      /\ w.kind = q.kind /\ (w.textDone <=> q.textDone) /\ w.textDone = q.textDone
      /\ w.done = TRUE /\ w.text = q.text
  BY <1>1 DEF PartOK
<1> HIDE DEF w, q
<1>5. PartOK(it.fam, w)
  BY <1>1, <1>3 DEF PartOK
<1>6. /\ ItemOK(i, jt) /\ IsSeq(b)
      /\ View(i, it) = Told(b, i, it, n, q)
      /\ View(i, jt) = Told(b, i, it, n, w)
  <2>1. n = Len(it.parts)
    OBVIOUS
  <2>q. q = it.parts[n]
    BY DEF q
  <2> HIDE DEF n
  <2>2. MayChange(it, n, w)
    BY <1>1, <1>5, <2>1 DEF MayChange
  <2>5. Changed(i, it, n, w)
    BY <2>2, LastPart
  <2>3. /\ ItemOK(i, jt) /\ IsSeq(b)
        /\ View(i, it) = Told(b, i, it, n, it.parts[n])
        /\ View(i, jt) = Told(b, i, it, n, w)
    BY <2>5 DEF Changed
  <2>4. QED
    BY <2>3, <2>q
<1> HIDE DEF jt, b, n
<1>7. /\ PartEvent("part.added", i, it, n, w, <<>>) = PartEvent("part.added", i, it, n, q, <<>>)
      /\ PartEvent("delta", i, it, n, w, w.text) = PartEvent("delta", i, it, n, q, q.text)
      /\ PartEvent("text.done", i, it, n, w, w.text) = PartEvent("text.done", i, it, n, q, q.text)
      /\ PartEvent("part.done", i, it, n, w, w.text) = e
  BY <1>1, <1>3, SameEvent
<1>8. View(i, jt) = View(i, it) \o <<e>>
  BY <1>1, <1>3, <1>6, <1>7 DEF Told
<1>9. Join(View(i, it), e) = View(i, it) \o <<e>>
  BY FollowView, JoinPlain
<1>10. Frames(e) # <<>>
  BY FramesIs
<1>11. QED
  BY <1>2, <1>6, <1>8, <1>9, <1>10 DEF InStep

LEMMA Step ==
    ASSUME NEW i, NEW it, ItemOK(i, it), NEW e, Spoken(e, i), Accepts(it, e)
    PROVE  InStep(i, it, e)
<1>1. e.type \in PartTypes \cup {"item.added", "item.done"}
  BY EventCases DEF Spoken
<1>2. e.type \in {"item.added", "item.done", "part.added", "delta", "text.done", "part.done"}
  BY <1>1 DEF PartTypes
<1>3. QED
  BY <1>2, StepOpening, StepClosing, StepNewPart, StepDelta, StepTextDone, StepPartDone
----------------------------------------------------------------------------
(* A delivery keeps its records in step with what went out.                *)

\* An event a delivery takes: of a message or a reasoning item.
Heard(e) == e.index \in Indexes /\ Spoken(e, e.index)
AllHeard(s) == IsSeq(s) /\ \A k \in 1 .. Len(s) : Heard(s[k])

\* The records of the items, and the events s that told them to the client.
Tracks(items, s) ==
    /\ DOMAIN items = Indexes /\ IsSeq(s)
    /\ \A i \in Indexes : ItemOK(i, items[i]) /\ Joined(i, <<>>, s) = View(i, items[i])

LEMMA Streams ==
    ASSUME NEW e \in Alphabet, e.fam \in {"message", "reasoning"}
    PROVE  Heard(e)
<1>1. PICK r \in Responses : \E i \in 1 .. Len(r.output) : EventOf(e, i, r.output[i])
  BY AlphabetShape
<1>2. PICK i \in 1 .. Len(r.output) : EventOf(e, i, r.output[i])
  BY <1>1
<1>3. e.index = i /\ i \in Indexes
  BY <1>2, EventOfFields, ResponseItems
<1>4. QED
  BY <1>2, <1>3 DEF Heard, Spoken

LEMMA NothingOK ==
    ASSUME NEW i PROVE ItemOK(i, NoItem) /\ View(i, NoItem) = <<>>
<1>1. /\ DOMAIN NoItem = {"fam", "id", "parts", "done", "snapshot"}
      /\ NoItem.fam = "none" /\ NoItem.parts = <<>> /\ NoItem.done = FALSE
  BY DEF NoItem
<1>2. Len(NoItem.parts) = 0 /\ IsSeq(NoItem.parts) /\ 1 .. 0 = {}
  BY <1>1, NoneOf
<1>3. ItemOK(i, NoItem)
  BY <1>1, <1>2 DEF ItemOK
<1>4. QED
  BY <1>3 DEF View

LEMMA TrackStart == Tracks(NewDelivery.items, <<>>)
<1> DEFINE items == NewDelivery.items
<1>1. DOMAIN items = Indexes
  BY DEF NewDelivery
<1>2. ASSUME NEW i \in Indexes PROVE items[i] = NoItem
  BY IndexIs
<1> HIDE DEF items
<1>3. \A i \in Indexes : ItemOK(i, items[i]) /\ Joined(i, <<>>, <<>>) = View(i, items[i])
  BY <1>2, NothingOK, JoinedNone
<1>4. Tracks(items, <<>>)
  BY <1>1, <1>3, NoneOf DEF Tracks
<1>5. QED
  BY <1>4 DEF items

\* What the client has of an item once the frames of one event went out.
LEMMA JoinedFrames ==
    ASSUME NEW i, NEW s, IsSeq(s), NEW e
    PROVE  /\ IsSeq(s \o Frames(e))
           /\ e.index # i \/ Frames(e) = <<>> => Joined(i, <<>>, s \o Frames(e)) = Joined(i, <<>>, s)
           /\ e.index = i /\ Frames(e) # <<>> =>
                 Joined(i, <<>>, s \o Frames(e)) = Join(Joined(i, <<>>, s), e)
<1> DEFINE f == Frames(e)
           x == Joined(i, <<>>, s)
<1>1. IsSeq(f) /\ (f = <<>> \/ f = <<e>>)
  BY NoneOf, OneOf DEF Frames
<1> HIDE DEF f
<1>2. IsSeq(s \o f) /\ Joined(i, <<>>, s \o f) = Joined(i, x, f)
  BY <1>1, Concat, JoinedMore
<1> HIDE DEF x
<1>3. f = <<>> => Joined(i, x, f) = x
  BY JoinedNone
<1>4. f = <<e>> => Joined(i, x, f) = Took(i, x, e)
  BY JoinedOne
<1>5. QED
  BY <1>1, <1>2, <1>3, <1>4 DEF Took, f, x

LEMMA TrackStep ==
    ASSUME NEW items, NEW s, Tracks(items, s), NEW e, Heard(e), Accepts(items[e.index], e)
    PROVE  Tracks([items EXCEPT ![e.index] = Recorded(@, e)], s \o Frames(e))
<1> DEFINE k == e.index
           it == items[k]
           jt == Recorded(it, e)
           new == [items EXCEPT ![k] = jt]
           t == s \o Frames(e)
<1>1. /\ DOMAIN items = Indexes /\ IsSeq(s)
      /\ \A i \in Indexes : ItemOK(i, items[i]) /\ Joined(i, <<>>, s) = View(i, items[i])
  BY DEF Tracks
<1>2. k \in Indexes /\ Spoken(e, k)
  BY DEF Heard
<1>3. ItemOK(k, it) /\ Joined(k, <<>>, s) = View(k, it)
  BY <1>1, <1>2
<1>4. InStep(k, it, e)
  BY <1>2, <1>3, Step
<1>5. ItemOK(k, jt) /\ View(k, jt) = IF Frames(e) = <<>> THEN View(k, it) ELSE Join(View(k, it), e)
  BY <1>4 DEF InStep
<1>6. [items EXCEPT ![e.index] = Recorded(@, e)] = new
  OBVIOUS
<1>7. DOMAIN new = Indexes /\ new[k] = jt /\ \A i \in Indexes : i # k => new[i] = items[i]
  BY <1>1, <1>2
<1> HIDE DEF new, jt, it
<1>8. Joined(k, <<>>, t) = View(k, jt)
  <2>1. CASE Frames(e) = <<>>
    BY <1>1, <1>3, <1>5, <2>1, JoinedFrames
  <2>2. CASE Frames(e) # <<>>
    BY <1>1, <1>3, <1>5, <2>2, JoinedFrames
  <2>3. QED
    BY <2>1, <2>2
<1>9. ASSUME NEW i \in Indexes, i # k PROVE Joined(i, <<>>, t) = View(i, items[i])
  <2>1. e.index # i
    BY <1>9
  <2>2. Joined(i, <<>>, t) = Joined(i, <<>>, s)
    BY <1>1, <2>1, JoinedFrames
  <2>3. QED
    BY <1>1, <2>2
<1>10. IsSeq(t)
  BY <1>1, JoinedFrames
<1> HIDE DEF t, k
<1>11. ASSUME NEW i \in Indexes PROVE ItemOK(i, new[i]) /\ Joined(i, <<>>, t) = View(i, new[i])
  BY <1>1, <1>5, <1>7, <1>8, <1>9
<1>12. Tracks(new, t)
  BY <1>7, <1>10, <1>11 DEF Tracks
<1>13. QED
  BY <1>6, <1>12 DEF t, k

LEMMA TrackFollows ==
    ASSUME NEW items, NEW s, Tracks(items, s), NEW i \in Indexes
    PROVE  Followable(Joined(i, <<>>, s))
  BY FollowView DEF Tracks
----------------------------------------------------------------------------
(* The pending batch on a fresh state.                                     *)

FreshProbe == [ok |-> TRUE, frames |-> <<>>, items |-> NewDelivery.items]
Probing(batch, n, g) ==
    g = [k \in 0 .. n |-> IF k = 0 THEN FreshProbe ELSE Probe(g[k - 1], batch[k])]

LEMMA ProbingExists ==
    ASSUME NEW batch, NEW N \in Nat
    PROVE  \E g : Probing(batch, N, g)
<1> DEFINE S == {n \in Nat : \E g : Probing(batch, n, g)}
<1>1. 0 \in S
  <2>1. Probing(batch, 0, [k \in 0 .. 0 |-> FreshProbe])
    BY DEF Probing
  <2>2. QED
    BY <2>1
<1>2. ASSUME NEW n \in 0 .. N, n \in S PROVE n + 1 \in S
  <2>1. PICK g : Probing(batch, n, g)
    BY <1>2
  <2> DEFINE m == n + 1
             h == [k \in 0 .. m |-> IF k = m THEN Probe(g[k - 1], batch[k]) ELSE g[k]]
  <2>2. \A k \in 0 .. n : g[k] = IF k = 0 THEN FreshProbe ELSE Probe(g[k - 1], batch[k])
    BY <2>1 DEF Probing
  <2>3. ASSUME NEW k \in 0 .. m PROVE h[k] = IF k = 0 THEN FreshProbe ELSE Probe(h[k - 1], batch[k])
    <3>1. CASE k = 0
      <4>1. k # m /\ k \in 0 .. n
        BY <3>1
      <4>2. h[k] = g[k]
        BY <4>1
      <4>3. QED
        BY <2>2, <3>1, <4>1, <4>2
    <3>2. CASE k # 0
      <4>1. k - 1 \in 0 .. m /\ k - 1 # m
        BY <3>2
      <4>2. h[k - 1] = g[k - 1]
        BY <4>1
      <4>3. CASE k = m
        BY <3>2, <4>2, <4>3
      <4>4. CASE k # m
        <5>1. k \in 0 .. n /\ h[k] = g[k]
          BY <4>4
        <5>2. QED
          BY <2>2, <3>2, <4>2, <5>1
      <4>5. QED
        BY <4>3, <4>4
    <3>3. QED
      BY <3>1, <3>2
  <2>4. h = [k \in 0 .. m |-> h[k]]
    OBVIOUS
  <2> HIDE DEF h
  <2>5. Probing(batch, m, h)
    BY <2>3, <2>4 DEF Probing
  <2>6. m \in Nat
    OBVIOUS
  <2>7. QED
    BY <2>5, <2>6
<1> HIDE DEF S
<1>3. 0 .. N \subseteq S
  BY <1>1, <1>2, Climb
<1>4. QED
  BY <1>3 DEF S

LEMMA ProbedIs ==
    ASSUME NEW batch, IsSeq(batch)
    PROVE  \E g : Probing(batch, Len(batch), g) /\ ReplayPending(batch) = g[Len(batch)]
<1> DEFINE n == Len(batch)
           Q(g) == g = [k \in 0 .. n |->
                           IF k = 0 THEN [ok |-> TRUE, frames |-> <<>>, items |-> NewDelivery.items]
                           ELSE Probe(g[k - 1], batch[k])]
           h == CHOOSE g : Q(g)
<1>1. n \in Nat
  BY Elements
<1>2. ReplayPending(batch) = h[n]
  BY DEF ReplayPending, Probed
<1>3. \A g : Probing(batch, n, g) <=> Q(g)
  BY DEF Probing, FreshProbe
<1>4. \E g : Q(g)
  BY <1>1, <1>3, ProbingExists
<1>5. Q(CHOOSE g : Q(g))
  <2> HIDE DEF Q
  <2>1. QED
    BY <1>4
<1>6. Probing(batch, n, h)
  BY <1>3, <1>5
<1> HIDE DEF h
<1>7. QED
  BY <1>2, <1>6

\* A probe that is still good keeps its records in step with its frames.
Good(state) ==
    DOMAIN state = {"ok", "frames", "items"} /\ (state.ok => Tracks(state.items, state.frames))

LEMMA ProbeStep ==
    ASSUME NEW state, Good(state), NEW e, Heard(e)
    PROVE  Good(Probe(state, e))
<1>1. DOMAIN state = {"ok", "frames", "items"} /\ (state.ok => Tracks(state.items, state.frames))
  BY DEF Good
<1>2. CASE state.ok /\ Accepts(state.items[e.index], e)
  <2> DEFINE items == [state.items EXCEPT ![e.index] = Recorded(@, e)]
             frames == state.frames \o Frames(e)
             new == Probe(state, e)
  <2>1. Tracks(items, frames)
    BY <1>1, <1>2, TrackStep
  <2>2. new = [Record(state, e) EXCEPT !.frames = @ \o Frames(e)]
    BY <1>2 DEF Probe
  <2>3. DOMAIN new = {"ok", "frames", "items"} /\ new.items = items /\ new.frames = frames
    BY <1>1, <2>2 DEF Record
  <2> HIDE DEF items, frames, new
  <2>4. Good(new)
    BY <2>1, <2>3 DEF Good
  <2>5. QED
    BY <2>4 DEF new
<1>3. CASE ~(state.ok /\ Accepts(state.items[e.index], e))
  <2>1. Probe(state, e) = [state EXCEPT !.ok = FALSE]
    BY <1>3 DEF Probe
  <2>2. QED
    BY <1>1, <2>1 DEF Good
<1>4. QED
  BY <1>2, <1>3

LEMMA ReplayGood ==
    ASSUME NEW batch, AllHeard(batch)
    PROVE  Good(ReplayPending(batch))
<1> DEFINE n == Len(batch)
<1>1. n \in Nat /\ IsSeq(batch) /\ \A k \in 1 .. n : Heard(batch[k])
  BY Elements DEF AllHeard
<1>2. PICK g : Probing(batch, n, g) /\ ReplayPending(batch) = g[n]
  BY <1>1, ProbedIs
<1> HIDE DEF n
<1> DEFINE P == {k \in Nat : k <= n => Good(g[k])}
<1>3. 0 \in P
  <2>1. g[0] = FreshProbe
    BY <1>1, <1>2 DEF Probing
  <2>2. Good(FreshProbe)
    <3> DEFINE items == NewDelivery.items
    <3>1. Tracks(items, <<>>)
      BY TrackStart
    <3> HIDE DEF items
    <3>2. Good([ok |-> TRUE, frames |-> <<>>, items |-> items])
      BY <3>1 DEF Good
    <3>3. QED
      BY <3>2 DEF FreshProbe, items
  <2>3. QED
    BY <2>1, <2>2
<1>4. ASSUME NEW k \in 0 .. n, k + 1 <= n, k \in P PROVE k + 1 \in P
  <2> DEFINE m == k + 1
  <2>1. m \in 0 .. n /\ m \in Nat /\ m # 0 /\ m - 1 = k /\ m \in 1 .. n
    BY <1>1, <1>4
  <2>2. Good(g[k])
    BY <1>4
  <2> HIDE DEF m
  <2>3. g[m] = Probe(g[k], batch[m])
    BY <1>2, <2>1 DEF Probing
  <2>4. Good(g[m])
    BY <1>1, <2>1, <2>2, <2>3, ProbeStep
  <2>5. QED
    BY <2>1, <2>4 DEF m
<1> HIDE DEF P
<1>5. 0 .. n \subseteq P
  BY <1>1, <1>3, <1>4, Climb
<1>6. Good(g[n])
  BY <1>1, <1>5 DEF P
<1>7. QED
  BY <1>2, <1>6
----------------------------------------------------------------------------
(* The invariant of a delivery, over the state it is about: buffered, d,   *)
(* final, out and outcome.                                                 *)

Fields ==
    {"committed", "meta", "pending", "broken", "terminal", "known", "knownParts", "items"}

\* What went out is the response's event sequence, item by item.
ShownWhole(dd, r, s) ==
    SameShapes =>
        \A i \in Indexes :
            Joined(i, <<>>, s) = IF i <= Len(r.output)
                                 THEN ItemEvents(i, r.output[i], dd.committed, FALSE) ELSE <<>>

\* A commitment is for an incremental round; from then on the records say what
\* went out, and before nothing did.
InvOf(b, dd, r, s, o) ==
    /\ b \in BOOLEAN /\ r \in Responses /\ IsSeq(s)
    /\ DOMAIN dd = Fields /\ dd.committed \in BOOLEAN /\ (dd.committed => ~b)
    /\ \A i \in Indexes : Followable(Joined(i, <<>>, s))
    /\ o = "reading" /\ dd.committed => Tracks(dd.items, s)
    /\ o = "reading" /\ ~dd.committed => s = <<>> /\ AllHeard(dd.pending)
    /\ b /\ o # "completed" => s = <<>>
    /\ o = "completed" => ShownWhole(dd, r, s)

DeliveredInv == planned \in Responses /\ InvOf(buffered, d, final, out, outcome)

LEMMA FreshIs ==
    /\ DOMAIN NewDelivery = Fields /\ NewDelivery.committed = FALSE
    /\ NewDelivery.pending = <<>> /\ AllHeard(NewDelivery.pending)
<1>1. DOMAIN NewDelivery = Fields /\ NewDelivery.committed = FALSE /\ NewDelivery.pending = <<>>
  BY DEF NewDelivery, Fields
<1>2. AllHeard(<<>>)
  <2>1. Len(<<>>) = 0 /\ IsSeq(<<>>) /\ 1 .. 0 = {}
    BY NoneOf
  <2>2. QED
    BY <2>1 DEF AllHeard
<1>3. QED
  BY <1>1, <1>2

\* Nothing goes out, and the execution fails.
LEMMA Failed ==
    ASSUME NEW b, NEW dd, NEW r, NEW s, InvOf(b, dd, r, s, "reading"),
           NEW ee, DOMAIN ee = Fields, ee.committed \in BOOLEAN, ee.committed => ~b,
           NEW o, o \notin {"reading", "completed"}
    PROVE  InvOf(b, ee, r, s, o)
  BY DEF InvOf

\* Nothing goes out, and the execution goes on.
LEMMA Quiet ==
    ASSUME NEW b, NEW dd, NEW r, NEW s, InvOf(b, dd, r, s, "reading"),
           NEW ee, DOMAIN ee = Fields, ee.committed = dd.committed,
           dd.committed => ee.items = dd.items, ~dd.committed => AllHeard(ee.pending),
           NEW q \in Responses
    PROVE  InvOf(b, ee, q, s, "reading")
  BY DEF InvOf

\* What went out is followed by what a delivery had the client see.
LEMMA Delivered ==
    ASSUME NEW b, b = FALSE, NEW r \in Responses, NEW s,
           NEW ee, DOMAIN ee = Fields, ee.committed = TRUE, Tracks(ee.items, s)
    PROVE  InvOf(b, ee, r, s, "reading")
<1>1. IsSeq(s)
  BY DEF Tracks
<1>2. \A i \in Indexes : Followable(Joined(i, <<>>, s))
  BY TrackFollows
<1>3. QED
  BY <1>1, <1>2 DEF InvOf

LEMMA NoteIs ==
    ASSUME NEW dd, DOMAIN dd = Fields, NEW e
    PROVE  LET n == Note(dd, e) IN
           DOMAIN n = Fields /\ n.committed = dd.committed /\ n.items = dd.items /\ n.pending = dd.pending
<1>1. CASE e.type = "item.added"
  BY <1>1 DEF Note, Fields
<1>2. CASE e.type # "item.added" /\ e.type = "part.added"
  BY <1>2 DEF Note, Fields
<1>3. CASE e.type \notin {"item.added", "part.added"}
  BY <1>3 DEF Note, Fields
<1>4. QED
  BY <1>1, <1>2, <1>3

LEMMA RecordIs ==
    ASSUME NEW dd, DOMAIN dd = Fields, NEW e
    PROVE  LET n == Record(dd, e) IN
           /\ DOMAIN n = Fields /\ n.committed = dd.committed /\ n.pending = dd.pending
           /\ n.items = [dd.items EXCEPT ![e.index] = Recorded(@, e)]
  BY DEF Record, Fields

LEMMA HeardMore ==
    ASSUME NEW s, AllHeard(s), NEW e, Heard(e)
    PROVE  AllHeard(Append(s, e))
<1> DEFINE t == s \o <<e>>
           n == Len(s)
<1>1. n \in Nat /\ IsSeq(s) /\ \A k \in 1 .. n : Heard(s[k])
  BY Elements DEF AllHeard
<1>2. /\ IsSeq(t) /\ Len(t) = n + 1 /\ t[n + 1] = e /\ Append(s, e) = t
      /\ \A k \in 1 .. n : t[k] = s[k]
  BY <1>1, OneMore
<1> HIDE DEF t, n
<1>3. ASSUME NEW k \in 1 .. (n + 1) PROVE Heard(t[k])
  <2>1. k \in 1 .. n \/ k = n + 1
    BY <1>1
  <2>2. QED
    BY <1>1, <1>2, <2>1
<1>4. AllHeard(t)
  BY <1>2, <1>3 DEF AllHeard
<1>5. QED
  BY <1>2, <1>4

LEMMA DeliveredStarts == Init => DeliveredInv
<1> SUFFICES ASSUME Init PROVE DeliveredInv
  OBVIOUS
<1>1. /\ planned \in Responses /\ final \in Responses /\ buffered \in BOOLEAN
      /\ d = NewDelivery /\ out = <<>> /\ outcome = "reading"
  BY DEF Init
<1>2. ASSUME NEW i \in Indexes PROVE Followable(Joined(i, <<>>, <<>>))
  BY JoinedNone, FollowNone
<1>3. InvOf(buffered, d, final, out, outcome)
  BY <1>1, <1>2, FreshIs, NoneOf DEF InvOf
<1>4. QED
  BY <1>1, <1>3 DEF DeliveredInv
\* What validateFinal looked at once something went out.
AgreesWith(items, r) ==
    \A i \in Indexes : \/ items[i] = NoItem
                       \/ i <= Len(r.output) /\ Matches(i, items[i], r.output[i])

LEMMA FinishResumed ==
    ASSUME NEW b, NEW dd, NEW r, NEW s, InvOf(b, dd, r, s, "reading"), dd.committed,
           AgreesWith(dd.items, r)
    PROVE  InvOf(b, dd, r, s \o Kept(dd.items, SyntheticEvents(r, TRUE, FALSE)), "completed")
<1> DEFINE items == dd.items
           yes == TRUE
           rep == Kept(items, SyntheticEvents(r, yes, FALSE))
           t == s \o rep
<1>1. /\ b \in BOOLEAN /\ r \in Responses /\ IsSeq(s) /\ DOMAIN dd = Fields
      /\ dd.committed = TRUE /\ ~b /\ Tracks(items, s)
  BY DEF InvOf
<1>2. IsSeq(rep)
  <2>1. IsSeq(SyntheticEvents(r, yes, FALSE))
    BY <1>1, SyntheticIs
  <2>2. QED
    BY <2>1, KeptIs
<1>3. IsSeq(t) /\ \A i : Joined(i, <<>>, t) = Joined(i, Joined(i, <<>>, s), rep)
  <2> HIDE DEF rep
  <2>1. QED
    BY <1>1, <1>2, Concat, JoinedMore
<1>4. ASSUME NEW i \in Indexes
      PROVE  /\ Followable(Joined(i, <<>>, t))
             /\ SameShapes => Joined(i, <<>>, t) = IF i <= Len(r.output)
                                                   THEN ItemEvents(i, r.output[i], yes, FALSE) ELSE <<>>
  <2>1. Joined(i, <<>>, s) = View(i, items[i])
    BY <1>1 DEF Tracks
  <2>2. items[i] = NoItem \/ (i <= Len(r.output) /\ Matches(i, items[i], r.output[i]))
    BY DEF AgreesWith
  <2>3. LET x == Joined(i, View(i, items[i]), rep) IN
        /\ SameShapes => x = IF i <= Len(r.output) THEN ItemEvents(i, r.output[i], yes, FALSE) ELSE <<>>
        /\ Followable(x)
    BY <1>1, <2>2, ResumedReplay
  <2> HIDE DEF rep, t, items, yes
  <2>4. QED
    BY <1>3, <2>1, <2>3
<1>5. ShownWhole(dd, r, t)
  <2> HIDE DEF t
  <2>1. QED
    BY <1>1, <1>4 DEF ShownWhole
<1> HIDE DEF rep
<1>6. InvOf(b, dd, r, t, "completed")
  <2> HIDE DEF t
  <2>1. QED
    BY <1>1, <1>3, <1>4, <1>5 DEF InvOf
<1>7. QED
  BY <1>6 DEF t, rep, yes, items

LEMMA FinishWhole ==
    ASSUME NEW b, NEW dd, NEW r, NEW s, InvOf(b, dd, r, s, "reading"), ~dd.committed
    PROVE  InvOf(b, dd, r, s \o SyntheticEvents(r, FALSE, FALSE), "completed")
<1> DEFINE no == FALSE
           rep == SyntheticEvents(r, no, FALSE)
<1>1. /\ b \in BOOLEAN /\ r \in Responses /\ IsSeq(s) /\ DOMAIN dd = Fields
      /\ dd.committed = no /\ s = <<>>
  BY DEF InvOf
<1>0. ~dd.committed /\ dd.committed \in BOOLEAN
  BY DEF InvOf
<1> HIDE DEF no
<1>2. IsSeq(rep)
  BY <1>1, SyntheticIs
<1>3. s \o rep = rep
  <2> HIDE DEF rep
  <2>1. QED
    BY <1>1, <1>2, Concat
<1>4. ASSUME NEW i \in Indexes
      PROVE  LET x == Joined(i, <<>>, rep) IN
             /\ x = IF i <= Len(r.output) THEN ItemEvents(i, r.output[i], no, FALSE) ELSE <<>>
             /\ Followable(x)
  BY <1>1, FullReplay
<1> HIDE DEF rep
<1>5. ShownWhole(dd, r, rep)
  BY <1>1, <1>4 DEF ShownWhole
<1>6. InvOf(b, dd, r, rep, "completed")
  BY <1>0, <1>1, <1>2, <1>4, <1>5 DEF InvOf
<1>7. QED
  BY <1>3, <1>6 DEF rep, no

LEMMA ValidAgrees ==
    ASSUME DeliveredInv, outcome = "reading", d.committed, ValidFinal
    PROVE  AgreesWith(d.items, final)
<1>1. final \in Responses /\ Tracks(d.items, out)
  BY DEF DeliveredInv, InvOf
<1>2. ASSUME NEW i \in Indexes, d.items[i] # NoItem
      PROVE  i <= Len(final.output) /\ Matches(i, d.items[i], final.output[i])
  <2>1. /\ i <= Len(final.output) /\ final.output[i].fam = d.items[i].fam
        /\ final.output[i].id = d.items[i].id /\ ItemAgrees(d.items[i], final.output[i].parts)
    BY <1>2 DEF ValidFinal
  <2>2. i \in 1 .. Len(final.output)
    <3> DEFINE n == Len(final.output)
    <3>1. n \in Nat /\ i \in Nat \ {0} /\ i <= n
      BY <1>1, <2>1, IndexIs, ResponseItems
    <3> HIDE DEF n
    <3>2. i \in 1 .. n
      BY <3>1
    <3>3. QED
      BY <3>2 DEF n
  <2>3. PartsOK(final.output[i])
    BY <1>1, <2>2, ResponseItems
  <2>4. ItemOK(i, d.items[i])
    BY <1>1 DEF Tracks
  <2>5. QED
    BY <1>2, <2>1, <2>3, <2>4 DEF Matches
<1>3. QED
  BY <1>2 DEF AgreesWith

LEMMA PendingGrows ==
    ASSUME DeliveredInv, outcome = "reading", ~buffered, ~d.committed, NEW e, Heard(e),
           ConsumePending(e)
    PROVE  InvOf(buffered, d', final, out', outcome')
<1> DEFINE n == Note(d, e)
           dd == [n EXCEPT !.pending = Append(@, e)]
           replay == ReplayPending(dd.pending)
           ee == [dd EXCEPT !.broken = TRUE]
           cc == Commit(dd, replay.items)
<1>1. /\ InvOf(buffered, d, final, out, "reading") /\ final \in Responses /\ buffered = FALSE
      /\ DOMAIN d = Fields /\ d.committed = FALSE /\ out = <<>> /\ AllHeard(d.pending)
  BY DEF DeliveredInv, InvOf
<1>2. /\ DOMAIN n = Fields /\ n.committed = FALSE /\ n.pending = d.pending
  BY <1>1, NoteIs
<1>3. \/ d' = dd /\ out' = out /\ outcome' = outcome
      \/ d' = ee /\ out' = out /\ outcome' = outcome
      \/ /\ replay.ok /\ d' = cc
         /\ \/ out' = out \o replay.frames /\ outcome' = outcome
            \/ out' = out /\ outcome' = "client_disconnected"
  BY DEF ConsumePending, Forward, FailWith
<1> HIDE DEF n
<1>4. DOMAIN dd = Fields /\ dd.committed = FALSE /\ dd.pending = Append(d.pending, e)
  BY <1>2 DEF Fields
<1>5. AllHeard(dd.pending)
  BY <1>1, <1>4, HeardMore
<1>6. replay.ok => Tracks(replay.items, replay.frames)
  BY <1>5, ReplayGood DEF Good
<1> HIDE DEF dd, replay
<1>7. DOMAIN ee = Fields /\ ee.committed = FALSE /\ ee.pending = dd.pending
  BY <1>4 DEF Fields
<1>8. DOMAIN cc = Fields /\ cc.committed = TRUE /\ cc.items = replay.items
  BY <1>4 DEF Fields, Commit
<1> HIDE DEF ee, cc
<1>9. InvOf(buffered, dd, final, out, "reading") /\ InvOf(buffered, ee, final, out, "reading")
  BY <1>1, <1>4, <1>5, <1>7, Quiet
<1>10. CASE replay.ok /\ d' = cc /\ out' = out \o replay.frames /\ outcome' = outcome
  <2> DEFINE f == replay.frames
  <2>1. IsSeq(f)
    BY <1>6, <1>10 DEF Tracks
  <2> HIDE DEF f
  <2>2. out \o f = f
    BY <1>1, <2>1, Concat
  <2>3. Tracks(cc.items, f)
    BY <1>6, <1>8, <1>10 DEF f
  <2>4. InvOf(buffered, cc, final, f, "reading")
    BY <1>1, <1>8, <2>3, Delivered
  <2>5. QED
    BY <1>10, <2>2, <2>4 DEF f
<1>11. CASE d' = cc /\ out' = out /\ outcome' = "client_disconnected"
  <2>1. InvOf(buffered, cc, final, out, "client_disconnected")
    BY <1>1, <1>8, Failed
  <2>2. QED
    BY <1>11, <2>1
<1>12. QED
  BY <1>3, <1>9, <1>10, <1>11
LEMMA DeliveredKept == DeliveredInv /\ [Next]_vars => DeliveredInv'
<1> SUFFICES ASSUME DeliveredInv, [Next]_vars PROVE DeliveredInv'
  OBVIOUS
<1> DEFINE Kept1 == planned' \in Responses /\ InvOf(buffered', d', final', out', outcome')
<1> SUFFICES Kept1
  BY DEF DeliveredInv
<1>0. /\ planned \in Responses /\ final \in Responses /\ buffered \in BOOLEAN
      /\ InvOf(buffered, d, final, out, outcome)
      /\ DOMAIN d = Fields /\ d.committed \in BOOLEAN /\ (d.committed => ~buffered)
  BY DEF DeliveredInv, InvOf
<1>f. ASSUME NEW o, o \notin {"reading", "completed"}, outcome = "reading"
      PROVE  InvOf(buffered, d, final, out, o)
  BY <1>0, <1>f, Failed
<1>r. ASSUME NEW e \in Alphabet, Receive(e)
      PROVE  /\ outcome = "reading" /\ buffered' = buffered /\ planned' = planned /\ final' = final
             /\ Streamed(e) => Heard(e)
  BY <1>r, Streams DEF Receive, Streamed
<1>1. ASSUME NEW e \in Alphabet, ConsumeAfterTerminal(e) PROVE Kept1
  BY <1>0, <1>f, <1>r, <1>1 DEF ConsumeAfterTerminal, FailWith
<1>2. ASSUME NEW e \in Alphabet, ConsumeCreated(e) PROVE Kept1
  <2> DEFINE ee == [d EXCEPT !.meta = e.id]
  <2>1. Receive(e) /\ outcome = "reading"
    BY <1>r, <1>2 DEF ConsumeCreated
  <2>2. /\ DOMAIN ee = Fields /\ ee.committed = d.committed /\ ee.items = d.items
        /\ ee.pending = d.pending
    BY <1>0 DEF Fields
  <2>3. \/ d' = d /\ out' = out /\ outcome' = "invalid_upstream_stream"
        \/ d' = ee /\ out' = out /\ outcome' = outcome
    BY <1>2 DEF ConsumeCreated, FailWith
  <2> HIDE DEF ee
  <2>4. ~d.committed => AllHeard(ee.pending)
    BY <1>0, <2>1, <2>2 DEF InvOf
  <2>5. InvOf(buffered, ee, final, out, "reading")
    BY <1>0, <2>1, <2>2, <2>4, Quiet
  <2>6. QED
    BY <1>0, <1>f, <1>r, <2>1, <2>3, <2>5
<1>3. ASSUME NEW e \in Alphabet, ConsumeTool(e) PROVE Kept1
  BY <1>0, <1>r, <1>3 DEF ConsumeTool
<1>4. ASSUME NEW e \in Alphabet, ConsumeBuffered(e) PROVE Kept1
  <2> DEFINE n == Note(d, e)
             ee == Record(n, e)
  <2>1. Receive(e) /\ outcome = "reading" /\ buffered
    BY <1>r, <1>4 DEF ConsumeBuffered, Holds
  <2>2. ~d.committed
    BY <1>0, <2>1
  <2>3. DOMAIN n = Fields /\ n.committed = d.committed /\ n.pending = d.pending
    BY <1>0, NoteIs
  <2>4. \/ d' = d /\ out' = out /\ outcome' = "invalid_upstream_stream"
        \/ d' = ee /\ out' = out /\ outcome' = outcome
    BY <1>4 DEF ConsumeBuffered, FailWith
  <2> HIDE DEF n
  <2>5. DOMAIN ee = Fields /\ ee.committed = d.committed /\ ee.pending = d.pending
    BY <2>3, RecordIs
  <2> HIDE DEF ee
  <2>6. AllHeard(ee.pending)
    BY <1>0, <2>1, <2>2, <2>5 DEF InvOf
  <2>7. InvOf(buffered, ee, final, out, "reading")
    BY <1>0, <2>1, <2>2, <2>5, <2>6, Quiet
  <2>8. QED
    BY <1>0, <1>f, <1>r, <2>1, <2>4, <2>7
<1>5. ASSUME NEW e \in Alphabet, ConsumeCommitted(e) PROVE Kept1
  <2> DEFINE n == Note(d, e)
             ee == Record(n, e)
             f == Frames(e)
  <2>1. Receive(e) /\ outcome = "reading" /\ d.committed /\ Heard(e)
    BY <1>r, <1>5 DEF ConsumeCommitted
  <2>2. buffered = FALSE /\ d.committed = TRUE /\ Tracks(d.items, out) /\ IsSeq(out)
    BY <1>0, <2>1 DEF InvOf
  <2>3. DOMAIN n = Fields /\ n.committed = d.committed /\ n.items = d.items
    BY <1>0, NoteIs
  <2> HIDE DEF n
  <2>4. /\ DOMAIN ee = Fields /\ ee.committed = TRUE
        /\ ee.items = [d.items EXCEPT ![e.index] = Recorded(@, e)]
    BY <2>2, <2>3, RecordIs
  <2> HIDE DEF ee
  <2>5. CASE Accepts(d.items[e.index], e)
    <3>1. Tracks(ee.items, out \o f)
      BY <2>1, <2>2, <2>4, <2>5, TrackStep
    <3>2. InvOf(buffered, ee, final, out \o f, "reading")
      BY <1>0, <2>2, <2>4, <3>1, Delivered
    <3>3. InvOf(buffered, ee, final, out, "client_disconnected")
      BY <1>0, <2>1, <2>2, <2>4, Failed
    <3>4. d' = ee
      BY <1>5, <2>5 DEF ConsumeCommitted, ee, n
    <3>5. \/ f = <<>> /\ out' = out /\ outcome' = outcome
          \/ out' = out \o f /\ outcome' = outcome
          \/ out' = out /\ outcome' = "client_disconnected"
      BY <1>5, <2>5 DEF ConsumeCommitted, Forward, FailWith
    <3>6. out \o <<>> = out
      BY <2>2, NoneOf, Concat
    <3> HIDE DEF f
    <3>7. QED
      BY <1>0, <1>r, <2>1, <3>2, <3>3, <3>4, <3>5, <3>6
  <2>6. CASE ~Accepts(d.items[e.index], e)
    <3>1. d' = d /\ out' = out /\ outcome' = "invalid_upstream_stream"
      BY <1>5, <2>6 DEF ConsumeCommitted, FailWith
    <3>2. QED
      BY <1>0, <1>f, <1>r, <2>1, <3>1
  <2>7. QED
    BY <2>5, <2>6
<1>6. ASSUME NEW e \in Alphabet, ConsumePending(e) PROVE Kept1
  <2>1. Receive(e) /\ Streamed(e) /\ ~buffered /\ ~d.committed
    BY <1>6 DEF ConsumePending, Holds
  <2>2. outcome = "reading" /\ Heard(e)
    BY <1>r, <2>1
  <2>3. InvOf(buffered, d', final, out', outcome')
    BY <1>6, <2>1, <2>2, PendingGrows
  <2>4. QED
    BY <1>0, <1>r, <2>1, <2>3
<1>7. ASSUME NEW r \in Responses, ConsumeTerminal(r) PROVE Kept1
  <2> DEFINE ee == [d EXCEPT !.terminal = TRUE]
  <2>1. outcome = "reading" /\ d' = ee /\ final' = r /\ UNCHANGED <<buffered, planned, out, outcome>>
    BY <1>7 DEF ConsumeTerminal
  <2>2. /\ DOMAIN ee = Fields /\ ee.committed = d.committed /\ ee.items = d.items
        /\ ee.pending = d.pending
    BY <1>0 DEF Fields
  <2> HIDE DEF ee
  <2>3. ~d.committed => AllHeard(ee.pending)
    BY <1>0, <2>1, <2>2 DEF InvOf
  <2>4. InvOf(buffered, ee, r, out, "reading")
    BY <1>0, <2>1, <2>2, <2>3, Quiet
  <2>5. QED
    BY <1>0, <2>1, <2>4
<1>8. CASE LoseEvent \/ EndUnfinished \/ EndInvalid \/ EndToolInvalid
  <2>1. CASE LoseEvent
    BY <1>0, <2>1 DEF LoseEvent
  <2>2. CASE EndUnfinished
    BY <1>0, <1>f, <2>2 DEF EndUnfinished, FailWith, upstream
  <2>3. CASE EndInvalid
    BY <1>0, <1>f, <2>3 DEF EndInvalid, AtEnd, FailWith, upstream
  <2>4. CASE EndToolInvalid
    BY <1>0, <1>f, <2>4 DEF EndToolInvalid, AtEnd, FailWith, upstream
  <2>5. QED
    BY <1>8, <2>1, <2>2, <2>3, <2>4
<1>9. CASE EndFinish
  <2>1. /\ outcome = "reading" /\ ValidFinal /\ out' = out \o Replay /\ outcome' = "completed"
        /\ UNCHANGED <<buffered, planned, d, final>>
    BY <1>9 DEF EndFinish, AtEnd, upstream
  <2>2. InvOf(buffered, d, final, out \o Replay, "completed")
    <3>1. CASE d.committed
      <4>1. Replay = Kept(d.items, SyntheticEvents(final, TRUE, FALSE))
        BY <3>1 DEF Replay
      <4>2. AgreesWith(d.items, final)
        BY <2>1, <3>1, ValidAgrees
      <4>3. QED
        BY <1>0, <2>1, <3>1, <4>1, <4>2, FinishResumed
    <3>2. CASE ~d.committed
      <4>1. Replay = SyntheticEvents(final, FALSE, FALSE)
        BY <3>2 DEF Replay
      <4>2. QED
        BY <1>0, <2>1, <3>2, <4>1, FinishWhole
    <3>3. QED
      BY <3>1, <3>2
  <2>3. QED
    BY <1>0, <2>1, <2>2
<1>10. CASE EndRegenerate
  <2>1. /\ outcome = "reading" /\ ~d.committed /\ d' = NewDelivery
        /\ planned' \in Responses /\ final' = planned' /\ UNCHANGED <<buffered, out, outcome>>
    BY <1>10 DEF EndRegenerate, AtEnd, MayRegenerate
  <2>2. InvOf(buffered, d, final', out, "reading")
    BY <1>0, <2>1 DEF InvOf
  <2>3. InvOf(buffered, NewDelivery, final', out, "reading")
    BY <1>0, <2>1, <2>2, FreshIs DEF InvOf
  <2>4. QED
    BY <2>1, <2>3
<1>11. CASE Rest \/ UNCHANGED vars
  BY <1>0, <1>11 DEF Rest, vars, upstream
<1>12. QED
  BY <1>1, <1>2, <1>3, <1>4, <1>5, <1>6, <1>7, <1>8, <1>9, <1>10, <1>11 DEF Next

LEMMA DeliveredAlways == Spec => []DeliveredInv
  BY DeliveredStarts, DeliveredKept, PTL DEF Spec

\* Whatever the upstream streams, loses or contradicts: what went out early and
\* what the replay adds are, for every item of a completed stream, exactly the
\* event sequence of that item in the final response; a buffered round shows
\* nothing before it completes.  The hypothesis is on the responses: a message's
\* item.done is compared with the streamed parts in number and texts only, never
\* in the kinds of its parts (stream_events.go:441-452).
THEOREM ResponseIsExact == ASSUME SameShapes PROVE Spec => []ExactlyTheResponse
<1>1. DeliveredInv => ExactlyTheResponse
  <2> SUFFICES ASSUME DeliveredInv PROVE ExactlyTheResponse
    OBVIOUS
  <2>1. /\ buffered /\ outcome # "completed" => out = <<>>
        /\ outcome = "completed" => ShownWhole(d, final, out)
    BY DEF DeliveredInv, InvOf
  <2>2. QED
    BY <2>1 DEF ExactlyTheResponse, ShownWhole, Received
<1>2. QED
  BY <1>1, DeliveredAlways, PTL

\* For every set of responses and at every moment, failed streams included: an
\* item opens once and first, its parts follow one another, and a text.done tells
\* the very text its deltas spelt.
THEOREM ClientFollows == Spec => []ClientCanFollow
<1>1. DeliveredInv => ClientCanFollow
  <2> SUFFICES ASSUME DeliveredInv, NEW i \in Indexes
               PROVE  LET s == Received(i)
                      IN  \A j \in DOMAIN s :
                             /\ (j = 1) <=> (s[j].type = "item.added")
                             /\ j > 1 => Follows(s[j - 1], s[j])
                             /\ s[j].type = "text.done" /\ s[j].text # <<>> =>
                                    s[j - 1].type = "delta" /\ s[j - 1].text = s[j].text
    BY DEF ClientCanFollow
  <2>1. Followable(Received(i))
    BY DEF DeliveredInv, InvOf, Received
  <2>2. QED
    BY <2>1 DEF Followable, Told1
<1>2. QED
  BY <1>1, DeliveredAlways, PTL
----------------------------------------------------------------------------
(* A clean stream: the delivery takes the events of a response one after   *)
(* another, and at every moment its records agree with that response.      *)

\* The item's record is one that validateFinal lets pass.
Fits(it, item) == it.fam = item.fam /\ it.id = item.id /\ ItemAgrees(it, item.parts)

Sound(r, x) ==
    /\ DOMAIN x = Fields /\ DOMAIN x.items = Indexes
    /\ \A i \in Indexes : x.items[i] # NoItem =>
          i <= Len(r.output) /\ Fits(x.items[i], r.output[i])

\* A delta comes for what was announced.
Prepared(x, e) ==
    e.type = "delta" => /\ e.text # <<>>
                        /\ <<e.fam, e.index, e.id>> \in x.known
                        /\ <<e.fam, e.index, e.part>> \in x.knownParts

\* The delivery x takes the event e and is y.
Goes(x, e, y) ==
    /\ e.fam \in {"message", "reasoning"} =>
          Accepts(x.items[e.index], e) /\ Prepared(x, e) /\ y = Record(Note(x, e), e)
    /\ e.fam \notin {"message", "reasoning"} => e.type # "delta" /\ y = x

\* The deliveries g on the way from x to y by the events s.
Way(r, x, s, y, g) ==
    /\ g[0] = x /\ g[Len(s)] = y
    /\ \A k \in 0 .. Len(s) : Sound(r, g[k])
    /\ \A k \in 0 .. Len(s) : k + 1 <= Len(s) => Goes(g[k], s[k + 1], g[k + 1])

Path(r, x, s, y) == IsSeq(s) /\ \E g : Way(r, x, s, y, g)

LEMMA PathNone == ASSUME NEW r, NEW x, Sound(r, x) PROVE Path(r, x, <<>>, x)
<1> DEFINE g == [k \in 0 .. 0 |-> x]
<1>1. g[0] = x /\ IsSeq(<<>>) /\ Len(<<>>) = 0 /\ \A k \in 0 .. 0 : k = 0
  BY NoneOf
<1> HIDE DEF g
<1>2. Way(r, x, <<>>, x, g)
  BY <1>1 DEF Way
<1>3. QED
  BY <1>1, <1>2 DEF Path

LEMMA PathOne ==
    ASSUME NEW r, NEW x, Sound(r, x), NEW e, NEW y, Goes(x, e, y), Sound(r, y)
    PROVE  Path(r, x, <<e>>, y)
<1> DEFINE g == [k \in 0 .. 1 |-> IF k = 0 THEN x ELSE y]
           s == <<e>>
<1>1. g[0] = x /\ g[1] = y /\ \A k \in 0 .. 1 : k = 0 \/ k = 1
  OBVIOUS
<1>2. IsSeq(s) /\ Len(s) = 1 /\ s[1] = e
  BY OneOf
<1> HIDE DEF g, s
<1>3. \A k \in 0 .. 1 : k + 1 <= 1 => k = 0 /\ k + 1 = 1
  OBVIOUS
<1>4. Way(r, x, s, y, g)
  BY <1>1, <1>2, <1>3 DEF Way
<1>5. Path(r, x, s, y)
  BY <1>2, <1>4 DEF Path
<1>6. QED
  BY <1>5 DEF s

LEMMA PathMore ==
    ASSUME NEW r, NEW x, NEW s, NEW y, Path(r, x, s, y), NEW t, NEW z, Path(r, y, t, z)
    PROVE  Path(r, x, s \o t, z)
<1>1. PICK g : Way(r, x, s, y, g)
  BY DEF Path
<1>2. PICK h : Way(r, y, t, z, h)
  BY DEF Path
<1> DEFINE m == Len(s)
           n == Len(t)
           u == s \o t
           l == [k \in 0 .. (m + n) |-> IF k <= m THEN g[k] ELSE h[k - m]]
<1>3. IsSeq(s) /\ IsSeq(t) /\ m \in Nat /\ n \in Nat
  BY Elements DEF Path
<1>4. /\ IsSeq(u) /\ Len(u) = m + n
      /\ \A j \in 1 .. m : u[j] = s[j]
      /\ \A j \in 1 .. n : u[m + j] = t[j]
  BY <1>3, Concat
<1>5. /\ g[0] = x /\ g[m] = y /\ \A k \in 0 .. m : Sound(r, g[k])
      /\ \A k \in 0 .. m : k + 1 <= m => Goes(g[k], s[k + 1], g[k + 1])
  BY <1>1 DEF Way
<1>6. /\ h[0] = y /\ h[n] = z /\ \A k \in 0 .. n : Sound(r, h[k])
      /\ \A k \in 0 .. n : k + 1 <= n => Goes(h[k], t[k + 1], h[k + 1])
  BY <1>2 DEF Way
<1>7. /\ \A k \in 0 .. m : l[k] = g[k]
      /\ \A k \in 0 .. n : l[m + k] = h[k]
  <2>1. ASSUME NEW k \in 0 .. m PROVE l[k] = g[k]
    BY <1>3
  <2>2. ASSUME NEW k \in 0 .. n PROVE l[m + k] = h[k]
    <3>1. m + k \in 0 .. (m + n) /\ (m + k <= m <=> k = 0) /\ m + k - m = k
      BY <1>3
    <3>2. CASE k = 0
      BY <1>3, <1>5, <1>6, <3>1, <3>2
    <3>3. CASE k # 0
      BY <3>1, <3>3
    <3>4. QED
      BY <3>2, <3>3
  <2>3. QED
    BY <2>1, <2>2
<1> HIDE DEF l, u, m, n
<1>8. ASSUME NEW k \in 0 .. (m + n)
      PROVE  k \in 0 .. m \/ (k - m \in 0 .. n /\ k = m + (k - m) /\ k # 0 /\ k > m)
  BY <1>3
<1>9. ASSUME NEW k \in 0 .. (m + n) PROVE Sound(r, l[k])
  <2>1. CASE k \in 0 .. m
    BY <1>5, <1>7, <2>1
  <2>2. CASE k - m \in 0 .. n /\ k = m + (k - m)
    <3> DEFINE j == k - m
    <3>1. j \in 0 .. n /\ k = m + j
      BY <2>2
    <3> HIDE DEF j
    <3>2. QED
      BY <1>6, <1>7, <3>1
  <2>3. QED
    BY <1>8, <2>1, <2>2
<1>10. ASSUME NEW k \in 0 .. (m + n), k + 1 <= m + n PROVE Goes(l[k], u[k + 1], l[k + 1])
  <2>1. CASE k + 1 <= m
    <3> DEFINE j == k + 1
    <3>1. k \in 0 .. m /\ j \in 0 .. m /\ j \in 1 .. m /\ j = k + 1
      BY <1>3, <2>1
    <3>2. Goes(g[k], s[j], g[j])
      BY <1>5, <2>1, <3>1
    <3>3. u[j] = s[j] /\ l[j] = g[j] /\ l[k] = g[k]
      BY <1>4, <1>7, <3>1
    <3>4. QED
      BY <3>2, <3>3
  <2>2. CASE ~(k + 1 <= m)
    <3> DEFINE j == k - m
               i == j + 1
    <3>1. j \in 0 .. n /\ i \in 0 .. n /\ i \in 1 .. n /\ k = m + j /\ k + 1 = m + i /\ j + 1 <= n
      BY <1>3, <1>10, <2>2
    <3>2. Goes(h[j], t[i], h[i])
      BY <1>6, <3>1
    <3>3. u[m + i] = t[i] /\ l[m + i] = h[i] /\ l[m + j] = h[j]
      BY <1>4, <1>7, <3>1
    <3>4. QED
      BY <3>1, <3>2, <3>3
  <2>3. QED
    BY <2>1, <2>2
<1>11. l[0] = x /\ l[m + n] = z
  <2>1. 0 \in 0 .. m /\ n \in 0 .. n
    BY <1>3
  <2>2. QED
    BY <1>5, <1>6, <1>7, <2>1
<1>12. Way(r, x, u, z, l)
  BY <1>4, <1>9, <1>10, <1>11 DEF Way
<1>13. Path(r, x, u, z)
  BY <1>4, <1>12 DEF Path
<1>14. QED
  BY <1>13 DEF u

\* Item number i of the response is the one that is streamed, with it as its record.
Place(r, x, i, it) ==
    /\ Sound(r, x) /\ i \in Indexes /\ x.items[i] = it
    /\ \A j \in Indexes : j > i => x.items[j] = NoItem
    /\ it # NoItem => <<it.fam, i, it.id>> \in x.known
    /\ \A p \in 1 .. Len(it.parts) :
          HasText(it.parts[p].kind) => <<it.fam, i, p>> \in x.knownParts

Leads(r, i, it, s, jt) ==
    IsSeq(s) /\ \A x : Place(r, x, i, it) => \E y : Path(r, x, s, y) /\ Place(r, y, i, jt)

LEMMA LeadsNone == ASSUME NEW r, NEW i, NEW it PROVE Leads(r, i, it, <<>>, it)
<1>1. ASSUME NEW x, Place(r, x, i, it) PROVE Path(r, x, <<>>, x)
  BY <1>1, PathNone DEF Place
<1>2. QED
  BY <1>1, NoneOf DEF Leads

LEMMA LeadsMore ==
    ASSUME NEW r, NEW i, NEW it, NEW s, NEW jt, Leads(r, i, it, s, jt),
           NEW t, NEW kt, Leads(r, i, jt, t, kt)
    PROVE  Leads(r, i, it, s \o t, kt)
<1>1. IsSeq(s \o t)
  BY Concat DEF Leads
<1>2. ASSUME NEW x, Place(r, x, i, it)
      PROVE  \E z : Path(r, x, s \o t, z) /\ Place(r, z, i, kt)
  <2>1. PICK y : Path(r, x, s, y) /\ Place(r, y, i, jt)
    BY <1>2 DEF Leads
  <2>2. PICK z : Path(r, y, t, z) /\ Place(r, z, i, kt)
    BY <2>1 DEF Leads
  <2>3. QED
    BY <2>1, <2>2, PathMore
<1>3. QED
  BY <1>1, <1>2 DEF Leads

\* An event the item takes, and that leaves a record which fits.
Moves(r, i, it, e, jt) ==
    /\ e.index = i /\ e.fam \in {"message", "reasoning"}
    /\ Accepts(it, e) /\ jt = Recorded(it, e)
    /\ i <= Len(r.output) /\ Fits(jt, r.output[i]) /\ jt.fam = e.fam /\ jt.id = e.id
    /\ e.type = "delta" => e.text # <<>> /\ e.part \in 1 .. Len(it.parts) /\ HasText(it.parts[e.part].kind)
    /\ \A p \in 1 .. Len(jt.parts) :
          \/ p \in 1 .. Len(it.parts) /\ jt.parts[p].kind = it.parts[p].kind
             /\ ~(e.type = "part.added" /\ e.part = p)
          \/ e.type = "part.added" /\ e.part = p /\ e.kind = jt.parts[p].kind

LEMMA NoItemIs == NoItem.fam = "none" /\ NoItem.parts = <<>> /\ 1 .. Len(NoItem.parts) = {}
<1>1. NoItem.fam = "none" /\ NoItem.parts = <<>>
  BY DEF NoItem
<1>2. QED
  BY <1>1, NoneOf

LEMMA Noted ==
    ASSUME NEW x, DOMAIN x = Fields, NEW e
    PROVE  /\ e.type = "item.added" => <<e.fam, e.index, e.id>> \in Note(x, e).known
           /\ e.type # "item.added" => Note(x, e).known = x.known
           /\ e.type = "part.added" /\ HasText(e.kind) =>
                 <<e.fam, e.index, e.part>> \in Note(x, e).knownParts
           /\ \A k \in x.knownParts :
                 e.type # "part.added" \/ k # <<e.fam, e.index, e.part>> => k \in Note(x, e).knownParts
<1>1. CASE e.type = "item.added"
  BY <1>1 DEF Note, Fields
<1>2. CASE e.type = "part.added"
  <2>1. Note(x, e) = [x EXCEPT !.knownParts =
                         IF HasText(e.kind) THEN @ \cup {<<e.fam, e.index, e.part>>}
                         ELSE @ \ {<<e.fam, e.index, e.part>>}]
    BY <1>2 DEF Note
  <2>2. Note(x, e).known = x.known
    BY <2>1 DEF Fields
  <2>3. Note(x, e).knownParts = IF HasText(e.kind) THEN x.knownParts \cup {<<e.fam, e.index, e.part>>}
                                ELSE x.knownParts \ {<<e.fam, e.index, e.part>>}
    BY <2>1 DEF Fields
  <2>4. QED
    BY <1>2, <2>2, <2>3
<1>3. CASE e.type \notin {"item.added", "part.added"}
  BY <1>3 DEF Note
<1>4. QED
  BY <1>1, <1>2, <1>3

LEMMA Advance ==
    ASSUME NEW r, NEW i, NEW it, NEW e, NEW jt, Moves(r, i, it, e, jt)
    PROVE  Leads(r, i, it, <<e>>, jt)
<1>1. /\ e.index = i /\ e.fam \in {"message", "reasoning"}
      /\ Accepts(it, e) /\ jt = Recorded(it, e)
      /\ i <= Len(r.output) /\ Fits(jt, r.output[i]) /\ jt.fam = e.fam /\ jt.id = e.id
      /\ e.type = "delta" => e.text # <<>> /\ e.part \in 1 .. Len(it.parts) /\ HasText(it.parts[e.part].kind)
  BY DEF Moves
<1>2. e.type # "item.added" => it.fam = e.fam /\ it.id = e.id /\ it # NoItem
  <2> SUFFICES ASSUME e.type # "item.added" PROVE it.fam = e.fam /\ it.id = e.id
    BY <1>1, NoItemIs
  <2>1. QED
    BY <1>1 DEF Accepts
<1>3. ASSUME NEW x, Place(r, x, i, it)
      PROVE  \E y : Path(r, x, <<e>>, y) /\ Place(r, y, i, jt)
  <2> DEFINE n == Note(x, e)
             y == Record(n, e)
  <2>1. /\ Sound(r, x) /\ i \in Indexes /\ x.items[i] = it /\ DOMAIN x = Fields /\ DOMAIN x.items = Indexes
        /\ \A j \in Indexes : j > i => x.items[j] = NoItem
        /\ it # NoItem => <<it.fam, i, it.id>> \in x.known
        /\ \A p \in 1 .. Len(it.parts) : HasText(it.parts[p].kind) => <<it.fam, i, p>> \in x.knownParts
    BY <1>3 DEF Place, Sound
  <2>2. DOMAIN n = Fields /\ n.items = x.items
    BY <2>1, NoteIs
  <2>3. /\ e.type = "item.added" => <<e.fam, i, e.id>> \in n.known
        /\ e.type # "item.added" => n.known = x.known
        /\ e.type = "part.added" /\ HasText(e.kind) => <<e.fam, i, e.part>> \in n.knownParts
        /\ \A k \in x.knownParts :
              e.type # "part.added" \/ k # <<e.fam, i, e.part>> => k \in n.knownParts
    BY <1>1, <2>1, Noted
  <2>4. /\ DOMAIN y = Fields /\ y.items = [x.items EXCEPT ![i] = jt]
        /\ y.known = n.known /\ y.knownParts = n.knownParts
    <3> HIDE DEF n
    <3>1. y.known = n.known /\ y.knownParts = n.knownParts
      BY <2>2 DEF Record, Fields
    <3>2. QED
      BY <1>1, <2>1, <2>2, <3>1, RecordIs
  <2>5. Goes(x, e, y)
    BY <1>1, <1>2, <2>1 DEF Goes, Prepared
  <2> HIDE DEF n, y
  <2>6. /\ DOMAIN y.items = Indexes /\ y.items[i] = jt
        /\ \A j \in Indexes : j # i => y.items[j] = x.items[j]
    BY <2>1, <2>4
  <2>7. Sound(r, y)
    BY <1>1, <2>1, <2>4, <2>6 DEF Sound
  <2>8. \A j \in Indexes : j > i => y.items[j] = NoItem
    <3>1. \A j \in Indexes : j > i => j # i
      BY <2>1, IndexIs
    <3>2. QED
      BY <2>1, <2>6, <3>1
  <2>9. <<jt.fam, i, jt.id>> \in y.known
    BY <1>1, <1>2, <2>1, <2>3, <2>4
  <2>10. ASSUME NEW p \in 1 .. Len(jt.parts), HasText(jt.parts[p].kind)
         PROVE  <<jt.fam, i, p>> \in y.knownParts
    <3>1. CASE p \in 1 .. Len(it.parts) /\ jt.parts[p].kind = it.parts[p].kind
               /\ ~(e.type = "part.added" /\ e.part = p)
      <4>1. it # NoItem
        BY <3>1, NoItemIs
      <4>2. e.type # "item.added"
        BY <1>1, <4>1 DEF Accepts
      <4>3. <<e.fam, i, p>> \in x.knownParts
        BY <1>2, <2>1, <2>10, <3>1, <4>2
      <4>4. e.type # "part.added" \/ <<e.fam, i, p>> # <<e.fam, i, e.part>>
        BY <3>1
      <4>5. QED
        BY <1>1, <2>3, <2>4, <4>3, <4>4
    <3>2. CASE e.type = "part.added" /\ e.part = p /\ e.kind = jt.parts[p].kind
      BY <1>1, <2>3, <2>4, <2>10, <3>2
    <3>3. QED
      BY <3>1, <3>2 DEF Moves
  <2>11. Place(r, y, i, jt)
    BY <2>1, <2>6, <2>7, <2>8, <2>9, <2>10 DEF Place
  <2>12. Path(r, x, <<e>>, y)
    BY <2>1, <2>5, <2>7, PathOne
  <2>13. QED
    BY <2>11, <2>12
<1>4. QED
  BY <1>3, OneOf DEF Leads

\* What the upstream has told of the item: its first n parts, the last as q.
Reached(item, n, q) ==
    [fam |-> item.fam, id |-> item.id,
     parts |-> [p \in 1 .. n |-> IF p = n THEN q ELSE Whole(item.parts[p])],
     done |-> FALSE, snapshot |-> <<>>]
Begun(item, n) == Reached(item, n, Whole(item.parts[n]))
Half(part, text) == [kind |-> part.kind, text |-> text, textDone |-> FALSE, done |-> FALSE]
Spelt(part) ==
    [kind |-> part.kind, text |-> part.text, textDone |-> HasText(part.kind), done |-> FALSE]

Named(r, i, item) ==
    /\ r \in Responses /\ i \in 1 .. Len(r.output) /\ item = r.output[i]
    /\ item.fam \in {"message", "reasoning"} /\ item.id # ""

LEMMA NamedIs ==
    ASSUME NEW r, NEW i, NEW item, Named(r, i, item)
    PROVE  /\ i \in Indexes /\ i <= Len(r.output) /\ PartsOK(item) /\ Len(item.parts) \in Nat
           /\ item.fam \in {"message", "reasoning"} /\ item.id # ""
           /\ \A p \in 1 .. Len(item.parts) :
                 /\ p \in Nat /\ p # 0 /\ p \in 0 .. Len(item.parts) /\ p \in 1 .. p
                 /\ item.fam = "reasoning" <=> item.parts[p].kind = "summary_text"
<1>1. /\ r \in Responses /\ i \in 1 .. Len(r.output) /\ item = r.output[i] /\ Len(r.output) \in Nat
      /\ item.fam \in {"message", "reasoning"} /\ item.id # ""
  BY ResponseItems DEF Named
<1>2. /\ i \in Indexes /\ PartsOK(item)
      /\ \A p \in 1 .. Len(item.parts) :
            item.fam = "reasoning" <=> item.parts[p].kind = "summary_text"
  BY <1>1, ResponseItems
<1>3. Len(item.parts) \in Nat
  BY <1>2, Elements DEF PartsOK
<1>4. i <= Len(r.output)
  <2> DEFINE n == Len(r.output)
  <2>1. i \in 1 .. n /\ n \in Nat
    BY <1>1
  <2> HIDE DEF n
  <2>2. i <= n
    BY <2>1
  <2>3. QED
    BY <2>2 DEF n
<1>5. ASSUME NEW p \in 1 .. Len(item.parts)
      PROVE  p \in Nat /\ p # 0 /\ p \in 0 .. Len(item.parts) /\ p \in 1 .. p
  BY <1>3
<1>6. QED
  BY <1>1, <1>2, <1>3, <1>4, <1>5

LEMMA EndsAre ==
    ASSUME NEW i, NEW item, NEW content
    PROVE  /\ Opening(i, item).type = "item.added" /\ Opening(i, item).fam = item.fam
           /\ Opening(i, item).index = i /\ Opening(i, item).id = item.id
           /\ Closing(i, item, content).type = "item.done" /\ Closing(i, item, content).fam = item.fam
           /\ Closing(i, item, content).index = i /\ Closing(i, item, content).id = item.id
           /\ Closing(i, item, content).content = content
  BY DEF Opening, Closing, Event

IsReached(it, item, n, q) ==
    /\ it = [fam |-> it.fam, id |-> it.id, parts |-> it.parts, done |-> it.done,
             snapshot |-> it.snapshot]
    /\ it.fam = item.fam /\ it.id = item.id /\ it.done = FALSE /\ it.snapshot = <<>>
    /\ IsSeq(it.parts) /\ Len(it.parts) = n
    /\ \A p \in 1 .. n : it.parts[p] = IF p = n THEN q ELSE Whole(item.parts[p])

LEMMA ReachedIs ==
    ASSUME NEW item, NEW n \in Nat, NEW q
    PROVE  IsReached(Reached(item, n, q), item, n, q)
<1> DEFINE f == [p \in 1 .. n |-> IF p = n THEN q ELSE Whole(item.parts[p])]
           it == Reached(item, n, q)
<1>1. /\ it = [fam |-> it.fam, id |-> it.id, parts |-> it.parts, done |-> it.done,
               snapshot |-> it.snapshot]
      /\ it.fam = item.fam /\ it.id = item.id /\ it.done = FALSE /\ it.snapshot = <<>> /\ it.parts = f
  BY DEF Reached
<1>2. f = [p \in 1 .. n |-> f[p]] /\ \A p \in 1 .. n : f[p] = IF p = n THEN q ELSE Whole(item.parts[p])
  OBVIOUS
<1> HIDE DEF f, it
<1>3. IsSeq(f) /\ Len(f) = n
  BY <1>2, Listed
<1>4. IsReached(it, item, n, q)
  BY <1>1, <1>2, <1>3 DEF IsReached
<1>5. QED
  BY <1>4 DEF it

LEMMA WholeAgrees ==
    ASSUME NEW part, IsSeq(part.text)
    PROVE  PartAgrees(Whole(part), part) /\ Whole(part).done = TRUE /\ Whole(part).kind = part.kind
<1> DEFINE t == part.text
<1>1. IsPrefix(t, t)
  <2>1. Len(t) \in Nat
    BY Elements
  <2>2. QED
    BY <2>1 DEF IsPrefix
<1>2. /\ Whole(part).kind = part.kind /\ Whole(part).text = t /\ Whole(part).done = TRUE
  BY DEF Whole
<1> HIDE DEF t
<1>3. part.text = t
  BY DEF t
<1>4. QED
  BY <1>1, <1>2, <1>3 DEF PartAgrees

LEMMA ReachedFits ==
    ASSUME NEW item, PartsOK(item), NEW n \in 0 .. Len(item.parts), NEW q,
           n # 0 => PartAgrees(q, item.parts[n])
    PROVE  Fits(Reached(item, n, q), item)
<1> DEFINE it == Reached(item, n, q)
           m == Len(item.parts)
<1>0. m \in Nat /\ n \in Nat
  <2>1. m \in Nat
    BY Elements DEF PartsOK
  <2>2. QED
    BY <2>1
<1>1. /\ it.fam = item.fam /\ it.id = item.id /\ it.done = FALSE /\ Len(it.parts) = n
      /\ \A p \in 1 .. n : it.parts[p] = IF p = n THEN q ELSE Whole(item.parts[p])
  <2>1. IsReached(it, item, n, q)
    BY <1>0, ReachedIs
  <2>2. QED
    BY <2>1 DEF IsReached
<1> HIDE DEF it, m
<1>2. n \in 0 .. m /\ n <= m /\ Len(it.parts) <= m /\ Len(item.parts) = m
  BY <1>0, <1>1 DEF m
<1>3. ASSUME NEW p \in 1 .. n PROVE PartAgrees(it.parts[p], item.parts[p])
  <2>1. p \in 1 .. m
    BY <1>0, <1>2
  <2>2. IsSeq(item.parts[p].text)
    BY <1>2, <2>1 DEF PartsOK
  <2>3. CASE p = n
    BY <1>1, <1>3, <2>3
  <2>4. CASE p # n
    BY <1>1, <2>2, <2>4, WholeAgrees
  <2>5. QED
    BY <2>3, <2>4
<1>4. ItemAgrees(it, item.parts)
  BY <1>1, <1>2, <1>3 DEF ItemAgrees
<1>5. Fits(it, item)
  BY <1>1, <1>4 DEF Fits
<1>6. QED
  BY <1>5 DEF it

\* A part more, and the last part otherwise.
WithPart(it, q) == [it EXCEPT !.parts = Append(@, q)]
PartAs(it, n, w) == [it EXCEPT !.parts[n] = w]

LEMMA ReachedMore ==
    ASSUME NEW item, NEW n \in Nat, NEW q
    PROVE  WithPart(Begun(item, n), q) = Reached(item, n + 1, q)
<1> DEFINE it == Begun(item, n)
           m == n + 1
           w == Whole(item.parts[n])
           jt == Reached(item, m, q)
           kt == [it EXCEPT !.parts = Append(@, q)]
           s == it.parts
           t == kt.parts
           u == jt.parts
<1>1. /\ m \in Nat /\ m = n + 1 /\ \A p \in 1 .. n : p \in 1 .. m /\ p # m
      /\ \A p \in 1 .. m : p = m \/ p \in 1 .. n
  OBVIOUS
<1> HIDE DEF m
<1>2. IsReached(it, item, n, w) /\ IsReached(jt, item, m, q)
  BY <1>1, ReachedIs DEF Begun
<1> HIDE DEF it, jt
<1>3. IsSeq(s) /\ Len(s) = n /\ \A p \in 1 .. n : s[p] = Whole(item.parts[p])
  BY <1>2 DEF IsReached
<1>4. /\ kt = [fam |-> it.fam, id |-> it.id, parts |-> t, done |-> it.done, snapshot |-> it.snapshot]
      /\ t = Append(s, q)
  <2>1. it = [fam |-> it.fam, id |-> it.id, parts |-> it.parts, done |-> it.done,
              snapshot |-> it.snapshot]
    BY <1>2 DEF IsReached
  <2> DEFINE a == it.fam
             b == it.id
             c == it.done
             z == it.snapshot
             new == Append(s, q)
  <2> HIDE DEF a, b, c, z, s, new
  <2>2. it = [fam |-> a, id |-> b, parts |-> s, done |-> c, snapshot |-> z]
    BY <2>1 DEF a, b, c, z, s
  <2>3. [it EXCEPT !.parts = new] = [fam |-> a, id |-> b, parts |-> new, done |-> c, snapshot |-> z]
    BY <2>2
  <2>4. kt = [it EXCEPT !.parts = new]
    BY DEF new, s
  <2> HIDE DEF kt
  <2>5. t = new
    BY <2>3, <2>4
  <2>6. QED
    BY <2>3, <2>4, <2>5 DEF a, b, c, z, new
<1> HIDE DEF kt
<1>5. /\ IsSeq(s \o <<q>>) /\ Append(s, q) = s \o <<q>> /\ Len(s \o <<q>>) = Len(s) + 1
      /\ (s \o <<q>>)[Len(s) + 1] = q /\ \A p \in 1 .. Len(s) : (s \o <<q>>)[p] = s[p]
  <2> HIDE DEF s
  <2>1. QED
    BY <1>3, OneMore
<1>6. /\ IsSeq(t) /\ Len(t) = m /\ t[m] = q /\ \A p \in 1 .. n : t[p] = s[p]
  <2> HIDE DEF s, t
  <2>1. QED
    BY <1>1, <1>3, <1>4, <1>5
<1>7. /\ IsSeq(u) /\ Len(u) = m /\ \A p \in 1 .. m : u[p] = IF p = m THEN q ELSE Whole(item.parts[p])
  BY <1>2 DEF IsReached
<1>8. \A p \in 1 .. m : t[p] = u[p]
  <2> HIDE DEF s, t, u
  <2>1. QED
    BY <1>1, <1>3, <1>6, <1>7
<1> HIDE DEF t, u, s
<1>9. t = u
  BY <1>6, <1>7, <1>8, Equal
<1>10. kt = jt
  <2>1. /\ it.fam = item.fam /\ it.id = item.id /\ it.done = FALSE /\ it.snapshot = <<>>
        /\ jt.fam = item.fam /\ jt.id = item.id /\ jt.done = FALSE /\ jt.snapshot = <<>>
        /\ jt = [fam |-> jt.fam, id |-> jt.id, parts |-> u, done |-> jt.done, snapshot |-> jt.snapshot]
    BY <1>2 DEF IsReached, u
  <2>2. QED
    BY <1>4, <1>9, <2>1
<1>11. QED
  BY <1>10 DEF kt, jt, it, m, WithPart

LEMMA ReachedElse ==
    ASSUME NEW item, NEW n \in Nat, n # 0, NEW q, NEW w
    PROVE  PartAs(Reached(item, n, q), n, w) = Reached(item, n, w)
<1> DEFINE f == [p \in 1 .. n |-> IF p = n THEN q ELSE Whole(item.parts[p])]
           h == [p \in 1 .. n |-> IF p = n THEN w ELSE Whole(item.parts[p])]
           it == Reached(item, n, q)
           no == FALSE
           none == <<>>
<1>1. [f EXCEPT ![n] = w] = h
  OBVIOUS
<1>2. /\ it = [fam |-> item.fam, id |-> item.id, parts |-> f, done |-> no, snapshot |-> none]
      /\ Reached(item, n, w) = [fam |-> item.fam, id |-> item.id, parts |-> h, done |-> no, snapshot |-> none]
  BY DEF Reached
<1> HIDE DEF f, h, it, no, none
<1>3. [it EXCEPT !.parts[n] = w]
      = [fam |-> item.fam, id |-> item.id, parts |-> [f EXCEPT ![n] = w], done |-> no, snapshot |-> none]
  BY <1>2
<1>4. QED
  BY <1>1, <1>2, <1>3 DEF it, PartAs

LEMMA MoveOpening ==
    ASSUME NEW r, NEW i, NEW item, Named(r, i, item)
    PROVE  Moves(r, i, NoItem, Opening(i, item), Begun(item, 0))
<1> DEFINE e == Opening(i, item)
           jt == Begun(item, 0)
<1>1. /\ e.type = "item.added" /\ e.fam = item.fam /\ e.index = i /\ e.id = item.id
  BY EndsAre
<1>2. /\ item.fam \in {"message", "reasoning"} /\ item.id # ""
      /\ i <= Len(r.output) /\ PartsOK(item) /\ Len(item.parts) \in Nat
  BY NamedIs
<1>0. 0 \in 0 .. Len(item.parts)
  <2> DEFINE n == Len(item.parts)
  <2>1. n \in Nat
    BY <1>2
  <2> HIDE DEF n
  <2>2. 0 \in 0 .. n
    BY <2>1
  <2>3. QED
    BY <2>2 DEF n
<1>3. Fits(jt, item)
  BY <1>0, <1>2, ReachedFits DEF Begun
<1>4. IsReached(jt, item, 0, Whole(item.parts[0]))
  BY ReachedIs DEF Begun
<1>5. jt.parts = <<>> /\ jt.fam = item.fam /\ jt.id = item.id /\ 1 .. Len(jt.parts) = {}
      /\ jt = [fam |-> item.fam, id |-> item.id, parts |-> <<>>, done |-> FALSE, snapshot |-> <<>>]
  <2>1. jt.parts = <<>>
    BY <1>4, Elements DEF IsReached
  <2>2. QED
    BY <1>4, <2>1, NoneOf DEF IsReached
<1> HIDE DEF e, jt
<1>6. Recorded(NoItem, e) = jt
  <2>1. Recorded(NoItem, e) = [NoItem EXCEPT !.fam = e.fam, !.id = e.id]
    BY <1>1 DEF Recorded
  <2>2. QED
    BY <1>1, <1>5, <2>1 DEF NoItem
<1>7. Accepts(NoItem, e)
  BY <1>1, <1>2 DEF Accepts
<1>8. Moves(r, i, NoItem, e, jt)
  BY <1>1, <1>2, <1>3, <1>5, <1>6, <1>7 DEF Moves, Named
<1>9. QED
  BY <1>8 DEF e, jt

LEMMA MovePart ==
    ASSUME NEW r, NEW i, NEW item, Named(r, i, item), NEW m \in Nat, NEW n, n = m + 1,
           n \in 1 .. Len(item.parts)
    PROVE  LET part == item.parts[n] IN
           Moves(r, i, Begun(item, m), PartEvent("part.added", i, item, n, part, <<>>),
                 Reached(item, n, Half(part, <<>>)))
<1> DEFINE part == item.parts[n]
           e == PartEvent("part.added", i, item, n, part, <<>>)
           it == Begun(item, m)
           q == Half(part, <<>>)
           jt == Reached(item, n, q)
<1>1. /\ e.type = "part.added" /\ e.fam = item.fam /\ e.index = i /\ e.id = item.id
      /\ e.part = n /\ e.kind = part.kind
  BY PartEventIs
<1>2. /\ item.fam \in {"message", "reasoning"}
      /\ i <= Len(r.output) /\ PartsOK(item) /\ n \in Nat /\ n # 0 /\ n \in 0 .. Len(item.parts)
      /\ item.fam = "reasoning" => part.kind = "summary_text"
  BY NamedIs
<1>q. q = [kind |-> part.kind, text |-> <<>>, textDone |-> FALSE, done |-> FALSE] /\ q.kind = part.kind
  BY DEF Half
<1>3. PartAgrees(q, part)
  <2>1. IsPrefix(<<>>, part.text)
    <3> DEFINE t == part.text
               z == SubSeq(t, 1, 0)
    <3>1. IsSeq(t)
      BY <1>2 DEF PartsOK
    <3>2. Len(t) \in Nat /\ \E T : t \in Seq(T)
      BY <3>1, Elements DEF IsSeq
    <3> HIDE DEF t
    <3>3. SubSeq(t, 1, 0) = <<>> /\ SubSeq(<<>>, 1, 0) = <<>> /\ Len(<<>>) = 0
      BY <3>2
    <3>4. QED
      BY <3>2, <3>3 DEF IsPrefix, t
  <2>2. q.kind = part.kind /\ q.text = <<>> /\ q.textDone = FALSE
    BY DEF Half
  <2>3. QED
    BY <2>1, <2>2 DEF PartAgrees
<1>4. Fits(jt, item)
  BY <1>2, <1>3, ReachedFits
<1>5. IsReached(it, item, m, Whole(item.parts[m])) /\ IsReached(jt, item, n, q)
  BY <1>2, ReachedIs DEF Begun
<1>l. n = m + 1
  OBVIOUS
<1>6. WithPart(it, q) = jt
  BY <1>l, ReachedMore
<1> HIDE DEF e, it, jt, q, part
<1>7. /\ it.fam = item.fam /\ it.id = item.id /\ it.done = FALSE
      /\ Len(it.parts) = m /\ \A p \in 1 .. m : it.parts[p] = Whole(item.parts[p])
  BY <1>5 DEF IsReached
<1>8. /\ jt.fam = item.fam /\ jt.id = item.id /\ Len(jt.parts) = n /\ jt.parts[n] = q
      /\ \A p \in 1 .. m : jt.parts[p] = Whole(item.parts[p])
  <2>1. n \in 1 .. n /\ \A p \in 1 .. m : p \in 1 .. n /\ p # n
    BY <1>2
  <2>2. QED
    BY <1>5, <2>1 DEF IsReached
<1>9. Recorded(it, e) = jt
  BY <1>1, <1>6, <1>q DEF Recorded, WithPart
<1>10. Accepts(it, e)
  <2>1. e.part = Len(it.parts) + 1
    BY <1>1, <1>7
  <2>2. e.part > 1 => it.parts[e.part - 1].done
    <3>1. SUFFICES ASSUME n > 1 PROVE it.parts[m].done
      BY <1>1
    <3>2. m \in 1 .. m
      BY <3>1
    <3>3. Whole(item.parts[m]).done = TRUE
      BY DEF Whole
    <3>4. QED
      BY <1>7, <3>2, <3>3
  <2>3. QED
    BY <1>1, <1>2, <1>7, <2>1, <2>2 DEF Accepts
<1>11. \A p \in 1 .. Len(jt.parts) :
          \/ p \in 1 .. Len(it.parts) /\ jt.parts[p].kind = it.parts[p].kind
             /\ ~(e.type = "part.added" /\ e.part = p)
          \/ e.type = "part.added" /\ e.part = p /\ e.kind = jt.parts[p].kind
  <2> SUFFICES ASSUME NEW p \in 1 .. n
               PROVE \/ p \in 1 .. m /\ jt.parts[p].kind = it.parts[p].kind /\ p # n
                     \/ p = n /\ part.kind = jt.parts[p].kind
    BY <1>1, <1>7, <1>8
  <2>1. p = n \/ (p \in 1 .. m /\ p # n)
    OBVIOUS
  <2>2. QED
    BY <1>7, <1>8, <1>q, <2>1
<1>12. Moves(r, i, it, e, jt)
  BY <1>1, <1>2, <1>4, <1>8, <1>9, <1>10, <1>11 DEF Moves, Named
<1>13. QED
  BY <1>12 DEF e, it, jt, q, part

\* The last part changes.
LEMMA MoveWithin ==
    ASSUME NEW r, NEW i, NEW item, Named(r, i, item), NEW n \in 1 .. Len(item.parts),
           NEW q, NEW w, PartAgrees(w, item.parts[n]), w.kind = q.kind,
           NEW e, e.index = i, e.fam = item.fam, e.id = item.id, e.part = n,
           e.type \in {"delta", "text.done", "part.done"}, e.type = "delta" => e.text # <<>>,
           LET it == Reached(item, n, q) IN
              Recorded(it, e) = PartAs(it, n, w),
           ~q.done, e.type # "part.done" => HasText(q.kind) /\ ~q.textDone,
           e.type = "text.done" => e.text = q.text,
           e.type = "part.done" => e.kind = q.kind /\ (HasText(q.kind) => q.textDone /\ e.text = q.text)
    PROVE  Moves(r, i, Reached(item, n, q), e, Reached(item, n, w))
<1> DEFINE it == Reached(item, n, q)
           jt == Reached(item, n, w)
<1>1. /\ item.fam \in {"message", "reasoning"}
      /\ i <= Len(r.output) /\ PartsOK(item) /\ n \in Nat /\ n # 0 /\ n \in 0 .. Len(item.parts)
      /\ n \in 1 .. n
  BY NamedIs
<1>2. Fits(jt, item)
  BY <1>1, ReachedFits
<1>3. IsReached(it, item, n, q) /\ IsReached(jt, item, n, w)
  BY <1>1, ReachedIs
<1>4. Recorded(it, e) = jt
  <2>1. PartAs(it, n, w) = jt
    BY <1>1, ReachedElse
  <2>2. QED
    BY <2>1
<1> HIDE DEF it, jt
<1>5. /\ it.fam = item.fam /\ it.id = item.id /\ it.done = FALSE
      /\ Len(it.parts) = n /\ it.parts[n] = q
  BY <1>1, <1>3 DEF IsReached
<1>6. /\ jt.fam = item.fam /\ jt.id = item.id /\ Len(jt.parts) = n
      /\ \A p \in 1 .. n : jt.parts[p].kind = it.parts[p].kind
  BY <1>1, <1>3 DEF IsReached
<1>7. Accepts(it, e)
  BY <1>1, <1>5 DEF Accepts
<1>8. Moves(r, i, it, e, jt)
  BY <1>1, <1>2, <1>4, <1>5, <1>6, <1>7 DEF Moves, Named
<1>9. QED
  BY <1>8 DEF it, jt

LEMMA MoveClosing ==
    ASSUME NEW r, NEW i, NEW item, Named(r, i, item)
    PROVE  LET it == Begun(item, Len(item.parts)) IN
           Moves(r, i, it, Closing(i, item, item.parts),
                 [it EXCEPT !.done = TRUE, !.snapshot = item.parts])
<1> DEFINE n == Len(item.parts)
           it == Begun(item, n)
           e == Closing(i, item, item.parts)
           jt == [it EXCEPT !.done = TRUE, !.snapshot = item.parts]
           q == Whole(item.parts[n])
<1>1. /\ e.type = "item.done" /\ e.fam = item.fam /\ e.index = i /\ e.id = item.id /\ e.content = item.parts
  BY EndsAre
<1>0. /\ item.fam \in {"message", "reasoning"}
      /\ i <= Len(r.output) /\ PartsOK(item) /\ n \in Nat
  BY NamedIs
<1>2. n \in 0 .. n /\ (n # 0 => n \in 1 .. n)
  BY <1>0
<1>3. Fits(it, item)
  <2>1. n # 0 => PartAgrees(q, item.parts[n])
    BY <1>0, <1>2, WholeAgrees DEF PartsOK
  <2>2. QED
    BY <1>0, <1>2, <2>1, ReachedFits DEF Begun
<1>4. IsReached(it, item, n, q)
  BY <1>0, <1>2, ReachedIs DEF Begun
<1>5. Recorded(it, e) = jt
  BY <1>1 DEF Recorded
<1> HIDE DEF it, e, q, n
<1>6. /\ it.fam = item.fam /\ it.id = item.id /\ it.done = FALSE /\ Len(it.parts) = n
      /\ \A p \in 1 .. n : it.parts[p] = Whole(item.parts[p])
  BY <1>4 DEF IsReached, q
<1>7. /\ jt.fam = item.fam /\ jt.id = item.id /\ jt.done = TRUE /\ jt.snapshot = item.parts
      /\ jt.parts = it.parts
  <2>1. DOMAIN it = {"fam", "id", "parts", "done", "snapshot"}
    BY <1>4 DEF IsReached
  <2>2. QED
    BY <1>6, <2>1
<1> HIDE DEF jt
<1>8. /\ Len(item.parts) = n
      /\ \A p \in 1 .. n : /\ it.parts[p].done /\ it.parts[p].text = item.parts[p].text
                           /\ it.parts[p].kind = item.parts[p].kind
  <2>1. \A p \in 1 .. n : LET w == Whole(item.parts[p]) IN
           w.done = TRUE /\ w.text = item.parts[p].text /\ w.kind = item.parts[p].kind
    BY DEF Whole
  <2>2. Len(item.parts) = n
    BY DEF n
  <2>3. QED
    BY <1>6, <2>1, <2>2
<1>9. ItemAgrees(it, item.parts)
  BY <1>3 DEF Fits
<1>10. Accepts(it, e)
  <2>1. MessageComplete(it, item.parts)
    BY <1>6, <1>8 DEF MessageComplete
  <2>2. QED
    BY <1>0, <1>1, <1>2, <1>6, <1>8, <1>9, <2>1 DEF Accepts
<1>11. Fits(jt, item)
  <2>1. ItemAgrees(jt, item.parts)
    BY <1>6, <1>7, <1>8, <1>9 DEF ItemAgrees
  <2>2. QED
    BY <1>7, <2>1 DEF Fits
<1>12. Moves(r, i, it, e, jt)
  BY <1>0, <1>1, <1>2, <1>5, <1>7, <1>10, <1>11 DEF Moves, Named
<1>13. QED
  BY <1>12 DEF it, e, jt, n

Longer(q, u) == [q EXCEPT !.text = @ \o u]
TextTold(q) == [q EXCEPT !.textDone = TRUE]
Shut(q) == [q EXCEPT !.done = TRUE]

LEMMA Recording ==
    ASSUME NEW it, NEW item, NEW n \in Nat, n # 0, NEW q, IsReached(it, item, n, q),
           NEW e, e.part = n
    PROVE  /\ e.type = "delta" => Recorded(it, e) = PartAs(it, n, Longer(q, e.text))
           /\ e.type = "text.done" => Recorded(it, e) = PartAs(it, n, TextTold(q))
           /\ e.type = "part.done" => Recorded(it, e) = PartAs(it, n, Shut(q))
<1>1. it.parts[n] = q
  <2>1. n \in 1 .. n
    OBVIOUS
  <2>2. QED
    BY <2>1 DEF IsReached
<1>2. e.type = "delta" => Recorded(it, e) = PartAs(it, n, Longer(q, e.text))
  BY <1>1 DEF Recorded, PartAs, Longer, TextTold, Shut
<1>3. e.type = "text.done" => Recorded(it, e) = PartAs(it, n, TextTold(q))
  BY <1>1 DEF Recorded, PartAs, Longer, TextTold, Shut
<1>4. e.type = "part.done" => Recorded(it, e) = PartAs(it, n, Shut(q))
  BY <1>1 DEF Recorded, PartAs, Longer, TextTold, Shut
<1>5. QED
  BY <1>2, <1>3, <1>4

LEMMA Starting ==
    ASSUME NEW t, IsSeq(t), NEW j \in 0 .. Len(t)
    PROVE  /\ IsSeq(SubSeq(t, 1, j)) /\ IsPrefix(SubSeq(t, 1, j), t)
           /\ j = 0 => SubSeq(t, 1, j) = <<>>
           /\ j = Len(t) => SubSeq(t, 1, j) = t
           /\ \A m : m = j + 1 /\ m <= Len(t) => SubSeq(t, 1, j) \o <<t[m]>> = SubSeq(t, 1, m)
<1> DEFINE n == Len(t)
           s == SubSeq(t, 1, j)
<1>1. n \in Nat /\ j \in 0 .. n
  BY Elements
<1>2. PICK T : t \in Seq(T)
  BY DEF IsSeq
<1>3. s \in Seq(T) /\ Len(s) = j /\ \A k \in 1 .. j : s[k] = t[k]
  BY <1>1, <1>2, SubSeqProperties
<1>4. j = 0 => s = <<>>
  BY <1>3, Elements DEF IsSeq
<1>5. j = n => s = t
  BY <1>2, SubSeqFull
<1>6. IsPrefix(s, t)
  <2>1. SubSeq(s, 1, j) = s
    BY <1>3, SubSeqFull
  <2>2. QED
    BY <1>1, <1>3, <2>1 DEF IsPrefix
<1>7. ASSUME NEW m, m = j + 1, m <= n PROVE s \o <<t[m]>> = SubSeq(t, 1, m)
  <2> DEFINE u == SubSeq(t, 1, m)
             a == s \o <<t[m]>>
  <2>1. m \in 1 .. n /\ m = j + 1
    BY <1>1, <1>7
  <2>2. u \in Seq(T) /\ Len(u) = m /\ \A k \in 1 .. m : u[k] = t[k]
    BY <1>1, <1>2, <2>1, SubSeqProperties
  <2>3. IsSeq(a) /\ Len(a) = j + 1 /\ a[j + 1] = t[m] /\ \A k \in 1 .. j : a[k] = s[k]
    <3> DEFINE e == t[m]
    <3> HIDE DEF s, e
    <3>1. IsSeq(s) /\ Len(s) = j
      BY <1>3 DEF IsSeq
    <3>2. /\ IsSeq(s \o <<e>>) /\ Len(s \o <<e>>) = Len(s) + 1 /\ (s \o <<e>>)[Len(s) + 1] = e
          /\ \A k \in 1 .. Len(s) : (s \o <<e>>)[k] = s[k]
      BY <3>1, OneMore
    <3>3. QED
      BY <3>1, <3>2 DEF e
  <2> HIDE DEF u, a, s
  <2>4. ASSUME NEW k \in 1 .. m PROVE a[k] = u[k]
    <3>1. k = m \/ k \in 1 .. j
      BY <1>1, <2>1
    <3>2. QED
      BY <1>3, <2>1, <2>2, <2>3, <3>1
  <2>5. IsSeq(u)
    BY <2>2 DEF IsSeq
  <2>6. Len(a) = m /\ Len(u) = m
    BY <2>1, <2>2, <2>3
  <2>8. a = u
    BY <2>3, <2>4, <2>5, <2>6, Equal
  <2>7. QED
    BY <2>8 DEF a, u
<1>8. IsSeq(s)
  BY <1>3 DEF IsSeq
<1>9. QED
  BY <1>4, <1>5, <1>6, <1>7, <1>8

\* Where the part's text is spelt as far as j.
At(item, n, j) == Reached(item, n, Half(item.parts[n], SubSeq(item.parts[n].text, 1, j)))
Letter(i, item, n, j) ==
    PartEvent("delta", i, item, n, item.parts[n], <<item.parts[n].text[j]>>)

LEMMA LeadsDelta ==
    ASSUME NEW r, NEW i, NEW item, Named(r, i, item), NEW n \in 1 .. Len(item.parts),
           HasText(item.parts[n].kind),
           NEW j \in 0 .. Len(item.parts[n].text), NEW m, m = j + 1, m <= Len(item.parts[n].text)
    PROVE  Leads(r, i, At(item, n, j), <<Letter(i, item, n, m)>>, At(item, n, m))
<1> DEFINE part == item.parts[n]
           t == part.text
           q == Half(part, SubSeq(t, 1, j))
           w == Half(part, SubSeq(t, 1, m))
           e == Letter(i, item, n, m)
           it == Reached(item, n, q)
           c == <<t[m]>>
<1>1. /\ PartsOK(item) /\ n \in Nat /\ n # 0
  BY NamedIs
<1>2. IsSeq(t)
  BY <1>1 DEF PartsOK
<1>3. m \in 0 .. Len(t) /\ m = j + 1 /\ m <= Len(t) /\ j \in 0 .. Len(t)
  <2> DEFINE k == Len(t)
  <2>1. k \in Nat /\ j \in 0 .. k /\ m <= k
    BY <1>2, Elements
  <2> HIDE DEF k
  <2>2. m \in 0 .. k
    BY <2>1
  <2>3. QED
    BY <2>2 DEF k
<1>4. SubSeq(t, 1, j) \o c = SubSeq(t, 1, m) /\ IsPrefix(SubSeq(t, 1, m), t)
  <2> HIDE DEF t
  <2>1. QED
    BY <1>2, <1>3, Starting
<1>5. /\ e.type = "delta" /\ e.index = i /\ e.fam = item.fam /\ e.id = item.id /\ e.part = n
      /\ e.text = c
  BY PartEventIs DEF Letter
<1>6. c # <<>>
  BY OneOf
<1>7. q.text = SubSeq(t, 1, j) /\ q.kind = part.kind /\ q.done = FALSE /\ q.textDone = FALSE
  BY DEF Half
<1>8. PartAgrees(w, part) /\ w.kind = q.kind
  <2>1. w.kind = part.kind /\ w.text = SubSeq(t, 1, m) /\ w.textDone = FALSE
    BY DEF Half
  <2>2. QED
    BY <1>4, <1>7, <2>1 DEF PartAgrees
<1>9. Longer(q, e.text) = w
  <2> DEFINE a == SubSeq(t, 1, j)
             b == SubSeq(t, 1, m)
             no == FALSE
             k == part.kind
  <2>0. Half(part, a) = [kind |-> k, text |-> a, textDone |-> no, done |-> no]
        /\ Half(part, a \o c) = [kind |-> k, text |-> a \o c, textDone |-> no, done |-> no]
    BY DEF Half
  <2> HIDE DEF a, b, c, e, no, k
  <2>1. Longer(Half(part, a), c) = Half(part, a \o c)
    <3> DEFINE h == Half(part, a)
               new == a \o c
    <3>1. h.text = a
      BY <2>0
    <3>2. Longer(h, c) = [h EXCEPT !.text = new]
      BY <3>1 DEF Longer
    <3>3. h = [kind |-> k, text |-> a, textDone |-> no, done |-> no]
          /\ Half(part, new) = [kind |-> k, text |-> new, textDone |-> no, done |-> no]
      BY <2>0
    <3> HIDE DEF h, new
    <3>4. Longer(h, c) = Half(part, new)
      BY <3>2, <3>3
    <3>5. QED
      BY <3>4 DEF h, new
  <2>2. a \o c = b
    BY <1>4 DEF a, b
  <2>3. QED
    BY <1>5, <2>1, <2>2 DEF a, b
<1>10. IsReached(it, item, n, q)
  BY <1>1, ReachedIs
<1> HIDE DEF part, t, q, w, e, it, c
<1>11. Recorded(it, e) = PartAs(it, n, w)
  BY <1>1, <1>5, <1>9, <1>10, Recording
<1>12. Moves(r, i, Reached(item, n, q), e, Reached(item, n, w))
  <2>1. Recorded(Reached(item, n, q), e) = PartAs(Reached(item, n, q), n, w)
    BY <1>11 DEF it
  <2>2. PartAgrees(w, item.parts[n]) /\ HasText(q.kind)
    BY <1>7, <1>8 DEF part
  <2>3. QED
    BY <1>5, <1>6, <1>7, <1>8, <2>1, <2>2, MoveWithin
<1>13. QED
  BY <1>12, Advance DEF At, q, w, e, part, t

LEMMA LeadsText ==
    ASSUME NEW r, NEW i, NEW item, Named(r, i, item), NEW n \in 1 .. Len(item.parts),
           HasText(item.parts[n].kind)
    PROVE  LET part == item.parts[n] IN
           Leads(r, i, Reached(item, n, Half(part, part.text)),
                 <<PartEvent("text.done", i, item, n, part, part.text)>>, Reached(item, n, Spelt(part)))
<1> DEFINE part == item.parts[n]
           q == Half(part, part.text)
           w == Spelt(part)
           e == PartEvent("text.done", i, item, n, part, part.text)
           it == Reached(item, n, q)
<1>1. /\ PartsOK(item) /\ n \in Nat /\ n # 0
  BY NamedIs
<1>2. IsSeq(part.text)
  BY <1>1 DEF PartsOK
<1>5. /\ e.type = "text.done" /\ e.index = i /\ e.fam = item.fam /\ e.id = item.id /\ e.part = n
      /\ e.text = part.text
  BY PartEventIs
<1>7. q.text = part.text /\ q.kind = part.kind /\ q.done = FALSE /\ q.textDone = FALSE
  BY DEF Half
<1>8. PartAgrees(w, part) /\ w.kind = q.kind
  <2>1. w.kind = part.kind /\ w.text = part.text
    BY DEF Spelt
  <2>2. Whole(part).kind = part.kind /\ Whole(part).text = part.text
    BY DEF Whole
  <2>3. PartAgrees(Whole(part), part)
    BY <1>2, WholeAgrees
  <2>4. QED
    BY <1>7, <2>1, <2>2, <2>3 DEF PartAgrees
<1>9. TextTold(q) = w
  <2> DEFINE k == part.kind
             t == part.text
             no == FALSE
             yes == TRUE
  <2>1. HasText(k) = yes
    BY DEF HasText
  <2>2. /\ q = [kind |-> k, text |-> t, textDone |-> no, done |-> no]
        /\ w = [kind |-> k, text |-> t, textDone |-> yes, done |-> no]
        /\ TextTold(q) = [q EXCEPT !.textDone = yes]
    BY <2>1 DEF Half, Spelt, TextTold
  <2> HIDE DEF k, t, no, yes, q, w
  <2>3. QED
    BY <2>2
<1>10. IsReached(it, item, n, q)
  BY <1>1, ReachedIs
<1> HIDE DEF part, q, w, e, it
<1>11. Recorded(it, e) = PartAs(it, n, w)
  BY <1>1, <1>5, <1>9, <1>10, Recording
<1>12. Moves(r, i, Reached(item, n, q), e, Reached(item, n, w))
  <2>1. Recorded(Reached(item, n, q), e) = PartAs(Reached(item, n, q), n, w)
    BY <1>11 DEF it
  <2>2. PartAgrees(w, item.parts[n]) /\ HasText(q.kind)
    BY <1>7, <1>8 DEF part
  <2>3. QED
    BY <1>5, <1>7, <1>8, <2>1, <2>2, MoveWithin
<1>13. QED
  BY <1>12, Advance DEF q, w, e, part

LEMMA LeadsDone ==
    ASSUME NEW r, NEW i, NEW item, Named(r, i, item), NEW n \in 1 .. Len(item.parts)
    PROVE  LET part == item.parts[n] IN
           Leads(r, i, Reached(item, n, Spelt(part)),
                 <<PartEvent("part.done", i, item, n, part, part.text)>>, Begun(item, n))
<1> DEFINE part == item.parts[n]
           q == Spelt(part)
           w == Whole(part)
           e == PartEvent("part.done", i, item, n, part, part.text)
           it == Reached(item, n, q)
<1>1. /\ PartsOK(item) /\ n \in Nat /\ n # 0
  BY NamedIs
<1>2. IsSeq(part.text)
  BY <1>1 DEF PartsOK
<1>5. /\ e.type = "part.done" /\ e.index = i /\ e.fam = item.fam /\ e.id = item.id /\ e.part = n
      /\ e.text = part.text /\ e.kind = part.kind
  BY PartEventIs
<1>7. q.text = part.text /\ q.kind = part.kind /\ q.done = FALSE /\ (HasText(q.kind) => q.textDone)
  BY DEF Spelt
<1>8. PartAgrees(w, part) /\ w.kind = q.kind
  <2>1. PartAgrees(Whole(part), part) /\ Whole(part).kind = part.kind
    BY <1>2, WholeAgrees
  <2>2. QED
    BY <1>7, <2>1
<1>9. Shut(q) = w
  <2> DEFINE k == part.kind
             t == part.text
             c == HasText(k)
             no == FALSE
             yes == TRUE
  <2>2. /\ q = [kind |-> k, text |-> t, textDone |-> c, done |-> no]
        /\ w = [kind |-> k, text |-> t, textDone |-> c, done |-> yes]
        /\ Shut(q) = [q EXCEPT !.done = yes]
    BY DEF Whole, Spelt, Shut
  <2> HIDE DEF k, t, c, no, yes, q, w
  <2>3. QED
    BY <2>2
<1>10. IsReached(it, item, n, q)
  BY <1>1, ReachedIs
<1> HIDE DEF part, q, w, e, it
<1>11. Recorded(it, e) = PartAs(it, n, w)
  BY <1>1, <1>5, <1>9, <1>10, Recording
<1>12. Moves(r, i, Reached(item, n, q), e, Reached(item, n, w))
  <2>1. Recorded(Reached(item, n, q), e) = PartAs(Reached(item, n, q), n, w)
    BY <1>11 DEF it
  <2>2. PartAgrees(w, item.parts[n])
    BY <1>8 DEF part
  <2>3. QED
    BY <1>5, <1>7, <1>8, <2>1, <2>2, MoveWithin
<1>13. QED
  BY <1>12, Advance DEF q, w, e, part, Begun

\* A text, letter by letter.
LEMMA LeadsLetters ==
    ASSUME NEW r, NEW i, NEW item, Named(r, i, item), NEW n \in 1 .. Len(item.parts),
           HasText(item.parts[n].kind), NEW N, N = Len(item.parts[n].text)
    PROVE  Leads(r, i, At(item, n, 0), [j \in 1 .. N |-> Letter(i, item, n, j)], At(item, n, N))
<1> DEFINE L == [j \in Nat |-> Letter(i, item, n, j)]
           D(j) == [k \in 1 .. j |-> L[k]]
           P == {j \in Nat : j <= N => Leads(r, i, At(item, n, 0), D(j), At(item, n, j))}
<1>1. N \in Nat
  <2>1. PartsOK(item)
    BY NamedIs
  <2>2. IsSeq(item.parts[n].text)
    BY <2>1 DEF PartsOK
  <2>3. QED
    BY <2>2, Elements
<1>2. 0 \in P
  <2>1. D(0) = <<>>
    <3> HIDE DEF L
    <3>1. <<>> = D(0)
      BY ListOfNone
    <3>2. QED
      BY <3>1
  <2>2. Leads(r, i, At(item, n, 0), <<>>, At(item, n, 0))
    BY LeadsNone
  <2>3. Leads(r, i, At(item, n, 0), D(0), At(item, n, 0))
    BY <2>1, <2>2
  <2> HIDE DEF D
  <2>4. QED
    BY <2>3
<1>3. ASSUME NEW j \in 0 .. N, j + 1 <= N, j \in P PROVE j + 1 \in P
  <2> DEFINE m == j + 1
             a == D(j)
             x == L[m]
             b == D(m)
             c == a \o <<x>>
  <2>1. /\ m \in Nat /\ m = j + 1 /\ m <= N /\ j \in Nat /\ j <= N
        /\ \A k \in 1 .. m : k = m \/ k \in 1 .. j
        /\ \A k \in 1 .. j : k \in 1 .. m
        /\ m \in 1 .. m
    BY <1>1, <1>3
  <2>2. Leads(r, i, At(item, n, 0), a, At(item, n, j))
    BY <1>3, <2>1
  <2> HIDE DEF m
  <2>3. Leads(r, i, At(item, n, j), <<x>>, At(item, n, m))
    <3>1. x = Letter(i, item, n, m)
      BY <2>1
    <3>2. Leads(r, i, At(item, n, j), <<Letter(i, item, n, m)>>, At(item, n, m))
      BY <1>3, <2>1, LeadsDelta
    <3>3. QED
      BY <3>1, <3>2
  <2>4. /\ a = [k \in 1 .. j |-> a[k]] /\ b = [k \in 1 .. m |-> b[k]]
        /\ \A k \in 1 .. j : a[k] = L[k]
        /\ \A k \in 1 .. m : b[k] = L[k]
    <3> HIDE DEF L
    <3>1. QED
      OBVIOUS
  <2>x. x = L[m]
    OBVIOUS
  <2> HIDE DEF a, b, x, D, L
  <2>5. IsSeq(a) /\ Len(a) = j /\ IsSeq(b) /\ Len(b) = m
    BY <2>1, <2>4, Listed
  <2>6. IsSeq(c) /\ Len(c) = m /\ c[m] = x /\ \A k \in 1 .. j : c[k] = a[k]
    <3>1. /\ IsSeq(c) /\ Len(c) = Len(a) + 1 /\ c[Len(a) + 1] = x
          /\ \A k \in 1 .. Len(a) : c[k] = a[k]
      BY <2>5, OneMore
    <3> HIDE DEF c
    <3>2. QED
      BY <2>1, <2>5, <3>1
  <2> HIDE DEF c
  <2>7. \A k \in 1 .. m : c[k] = b[k]
    BY <2>1, <2>4, <2>x, <2>6
  <2>8. c = b
    BY <2>5, <2>6, <2>7, Equal
  <2>9. Leads(r, i, At(item, n, 0), c, At(item, n, m))
    BY <2>2, <2>3, LeadsMore DEF c
  <2>10. Leads(r, i, At(item, n, 0), D(m), At(item, n, m))
    BY <2>8, <2>9 DEF b
  <2>11. m \in P
    BY <2>1, <2>10
  <2>12. QED
    BY <2>11 DEF m
<1> HIDE DEF P
<1>4. 0 .. N \subseteq P
  BY <1>1, <1>2, <1>3, Climb
<1>5. N \in P
  BY <1>1, <1>4
<1>6. Leads(r, i, At(item, n, 0), D(N), At(item, n, N))
  <2> HIDE DEF D
  <2>1. QED
    BY <1>1, <1>5 DEF P
<1>7. D(N) = [j \in 1 .. N |-> Letter(i, item, n, j)]
  OBVIOUS
<1>8. QED
  BY <1>6, <1>7

LEMMA LeadsSpelling ==
    ASSUME NEW r, NEW i, NEW item, Named(r, i, item), NEW n \in 1 .. Len(item.parts),
           HasText(item.parts[n].kind)
    PROVE  LET part == item.parts[n]
               deltas == Deltas(part.text, TRUE)
           IN  Leads(r, i, Reached(item, n, Half(part, <<>>)),
                     [j \in 1 .. Len(deltas) |->
                         PartEvent("delta", i, item, n, part, deltas[j])]
                     \o <<PartEvent("text.done", i, item, n, part, part.text)>>,
                     Reached(item, n, Spelt(part)))
<1> DEFINE part == item.parts[n]
           t == part.text
           N == Len(t)
           yes == TRUE
           deltas == Deltas(t, yes)
           ds == [j \in 1 .. Len(deltas) |-> PartEvent("delta", i, item, n, part, deltas[j])]
           ls == [j \in 1 .. N |-> Letter(i, item, n, j)]
           y == PartEvent("text.done", i, item, n, part, part.text)
<1>1. IsSeq(t) /\ N \in Nat
  <2>1. PartsOK(item)
    BY NamedIs
  <2>2. IsSeq(t)
    BY <2>1 DEF PartsOK
  <2>3. QED
    BY <2>2, Elements
<1>2. Len(deltas) = N /\ \A j \in 1 .. N : deltas[j] = <<t[j]>>
  <2> HIDE DEF t
  <2>1. CASE t = <<>>
    <3>1. N = 0 /\ deltas = <<>> /\ 1 .. 0 = {}
      BY <2>1, NoneOf DEF Deltas
    <3>2. QED
      BY <3>1, NoneOf
  <2>2. CASE t # <<>>
    <3> DEFINE f == [j \in 1 .. N |-> <<t[j]>>]
    <3>1. deltas = f
      BY <2>2 DEF Deltas
    <3>2. f = [j \in 1 .. N |-> f[j]] /\ \A j \in 1 .. N : f[j] = <<t[j]>>
      OBVIOUS
    <3> HIDE DEF f, N, deltas
    <3>3. Len(f) = N
      BY <1>1, <3>2, Listed
    <3>4. QED
      BY <3>1, <3>2, <3>3
  <2>3. QED
    BY <2>1, <2>2
<1>3. ds = ls
  <2> HIDE DEF deltas, N
  <2>1. \A j \in 1 .. N : PartEvent("delta", i, item, n, part, deltas[j]) = Letter(i, item, n, j)
    BY <1>2 DEF Letter
  <2>2. ds = [j \in 1 .. N |-> PartEvent("delta", i, item, n, part, deltas[j])]
    BY <1>2
  <2>3. QED
    BY <2>1, <2>2
<1>4. Leads(r, i, At(item, n, 0), ls, At(item, n, N))
  BY LeadsLetters
<1>5. At(item, n, 0) = Reached(item, n, Half(part, <<>>)) /\ At(item, n, N) = Reached(item, n, Half(part, t))
  <2>1. 0 \in 0 .. N /\ N \in 0 .. N
    BY <1>1
  <2>2. SubSeq(t, 1, 0) = <<>> /\ SubSeq(t, 1, N) = t
    <3> HIDE DEF t
    <3>1. QED
      BY <1>1, <2>1, Starting
  <2>3. QED
    BY <2>2 DEF At
<1>6. Leads(r, i, Reached(item, n, Half(part, t)), <<y>>, Reached(item, n, Spelt(part)))
  BY LeadsText
<1> HIDE DEF ds, ls, y
<1>7. Leads(r, i, Reached(item, n, Half(part, <<>>)), ls \o <<y>>, Reached(item, n, Spelt(part)))
  BY <1>4, <1>5, <1>6, LeadsMore
<1>8. QED
  BY <1>3, <1>7 DEF ds, y

LEMMA LeadsPart ==
    ASSUME NEW r, NEW i, NEW item, Named(r, i, item), NEW m \in Nat, NEW n, n = m + 1,
           n \in 1 .. Len(item.parts)
    PROVE  Leads(r, i, Begun(item, m), PartEvents(i, item, n, TRUE), Begun(item, n))
<1> DEFINE part == item.parts[n]
           X(type, text) == PartEvent(type, i, item, n, part, text)
           a == X("part.added", <<>>)
           y == X("text.done", part.text)
           z == X("part.done", part.text)
           yes == TRUE
           deltas == Deltas(part.text, yes)
           ds == [j \in 1 .. Len(deltas) |-> X("delta", deltas[j])]
           t == IF HasText(part.kind) THEN ds \o <<y>> ELSE <<>>
           h == Reached(item, n, Half(part, <<>>))
           g == Reached(item, n, Spelt(part))
           s == PartEvents(i, item, n, yes)
<1>1. s = <<a>> \o t \o <<z>>
  BY DEF PartEvents, PartEvent
<1>2. Leads(r, i, Begun(item, m), <<a>>, h)
  BY MovePart, Advance
<1>3. Leads(r, i, h, t, g)
  <2>1. CASE HasText(part.kind)
    <3>1. Leads(r, i, h, ds \o <<y>>, g)
      BY <2>1, LeadsSpelling
    <3>2. t = ds \o <<y>>
      BY <2>1
    <3>3. QED
      BY <3>1, <3>2
  <2>2. CASE ~HasText(part.kind)
    <3>1. part.text = <<>>
      <4>1. PartsOK(item)
        BY NamedIs
      <4>2. QED
        BY <2>2, <4>1 DEF PartsOK, TextOK
    <3>2. Spelt(part) = Half(part, <<>>)
      <4> DEFINE no == FALSE
                 none == <<>>
                 k == part.kind
      <4>1. HasText(k) = no
        BY <2>2 DEF HasText
      <4>2. /\ Spelt(part) = [kind |-> k, text |-> none, textDone |-> no, done |-> no]
            /\ Half(part, none) = [kind |-> k, text |-> none, textDone |-> no, done |-> no]
        BY <3>1, <4>1 DEF Spelt, Half
      <4>3. QED
        BY <4>2
    <3>3. t = <<>> /\ g = h
      BY <2>2, <3>2
    <3> HIDE DEF t, g, h
    <3>4. Leads(r, i, h, <<>>, h)
      BY LeadsNone
    <3>5. QED
      BY <3>3, <3>4
  <2>3. QED
    BY <2>1, <2>2
<1>4. Leads(r, i, g, <<z>>, Begun(item, n))
  BY LeadsDone
<1> HIDE DEF s, a, t, z, h, g
<1>5. Leads(r, i, Begun(item, m), <<a>> \o t \o <<z>>, Begun(item, n))
  BY <1>2, <1>3, <1>4, LeadsMore
<1>6. QED
  BY <1>1, <1>5 DEF s

LEMMA LeadsItem ==
    ASSUME NEW r, NEW i, NEW item, Named(r, i, item)
    PROVE  \E jt : Leads(r, i, NoItem, ItemEvents(i, item, TRUE, TRUE), jt)
<1> DEFINE a == Opening(i, item)
           z == Closing(i, item, item.parts)
           n == Len(item.parts)
           yes == TRUE
           f == [p \in Nat |-> PartEvents(i, item, p, yes)]
           parts == [p \in 1 .. n |-> PartEvents(i, item, p, yes)]
           t == Flat(f, n)
           s == ItemEvents(i, item, yes, yes)
           jt == [Begun(item, n) EXCEPT !.done = TRUE, !.snapshot = item.parts]
           P == {k \in Nat : k <= n => Leads(r, i, Begun(item, 0), Flat(f, k), Begun(item, k))}
<1>1. n \in Nat /\ item.fam \in {"message", "reasoning"}
  BY NamedIs
<1>2. s = (<<a>> \o FlattenSeq(parts)) \o <<z>>
  BY <1>1 DEF ItemEvents, Opening, Closing
<1>3. parts = [p \in 1 .. n |-> f[p]]
  <2>1. ASSUME NEW p \in 1 .. n PROVE f[p] = PartEvents(i, item, p, yes)
    <3>1. p \in Nat
      BY <1>1
    <3>2. QED
      BY <3>1
  <2> HIDE DEF f
  <2>2. QED
    BY <2>1
<1>4. 0 \in P
  <2>1. Flat(f, 0) = <<>>
    <3> HIDE DEF f
    <3>1. QED
      BY FlatNone
  <2>2. Leads(r, i, Begun(item, 0), <<>>, Begun(item, 0))
    BY LeadsNone
  <2> HIDE DEF f
  <2>3. Leads(r, i, Begun(item, 0), Flat(f, 0), Begun(item, 0))
    BY <2>1, <2>2
  <2>4. QED
    BY <2>3
<1>5. ASSUME NEW k \in 0 .. n, k + 1 <= n, k \in P PROVE k + 1 \in P
  <2> DEFINE m == k + 1
             u == f[m]
  <2>1. m \in Nat /\ m = k + 1 /\ m \in 1 .. n /\ k \in Nat /\ k <= n
    BY <1>1, <1>5
  <2>2. Leads(r, i, Begun(item, 0), Flat(f, k), Begun(item, k))
    BY <1>5, <2>1
  <2>3. u = PartEvents(i, item, m, yes)
    BY <2>1
  <2> HIDE DEF m, f
  <2>4. Leads(r, i, Begun(item, k), u, Begun(item, m))
    <3>1. Leads(r, i, Begun(item, k), PartEvents(i, item, m, TRUE), Begun(item, m))
      BY <2>1, LeadsPart
    <3> HIDE DEF u
    <3>2. QED
      BY <2>3, <3>1
  <2>5. Flat(f, m) = Flat(f, k) \o u
    <3>1. IsSeq(f[m])
      BY <2>4 DEF Leads
    <3>2. IsSeq(f[k + 1])
      BY <2>1, <3>1
    <3>3. Flat(f, k + 1) = Flat(f, k) \o f[k + 1]
      BY <2>1, <3>2, FlatNext
    <3>4. QED
      BY <2>1, <3>3
  <2> HIDE DEF u
  <2>6. Leads(r, i, Begun(item, 0), Flat(f, k) \o u, Begun(item, m))
    BY <2>2, <2>4, LeadsMore
  <2>7. Leads(r, i, Begun(item, 0), Flat(f, m), Begun(item, m))
    BY <2>5, <2>6
  <2>8. m \in P
    BY <2>1, <2>7
  <2>9. QED
    BY <2>8 DEF m
<1> HIDE DEF P
<1>6. 0 .. n \subseteq P
  BY <1>1, <1>4, <1>5, Climb
<1>7. Leads(r, i, Begun(item, 0), t, Begun(item, n))
  <2>1. n \in P
    BY <1>1, <1>6
  <2> HIDE DEF f
  <2>2. QED
    BY <1>1, <2>1 DEF P
<1>8. Leads(r, i, NoItem, <<a>>, Begun(item, 0))
  BY MoveOpening, Advance
<1>9. Leads(r, i, Begun(item, n), <<z>>, jt)
  BY MoveClosing, Advance
<1>10. s = (<<a>> \o t) \o <<z>>
  BY <1>2, <1>3 DEF Flat
<1> HIDE DEF a, z, t, s, jt, n
<1>11. Leads(r, i, NoItem, (<<a>> \o t) \o <<z>>, jt)
  BY <1>7, <1>8, <1>9, LeadsMore
<1>12. Leads(r, i, NoItem, s, jt)
  BY <1>10, <1>11
<1>13. QED
  BY <1>12 DEF s

\* A tool item is none of the delivery's business.
LEMMA PathTool ==
    ASSUME NEW r, NEW x, Sound(r, x), NEW i, NEW item, item.fam = "tool"
    PROVE  Path(r, x, ItemEvents(i, item, TRUE, TRUE), x)
<1> DEFINE a == Opening(i, item)
           z == Closing(i, item, item.parts)
           t == FlattenSeq(<<>>)
           s == ItemEvents(i, item, TRUE, TRUE)
<1>1. s = (<<a>> \o t) \o <<z>>
  BY DEF ItemEvents, Opening, Closing
<1>2. t = <<>>
  BY DEF FlattenSeq
<1>3. a.fam = "tool" /\ a.type = "item.added" /\ z.fam = "tool" /\ z.type = "item.done"
  BY EndsAre
<1> HIDE DEF a, z, t, s
<1>4. Goes(x, a, x) /\ Goes(x, z, x)
  BY <1>3 DEF Goes
<1>5. Path(r, x, <<a>>, x) /\ Path(r, x, <<z>>, x) /\ Path(r, x, t, x)
  BY <1>2, <1>4, PathOne, PathNone
<1>6. Path(r, x, (<<a>> \o t) \o <<z>>, x)
  BY <1>5, PathMore
<1>7. Path(r, x, s, x)
  BY <1>1, <1>6
<1>8. QED
  BY <1>7 DEF s

\* What the upstream streams has names: without them the delivery refuses an
\* item, and commits nothing.
AllNamed ==
    \A r \in Responses :
        /\ r.id # ""
        /\ \A i \in 1 .. Len(r.output) : r.output[i].fam # "tool" => r.output[i].id # ""

\* From x, which has no item from the i-th on, to y, which has that item.
Fresh(x, i) == \A j \in Indexes : j >= i => x.items[j] = NoItem

Onward(r, i, x, y) ==
    /\ Path(r, x, ItemEvents(i, r.output[i], TRUE, TRUE), y) /\ Sound(r, y)
    /\ \A j \in Indexes : j > i => y.items[j] = NoItem

LEMMA PathItem ==
    ASSUME AllNamed, NEW r \in Responses, NEW i \in 1 .. Len(r.output), NEW x, Sound(r, x),
           Fresh(x, i)
    PROVE  \E y : Onward(r, i, x, y)
<1> DEFINE item == r.output[i]
           s == ItemEvents(i, item, TRUE, TRUE)
<1>1. i \in Indexes /\ i \in Nat /\ item.fam \in {"message", "reasoning", "tool"}
  BY ResponseItems
<1>2. x.items[i] = NoItem /\ \A j \in Indexes : j > i => x.items[j] = NoItem
  <2>1. i >= i
    BY <1>1
  <2>2. ASSUME NEW j \in Indexes, j > i PROVE x.items[j] = NoItem
    <3>1. j \in Nat
      BY IndexIs
    <3>2. j >= i
      BY <1>1, <2>2, <3>1
    <3>3. QED
      BY <3>2 DEF Fresh
  <2>3. QED
    BY <1>1, <2>1, <2>2 DEF Fresh
<1>3. CASE item.fam = "tool"
  <2>1. Path(r, x, s, x)
    BY <1>3, PathTool
  <2>2. Onward(r, i, x, x)
    BY <1>2, <2>1 DEF Onward
  <2>3. QED
    BY <2>2
<1>4. CASE item.fam # "tool"
  <2>1. Named(r, i, item)
    BY <1>1, <1>4 DEF Named, AllNamed
  <2>2. PICK jt : Leads(r, i, NoItem, s, jt)
    BY <2>1, LeadsItem
  <2>3. Place(r, x, i, NoItem)
    BY <1>1, <1>2, NoItemIs DEF Place
  <2>4. PICK y : Path(r, x, s, y) /\ Place(r, y, i, jt)
    BY <2>2, <2>3 DEF Leads
  <2>5. Onward(r, i, x, y)
    BY <2>4 DEF Place, Onward
  <2>6. QED
    BY <2>5
<1>5. QED
  BY <1>3, <1>4

LEMMA ScriptPath ==
    ASSUME AllNamed, NEW r \in Responses
    PROVE  \E y : Path(r, NewDelivery, Scripts[r], y)
<1> DEFINE n == Len(r.output)
           yes == TRUE
           f == ItemsOf(r, yes, yes)
           x == NewDelivery
           Q(k, y) == /\ Path(r, x, Flat(f, k), y) /\ Sound(r, y)
                      /\ \A j \in Indexes : j > k => y.items[j] = NoItem
           P == {k \in Nat : k <= n => \E y : Q(k, y)}
           c == Created(r.id)
<1>1. n \in Nat
  BY ResponseItems
<1>2. /\ SyntheticEvents(r, yes, yes) = Flat(f, n)
      /\ \A i \in 1 .. n : f[i] = ItemEvents(i, r.output[i], yes, yes) /\ IsSeq(f[i])
  BY SyntheticIs
<1>3. Sound(r, x) /\ \A j \in Indexes : x.items[j] = NoItem
  <2>1. DOMAIN x = Fields /\ x.items = [i \in Indexes |-> NoItem]
    BY DEF NewDelivery, Fields
  <2>2. QED
    BY <2>1 DEF Sound
<1> HIDE DEF x, f
<1>4. 0 \in P
  <2>1. Flat(f, 0) = <<>>
    BY FlatNone
  <2>2. Path(r, x, <<>>, x)
    BY <1>3, PathNone
  <2>3. Q(0, x)
    BY <1>3, <2>1, <2>2
  <2>4. QED
    BY <2>3
<1>5. ASSUME NEW k \in 0 .. n, k + 1 <= n, k \in P PROVE k + 1 \in P
  <2> DEFINE m == k + 1
  <2>1. m \in Nat /\ m = k + 1 /\ m \in 1 .. n /\ k \in Nat /\ k <= n
    BY <1>1, <1>5
  <2>2. PICK y : Q(k, y)
    BY <1>5, <2>1
  <2> HIDE DEF m
  <2>3. Fresh(y, m) /\ Sound(r, y)
    <3>1. \A j \in Indexes : j >= m => j > k
      BY <2>1, IndexIs
    <3>2. QED
      BY <2>2, <3>1 DEF Fresh
  <2>4. PICK w : /\ Path(r, y, ItemEvents(m, r.output[m], TRUE, TRUE), w) /\ Sound(r, w)
                 /\ \A j \in Indexes : j > m => w.items[j] = NoItem
    <3>1. \E w : Onward(r, m, y, w)
      BY <2>1, <2>3, PathItem
    <3>2. QED
      BY <3>1 DEF Onward
  <2>5. Path(r, y, f[m], w) /\ IsSeq(f[m])
    BY <1>2, <2>1, <2>4
  <2>6. Flat(f, m) = Flat(f, k) \o f[m]
    <3>1. IsSeq(f[k + 1])
      BY <2>1, <2>5
    <3>2. Flat(f, k + 1) = Flat(f, k) \o f[k + 1]
      BY <2>1, <3>1, FlatNext
    <3>3. QED
      BY <2>1, <3>2
  <2>7. Path(r, x, Flat(f, k) \o f[m], w)
    BY <2>2, <2>5, PathMore
  <2>8. Q(m, w)
    BY <2>4, <2>6, <2>7
  <2>9. m \in P
    BY <2>1, <2>8
  <2>10. QED
    BY <2>9 DEF m
<1> HIDE DEF P
<1>6. 0 .. n \subseteq P
  BY <1>1, <1>4, <1>5, Climb
<1>7. PICK y : Q(n, y)
  <2>1. n \in P
    BY <1>1, <1>6
  <2>2. QED
    BY <1>1, <2>1 DEF P
<1>8. Path(r, x, <<c>>, x)
  <2>1. c.fam = "response" /\ c.type = "created"
    BY DEF Created, Event
  <2> HIDE DEF c
  <2>2. Goes(x, c, x)
    BY <2>1 DEF Goes
  <2>3. QED
    BY <1>3, <2>2, PathOne
<1>9. Path(r, x, <<c>> \o SyntheticEvents(r, yes, yes), y)
  BY <1>2, <1>7, <1>8, PathMore
<1>10. Scripts[r] = <<c>> \o SyntheticEvents(r, yes, yes)
  BY DEF Scripts
<1>11. QED
  BY <1>9, <1>10 DEF x

\* The deliveries on the way through a whole script.
TrailOf(r) == CHOOSE g : \E y : Way(r, NewDelivery, Scripts[r], y, g)

LEMMA TrailIs ==
    ASSUME AllNamed, NEW r \in Responses
    PROVE  LET g == TrailOf(r)
               s == Scripts[r]
           IN  /\ g[0] = NewDelivery /\ IsSeq(s)
               /\ \A k \in 0 .. Len(s) : Sound(r, g[k])
               /\ \A k \in 0 .. Len(s) : k + 1 <= Len(s) => Goes(g[k], s[k + 1], g[k + 1])
<1> DEFINE g == TrailOf(r)
           s == Scripts[r]
<1>1. PICK y : Path(r, NewDelivery, s, y)
  BY ScriptPath
<1>2. IsSeq(s) /\ \E h : \E z : Way(r, NewDelivery, s, z, h)
  BY <1>1 DEF Path
<1>3. \E z : Way(r, NewDelivery, s, z, g)
  <2> DEFINE W(h) == \E z : Way(r, NewDelivery, s, z, h)
  <2>1. \E h : W(h)
    BY <1>2
  <2>2. g = CHOOSE h : W(h)
    BY DEF TrailOf
  <2> HIDE DEF W, g, s
  <2>3. W(CHOOSE h : W(h))
    BY <2>1
  <2>4. W(g)
    BY <2>2, <2>3
  <2>5. QED
    BY <2>4 DEF W
<1> HIDE DEF g, s
<1>4. PICK z : Way(r, NewDelivery, s, z, g)
  BY <1>3
<1>5. /\ g[0] = NewDelivery
      /\ \A k \in 0 .. Len(s) : Sound(r, g[k])
      /\ \A k \in 0 .. Len(s) : k + 1 <= Len(s) => Goes(g[k], s[k + 1], g[k + 1])
  BY <1>4 DEF Way
<1>6. QED
  BY <1>2, <1>5 DEF g, s

\* The events of a script after its first.
LEMMA ScriptIs ==
    ASSUME NEW r \in Responses
    PROVE  LET s == Scripts[r] IN
           /\ Len(s) \in Nat /\ s[1] = Created(r.id)
           /\ \A k \in 1 .. Len(s) : k # 1 => s[k].type # "created" /\ s[k].fam # "response"
<1> DEFINE c == Created(r.id)
           t == SyntheticEvents(r, TRUE, TRUE)
           s == <<c>> \o t
           n == Len(t)
<1>1. Scripts[r] = s
  BY DEF Scripts
<1>2. IsSeq(t) /\ \A x : Elem(x, t) => \E i \in 1 .. Len(r.output) : EventOf(x, i, r.output[i])
  BY SyntheticIs, SyntheticShape
<1> HIDE DEF t, c
<1>3. n \in Nat /\ IsSeq(<<c>>) /\ Len(<<c>>) = 1 /\ <<c>>[1] = c
  BY <1>2, OneOf, Elements
<1>4. /\ IsSeq(s) /\ Len(s) = 1 + n /\ \A k \in 1 .. 1 : s[k] = <<c>>[k]
      /\ \A k \in 1 .. n : s[1 + k] = t[k]
  BY <1>2, <1>3, Concat
<1>5. s[1] = c
  BY <1>3, <1>4
<1> HIDE DEF s
<1>6. ASSUME NEW k \in 1 .. Len(s), k # 1 PROVE s[k].type # "created" /\ s[k].fam # "response"
  <2> DEFINE j == k - 1
  <2>1. j \in 1 .. n /\ k = 1 + j
    BY <1>3, <1>4, <1>6
  <2> HIDE DEF j
  <2>2. s[k] = t[j] /\ Elem(t[j], t)
    BY <1>4, <2>1 DEF Elem, n
  <2>3. PICK i \in 1 .. Len(r.output) : EventOf(t[j], i, r.output[i])
    BY <1>2, <2>2
  <2>4. t[j].type # "created" /\ t[j].fam = r.output[i].fam
    BY <2>3, EventOfFields
  <2>5. r.output[i].fam \in {"message", "reasoning", "tool"}
    BY ResponseItems
  <2>6. QED
    BY <2>2, <2>4, <2>5
<1>7. Len(s) \in Nat
  BY <1>3, <1>4
<1>8. QED
  BY <1>1, <1>5, <1>6, <1>7 DEF c

\* One event more in the batch.
ProbeTwo(b, m, g, c, n, h) ==
    /\ m \in Nat /\ n \in Nat /\ m <= n /\ Probing(b, m, g) /\ Probing(c, n, h)
    /\ \A k \in 1 .. m : b[k] = c[k]

LEMMA ProbingAgrees ==
    ASSUME NEW b, NEW m, NEW g, NEW c, NEW n, NEW h, ProbeTwo(b, m, g, c, n, h)
    PROVE  g[m] = h[m]
<1>0. /\ m \in Nat /\ n \in Nat /\ m <= n /\ Probing(b, m, g) /\ Probing(c, n, h)
      /\ \A k \in 1 .. m : b[k] = c[k]
  BY DEF ProbeTwo
<1> DEFINE P == {k \in Nat : k <= m => g[k] = h[k]}
<1>1. /\ \A k \in 0 .. m : g[k] = IF k = 0 THEN FreshProbe ELSE Probe(g[k - 1], b[k])
      /\ \A k \in 0 .. n : h[k] = IF k = 0 THEN FreshProbe ELSE Probe(h[k - 1], c[k])
  BY <1>0 DEF Probing
<1>2. 0 \in P
  BY <1>0, <1>1
<1>3. ASSUME NEW k \in 0 .. m, k + 1 <= m, k \in P PROVE k + 1 \in P
  <2> DEFINE j == k + 1
  <2>1. j \in 0 .. m /\ j \in 0 .. n /\ j \in 1 .. m /\ j # 0 /\ j - 1 = k /\ j \in Nat /\ k <= m
    BY <1>0, <1>3
  <2>2. g[k] = h[k]
    BY <1>3, <2>1
  <2> HIDE DEF j
  <2>3. g[j] = h[j]
    BY <1>0, <1>1, <2>1, <2>2
  <2>4. j \in P
    BY <2>3, <2>1
  <2>5. QED
    BY <2>4 DEF j
<1> HIDE DEF P
<1>4. 0 .. m \subseteq P
  BY <1>0, <1>2, <1>3, Climb
<1>5. m \in P
  BY <1>0, <1>4
<1>6. QED
  BY <1>0, <1>5 DEF P

LEMMA ProbeMore ==
    ASSUME NEW b, IsSeq(b), NEW e
    PROVE  ReplayPending(Append(b, e)) = Probe(ReplayPending(b), e)
<1> DEFINE c == Append(b, e)
           m == Len(b)
           n == Len(c)
<1>1. m \in Nat /\ IsSeq(c) /\ n = m + 1 /\ c[m + 1] = e /\ \A k \in 1 .. m : c[k] = b[k]
  <2>1. Append(b, e) = b \o <<e>>
    BY OneMore
  <2>2. QED
    BY <2>1, Elements, OneMore
<1> HIDE DEF c
<1>2. PICK g : Probing(b, m, g) /\ ReplayPending(b) = g[m]
  BY ProbedIs
<1>3. PICK h : Probing(c, n, h) /\ ReplayPending(c) = h[n]
  BY <1>1, ProbedIs
<1> HIDE DEF m, n
<1>4. n \in Nat /\ m <= n /\ n \in 0 .. n /\ n # 0 /\ n - 1 = m
  BY <1>1
<1>5. h[n] = Probe(h[m], c[n])
  BY <1>3, <1>4 DEF Probing
<1>6. g[m] = h[m]
  <2>1. \A k \in 1 .. m : b[k] = c[k]
    BY <1>1
  <2>2. Probing(b, m, g) /\ Probing(c, n, h)
    BY <1>2, <1>3
  <2>3. QED
    BY <1>1, <1>4, <2>1, <2>2, ProbingAgrees DEF ProbeTwo
<1>7. c[n] = e
  BY <1>1
<1>8. QED
  BY <1>2, <1>3, <1>5, <1>6, <1>7 DEF c

LEMMA ProbeNone == ReplayPending(<<>>) = FreshProbe
<1>1. IsSeq(<<>>) /\ Len(<<>>) = 0
  BY NoneOf
<1>2. PICK g : Probing(<<>>, 0, g) /\ ReplayPending(<<>>) = g[0]
  BY <1>1, ProbedIs
<1>3. QED
  BY <1>2 DEF Probing

\* What holds while nothing was lost, stray or contradicted: the delivery is
\* where the script has it, and went out with the first delta.
CleanOf(b, p, c, dd, r, s, x) ==
    /\ p \in Responses /\ r = p /\ c \in 0 .. Len(Scripts[p])
    /\ dd.meta = (IF c = 0 THEN "" ELSE p.id) /\ dd.broken = FALSE
    /\ dd.known = x.known /\ dd.knownParts = x.knownParts
    /\ b \/ dd.committed => dd.items = x.items
    /\ ~b /\ ~dd.committed =>
          /\ ReplayPending(dd.pending).ok /\ ReplayPending(dd.pending).items = x.items
          /\ \A j \in 1 .. c : Scripts[p][j].type # "delta"
    /\ dd.committed => \E j \in DOMAIN s : s[j].type = "delta"

CleanAt(a, o, b, p, c, dd, r, s) ==
    /\ a \in Nat
    /\ a = 0 => /\ o # "invalid_upstream_stream"
                /\ o = "reading" => CleanOf(b, p, c, dd, r, s, TrailOf(p)[c])

CleanInv == CleanAt(anomalies, outcome, buffered, planned, cursor, d, final, out)

\* The m-th event e of the script p, by which the delivery x becomes y.
Reads(p, c, m, e, x, y) ==
    /\ p \in Responses /\ c \in Nat /\ m = c + 1 /\ m # 0 /\ m \in 0 .. Len(Scripts[p])
    /\ \A j \in 1 .. m : j \in 1 .. c \/ j = m
    /\ e = Scripts[p][m] /\ Goes(x, e, y) /\ DOMAIN x = Fields
    /\ c = 0 => e.type = "created" /\ e.fam = "response" /\ e.id = p.id
    /\ c # 0 => e.type # "created" /\ e.fam # "response"

LEMMA ReadsIs ==
    ASSUME AllNamed, NEW p \in Responses, NEW c \in 0 .. Len(Scripts[p]), c < Len(Scripts[p]),
           NEW m, m = c + 1
    PROVE  Reads(p, c, m, Scripts[p][m], TrailOf(p)[c], TrailOf(p)[m])
<1> DEFINE s == Scripts[p]
           g == TrailOf(p)
           n == Len(s)
<1>1. /\ \A k \in 0 .. n : Sound(p, g[k])
      /\ \A k \in 0 .. n : k + 1 <= n => Goes(g[k], s[k + 1], g[k + 1])
  BY TrailIs
<1>2. /\ n \in Nat /\ s[1] = Created(p.id)
      /\ \A k \in 1 .. n : k # 1 => s[k].type # "created" /\ s[k].fam # "response"
  BY ScriptIs
<1>3. Created(p.id).type = "created" /\ Created(p.id).fam = "response" /\ Created(p.id).id = p.id
  BY DEF Created, Event
<1>4. c \in 0 .. n /\ c < n
  OBVIOUS
<1> HIDE DEF s, g, n
<1>5. /\ c \in Nat /\ m # 0 /\ m \in 0 .. n /\ m \in 1 .. n /\ (c = 0 <=> m = 1) /\ c + 1 <= n
      /\ \A j \in 1 .. m : j \in 1 .. c \/ j = m
  BY <1>2, <1>4
<1>6. Goes(g[c], s[m], g[m])
  BY <1>1, <1>4, <1>5
<1>7. DOMAIN g[c] = Fields
  BY <1>1, <1>4 DEF Sound
<1>8. /\ c = 0 => s[m].type = "created" /\ s[m].fam = "response" /\ s[m].id = p.id
      /\ c # 0 => s[m].type # "created" /\ s[m].fam # "response"
  BY <1>2, <1>3, <1>5
<1>9. Reads(p, c, m, s[m], g[c], g[m])
  BY <1>5, <1>6, <1>7, <1>8 DEF Reads, n, s
<1>10. QED
  BY <1>9 DEF s, g

SameKnown(dd, x) ==
    /\ DOMAIN dd = Fields /\ DOMAIN x = Fields
    /\ dd.known = x.known /\ dd.knownParts = x.knownParts

LEMMA NoteSame ==
    ASSUME NEW dd, NEW x, SameKnown(dd, x), NEW e
    PROVE  /\ Note(dd, e).known = Note(x, e).known
           /\ Note(dd, e).knownParts = Note(x, e).knownParts
           /\ Note(dd, e).meta = dd.meta /\ Note(dd, e).broken = dd.broken
<1>1. CASE e.type = "item.added"
  BY <1>1 DEF Note, Fields, SameKnown
<1>2. CASE e.type # "item.added" /\ e.type = "part.added"
  BY <1>2 DEF Note, Fields, SameKnown
<1>3. CASE e.type \notin {"item.added", "part.added"}
  BY <1>3 DEF Note, Fields, SameKnown
<1>4. QED
  BY <1>1, <1>2, <1>3

LEMMA RecordSame ==
    ASSUME NEW n, DOMAIN n = Fields, NEW e
    PROVE  LET y == Record(n, e) IN
           /\ y.known = n.known /\ y.knownParts = n.knownParts
           /\ y.meta = n.meta /\ y.broken = n.broken
  BY DEF Record, Fields

\* What the delivery becomes by an event of a message or a reasoning.
LEMMA ReadsStreamed ==
    ASSUME NEW p, NEW c, NEW m, NEW e, NEW x, NEW y, Reads(p, c, m, e, x, y),
           e.fam \in {"message", "reasoning"},
           NEW dd, DOMAIN dd = Fields, dd.known = x.known, dd.knownParts = x.knownParts
    PROVE  LET n == Note(dd, e) IN
           /\ c # 0 /\ Accepts(x.items[e.index], e) /\ Prepared(x, e)
           /\ n.known = y.known /\ n.knownParts = y.knownParts
           /\ n.meta = dd.meta /\ n.broken = dd.broken
           /\ y.items = [x.items EXCEPT ![e.index] = Recorded(@, e)]
<1> DEFINE n == Note(dd, e)
           w == Note(x, e)
<1>1. /\ Accepts(x.items[e.index], e) /\ Prepared(x, e) /\ y = Record(w, e)
      /\ DOMAIN x = Fields /\ c # 0
  BY DEF Reads, Goes
<1>2. /\ n.known = w.known /\ n.knownParts = w.knownParts
      /\ n.meta = dd.meta /\ n.broken = dd.broken
<2>1. SameKnown(dd, x)
  BY <1>1 DEF SameKnown
<2>2. QED
  BY <2>1, NoteSame
<1>3. DOMAIN w = Fields /\ w.items = x.items
  BY <1>1, NoteIs
<1> HIDE DEF w, n
<1>4. /\ y.known = w.known /\ y.knownParts = w.knownParts
      /\ y.items = [x.items EXCEPT ![e.index] = Recorded(@, e)]
  BY <1>1, <1>3, RecordSame, RecordIs
<1>5. QED
  BY <1>1, <1>2, <1>4 DEF n

\* The delivery takes and records the event at once.
LEMMA CleanRecorded ==
    ASSUME NEW b \in BOOLEAN, NEW p, NEW c, NEW m, NEW e, NEW x, NEW y, Reads(p, c, m, e, x, y),
           e.fam \in {"message", "reasoning"},
           NEW dd, DOMAIN dd = Fields, dd.committed \in BOOLEAN, NEW s, CleanOf(b, p, c, dd, p, s, x),
           b \/ dd.committed,
           NEW t, dd.committed => \E j \in DOMAIN t : t[j].type = "delta"
    PROVE  /\ Accepts(dd.items[e.index], e)
           /\ CleanOf(b, p, m, Record(Note(dd, e), e), p, t, y)
<1> DEFINE n == Note(dd, e)
           ee == Record(n, e)
<1>0. dd.known = x.known /\ dd.knownParts = x.knownParts /\ dd.items = x.items
  BY DEF CleanOf
<1>1. /\ c # 0 /\ Accepts(x.items[e.index], e)
      /\ n.known = y.known /\ n.knownParts = y.knownParts
      /\ n.meta = dd.meta /\ n.broken = dd.broken
      /\ y.items = [x.items EXCEPT ![e.index] = Recorded(@, e)]
  BY <1>0, ReadsStreamed
<1>2. DOMAIN n = Fields /\ n.committed = dd.committed /\ n.items = dd.items
  BY NoteIs
<1> HIDE DEF n
<1>3. /\ ee.known = n.known /\ ee.knownParts = n.knownParts /\ ee.meta = n.meta
      /\ ee.broken = n.broken /\ ee.committed = n.committed
      /\ ee.items = [n.items EXCEPT ![e.index] = Recorded(@, e)]
  BY <1>2, RecordSame, RecordIs
<1> HIDE DEF ee
<1>4. ee.items = y.items
  BY <1>0, <1>1, <1>2, <1>3
<1>5. p \in Responses /\ m \in 0 .. Len(Scripts[p]) /\ m # 0
  BY DEF Reads
<1>6. dd.meta = p.id /\ dd.broken = FALSE
  BY <1>1 DEF CleanOf
<1>7. CleanOf(b, p, m, ee, p, t, y)
  BY <1>1, <1>2, <1>3, <1>4, <1>5, <1>6 DEF CleanOf
<1>8. QED
  BY <1>0, <1>1, <1>7 DEF ee, n

\* Once an event is probed that the batch's records accept.
Probes(state, e, new) ==
    /\ new.ok /\ new.frames = state.frames \o Frames(e)
    /\ new.items = [state.items EXCEPT ![e.index] = Recorded(@, e)]

LEMMA ProbeAccepts ==
    ASSUME NEW state, Good(state), state.ok, NEW e, Accepts(state.items[e.index], e)
    PROVE  Probes(state, e, Probe(state, e))
<1>1. DOMAIN state = {"ok", "frames", "items"}
  BY DEF Good
<1>2. Probe(state, e) = [Record(state, e) EXCEPT !.frames = @ \o Frames(e)]
  BY DEF Probe
<1>3. QED
  BY <1>1, <1>2 DEF Record, Probes

\* What the batch's probe becomes.
Batched(b, e, y) ==
    LET replay == ReplayPending(Append(b, e))
    IN  /\ replay.ok /\ replay.items = y.items
        /\ e.type = "delta" => \E j \in DOMAIN replay.frames : replay.frames[j].type = "delta"

LEMMA CleanBatch ==
    ASSUME NEW b, AllHeard(b), ReplayPending(b).ok, NEW x, ReplayPending(b).items = x.items,
           NEW e, Heard(e), Accepts(x.items[e.index], e),
           NEW y, y.items = [x.items EXCEPT ![e.index] = Recorded(@, e)]
    PROVE  Batched(b, e, y)
<1> DEFINE old == ReplayPending(b)
           new == ReplayPending(Append(b, e))
<1>1. IsSeq(b) /\ \A k \in 1 .. Len(b) : Heard(b[k])
  BY DEF AllHeard
<1>2. new = Probe(old, e)
  BY <1>1, ProbeMore
<1>3. Good(old) /\ Tracks(old.items, old.frames)
  BY ReplayGood DEF Good
<1> HIDE DEF old, new
<1>4. old.ok /\ old.items = x.items
  BY DEF old
<1>a. Accepts(old.items[e.index], e)
  BY <1>4
<1>5. /\ new.ok /\ new.frames = old.frames \o Frames(e)
      /\ new.items = [old.items EXCEPT ![e.index] = Recorded(@, e)]
  <2>1. Probes(old, e, new)
    BY <1>2, <1>3, <1>4, <1>a, ProbeAccepts
  <2>2. QED
    BY <2>1 DEF Probes
<1>6. ASSUME e.type = "delta" PROVE \E j \in DOMAIN new.frames : new.frames[j].type = "delta"
  <2> DEFINE f == old.frames
             n == Len(f)
             t == f \o <<e>>
  <2>1. IsSeq(f) /\ Frames(e) = <<e>>
    BY <1>3, <1>6, FramesIs DEF Tracks
  <2> HIDE DEF f
  <2>2. n \in Nat /\ IsSeq(t) /\ Len(t) = n + 1 /\ t[n + 1] = e
    BY <2>1, OneMore, Elements
  <2>3. DOMAIN t = 1 .. (n + 1)
    BY <2>2, Elements
  <2>4. new.frames = t
    BY <1>5, <2>1 DEF f
  <2> HIDE DEF t, n
  <2>5. n + 1 \in DOMAIN t
    BY <2>2, <2>3
  <2>6. QED
    BY <1>6, <2>2, <2>4, <2>5
<1>7. QED
  BY <1>4, <1>5, <1>6 DEF Batched, new

Batching(dd, e, n) == n = [Note(dd, e) EXCEPT !.pending = Append(@, e)]

\* The delivery batches the event, or goes out with it.
LEMMA CleanPending ==
    ASSUME AllNamed, NEW b, b = FALSE, NEW p, NEW c, NEW m, NEW e, NEW x, NEW y,
           Reads(p, c, m, e, x, y), e.fam \in {"message", "reasoning"}, Heard(e),
           NEW dd, DOMAIN dd = Fields, dd.committed = FALSE, AllHeard(dd.pending),
           NEW s, CleanOf(b, p, c, dd, p, s, x),
           NEW n, Batching(dd, e, n)
    PROVE  /\ ~CommitsOn(n, e) => CleanOf(b, p, m, n, p, s, y)
           /\ CommitsOn(n, e) =>
                 LET replay == ReplayPending(n.pending) IN
                 replay.ok /\ CleanOf(b, p, m, Commit(n, replay.items), p, replay.frames, y)
<1> DEFINE w == Note(dd, e)
           replay == ReplayPending(n.pending)
           cc == Commit(n, replay.items)
<1>0. dd.known = x.known /\ dd.knownParts = x.knownParts
  BY DEF CleanOf
<1>1. /\ dd.broken = FALSE
      /\ ReplayPending(dd.pending).ok /\ ReplayPending(dd.pending).items = x.items
      /\ \A j \in 1 .. c : Scripts[p][j].type # "delta"
      /\ dd.meta = (IF c = 0 THEN "" ELSE p.id)
  BY DEF CleanOf
<1>2. /\ c # 0 /\ Accepts(x.items[e.index], e) /\ Prepared(x, e)
      /\ w.known = y.known /\ w.knownParts = y.knownParts
      /\ w.meta = dd.meta /\ w.broken = dd.broken
      /\ y.items = [x.items EXCEPT ![e.index] = Recorded(@, e)]
  BY <1>0, ReadsStreamed
<1>3. DOMAIN w = Fields /\ w.committed = FALSE /\ w.pending = dd.pending
  BY NoteIs
<1>4. e.type = "delta" => w = dd
  BY DEF Note
<1> HIDE DEF w
<1>5. /\ DOMAIN n = Fields /\ n.committed = FALSE /\ n.pending = Append(dd.pending, e)
      /\ n.known = w.known /\ n.knownParts = w.knownParts /\ n.meta = w.meta /\ n.broken = w.broken
  BY <1>3 DEF Fields, w, Batching
<1>6. Batched(dd.pending, e, y)
  BY <1>1, <1>2, CleanBatch
<1>7. /\ replay.ok /\ replay.items = y.items
      /\ e.type = "delta" => \E j \in DOMAIN replay.frames : replay.frames[j].type = "delta"
  BY <1>5, <1>6 DEF Batched
<1> HIDE DEF replay
<1>8. /\ cc.committed = TRUE /\ cc.items = replay.items /\ cc.meta = n.meta /\ cc.broken = n.broken
      /\ cc.known = n.known /\ cc.knownParts = n.knownParts
  BY <1>5 DEF Commit, Fields
<1> HIDE DEF cc
<1>9. /\ p \in Responses /\ m \in 0 .. Len(Scripts[p]) /\ m # 0 /\ e = Scripts[p][m]
      /\ \A j \in 1 .. m : j \in 1 .. c \/ j = m
  BY DEF Reads
<1>10. n.meta = p.id /\ n.broken = FALSE
  BY <1>1, <1>2, <1>5
<1>11. ASSUME ~CommitsOn(n, e) PROVE CleanOf(b, p, m, n, p, s, y)
  <2>1. e.type # "delta"
    <3> SUFFICES ASSUME e.type = "delta" PROVE CommitsOn(n, e)
      BY <1>11
    <3>1. /\ e.text # <<>> /\ <<e.fam, e.index, e.id>> \in n.known
          /\ <<e.fam, e.index, e.part>> \in n.knownParts
      BY <1>0, <1>2, <1>4, <1>5 DEF Prepared
    <3>2. n.meta # ""
      BY <1>9, <1>10 DEF AllNamed
    <3>3. QED
      BY <1>10, <3>1, <3>2 DEF CommitsOn
  <2>2. \A j \in 1 .. m : Scripts[p][j].type # "delta"
    BY <1>1, <1>9, <2>1
  <2>3. ReplayPending(n.pending).ok /\ ReplayPending(n.pending).items = y.items
    BY <1>7 DEF replay
  <2>4. n.known = y.known /\ n.knownParts = y.knownParts
    BY <1>2, <1>5
  <2>5. QED
    BY <1>5, <1>9, <1>10, <2>2, <2>3, <2>4 DEF CleanOf
<1>12. ASSUME CommitsOn(n, e) PROVE CleanOf(b, p, m, cc, p, replay.frames, y)
  <2>1. e.type = "delta"
    BY <1>12 DEF CommitsOn
  <2>2. cc.known = y.known /\ cc.knownParts = y.knownParts
    BY <1>2, <1>5, <1>8
  <2>3. QED
    BY <1>7, <1>8, <1>9, <1>10, <2>1, <2>2 DEF CleanOf
<1>13. QED
  BY <1>7, <1>11, <1>12 DEF cc, replay

\* A new attempt is at the start of the path.
LEMMA CleanFresh ==
    ASSUME AllNamed, NEW p \in Responses, NEW b, NEW s
    PROVE  CleanOf(b, p, 0, NewDelivery, p, s, TrailOf(p)[0])
<1> DEFINE n == Len(Scripts[p])
           items == NewDelivery.items
<1>1. TrailOf(p)[0] = NewDelivery /\ n \in Nat
  BY TrailIs, ScriptIs
<1>2. /\ NewDelivery.committed = FALSE /\ NewDelivery.pending = <<>>
      /\ NewDelivery.meta = "" /\ NewDelivery.broken = FALSE
  BY DEF NewDelivery
<1>3. ReplayPending(<<>>).ok /\ ReplayPending(<<>>).items = items
  <2> HIDE DEF items
  <2>1. ReplayPending(<<>>) = [ok |-> TRUE, frames |-> <<>>, items |-> items]
    BY ProbeNone DEF FreshProbe, items
  <2>2. QED
    BY <2>1
<1> HIDE DEF n, items
<1>4. 0 \in 0 .. n
  BY <1>1
<1>5. \A j \in 1 .. 0 : Scripts[p][j].type # "delta"
  OBVIOUS
<1>6. QED
  BY <1>1, <1>2, <1>3, <1>4, <1>5 DEF CleanOf, n, items

LEMMA CleanStarts == ASSUME AllNamed PROVE Init => CleanInv
<1> SUFFICES ASSUME Init PROVE CleanInv
  OBVIOUS
<1>1. /\ planned \in Responses /\ final = planned /\ cursor = 0 /\ anomalies = 0
      /\ d = NewDelivery /\ outcome = "reading"
  BY DEF Init
<1>2. CleanOf(buffered, planned, cursor, d, final, out, TrailOf(planned)[cursor])
  BY <1>1, CleanFresh
<1>3. QED
  BY <1>1, <1>2 DEF CleanInv, CleanAt

\* A delivery that recorded parts of the response itself lets it pass.
LEMMA CleanPasses ==
    ASSUME AllNamed, CleanInv, anomalies = 0, outcome = "reading"
    PROVE  ValidFinal
<1> DEFINE p == planned
           x == TrailOf(p)[cursor]
<1>1. /\ p \in Responses /\ final = p /\ cursor \in 0 .. Len(Scripts[p])
      /\ d.meta \in {"", p.id}
      /\ d.committed \/ buffered => d.items = x.items
  BY DEF CleanInv, CleanAt, CleanOf
<1>2. Sound(p, x)
  BY <1>1, TrailIs
<1> HIDE DEF x, p
<1>3. ASSUME d.committed \/ buffered, NEW i \in Indexes, d.items[i] # NoItem
      PROVE  /\ i <= Len(p.output)
             /\ p.output[i].fam = d.items[i].fam /\ p.output[i].id = d.items[i].id
             /\ ItemAgrees(d.items[i], p.output[i].parts)
  BY <1>1, <1>2, <1>3 DEF Sound, Fits
<1>4. QED
  BY <1>1, <1>3 DEF ValidFinal

\* An event without effect on the records.
LEMMA CleanPlain ==
    ASSUME NEW b, NEW p, NEW c, NEW m, NEW e, NEW x, NEW y, Reads(p, c, m, e, x, y),
           e.fam \notin {"message", "reasoning"},
           NEW dd, DOMAIN dd = Fields, NEW s, CleanOf(b, p, c, dd, p, s, x),
           NEW ee, ee.meta = p.id, ee.broken = dd.broken, ee.known = dd.known,
           ee.knownParts = dd.knownParts, ee.committed = dd.committed, ee.items = dd.items,
           ee.pending = dd.pending
    PROVE  CleanOf(b, p, m, ee, p, s, y)
<1>1. /\ p \in Responses /\ m # 0 /\ m \in 0 .. Len(Scripts[p]) /\ e = Scripts[p][m]
      /\ \A j \in 1 .. m : j \in 1 .. c \/ j = m
      /\ y = x /\ e.type # "delta"
  BY DEF Reads, Goes
<1>2. /\ dd.broken = FALSE /\ dd.known = x.known /\ dd.knownParts = x.knownParts
      /\ b \/ dd.committed => dd.items = x.items
      /\ ~b /\ ~dd.committed =>
            /\ ReplayPending(dd.pending).ok /\ ReplayPending(dd.pending).items = x.items
            /\ \A j \in 1 .. c : Scripts[p][j].type # "delta"
      /\ dd.committed => \E j \in DOMAIN s : s[j].type = "delta"
  BY DEF CleanOf
<1>3. ~b /\ ~dd.committed => \A j \in 1 .. m : Scripts[p][j].type # "delta"
  BY <1>1, <1>2
<1>4. QED
  BY <1>1, <1>2, <1>3 DEF CleanOf

\* What was shown stays shown.
LEMMA DeltaStays ==
    ASSUME NEW s, IsSeq(s), NEW f, IsSeq(f), \E j \in DOMAIN s : s[j].type = "delta"
    PROVE  \E j \in DOMAIN (s \o f) : (s \o f)[j].type = "delta"
<1> DEFINE t == s \o f
           m == Len(s)
           n == Len(f)
<1>1. PICK j \in DOMAIN s : s[j].type = "delta"
  OBVIOUS
<1>2. m \in Nat /\ n \in Nat /\ DOMAIN s = 1 .. m
  BY Elements
<1>3. IsSeq(t) /\ Len(t) = m + n /\ \A k \in 1 .. m : t[k] = s[k]
  BY Concat
<1>4. DOMAIN t = 1 .. (m + n)
  BY <1>3, Elements
<1> HIDE DEF t, m, n
<1>5. j \in DOMAIN t /\ t[j] = s[j]
  BY <1>1, <1>2, <1>3, <1>4
<1>6. QED
  BY <1>1, <1>5 DEF t

\* An event of the script moves the delivery along the path; anything else is an
\* anomaly, or ends the execution.
LEMMA CleanKept ==
    ASSUME AllNamed
    PROVE  DeliveredInv /\ CleanInv /\ [Next]_vars => CleanInv'
<1> SUFFICES ASSUME DeliveredInv, CleanInv, [Next]_vars PROVE CleanInv'
  OBVIOUS
<1> DEFINE Kept1 == CleanAt(anomalies', outcome', buffered', planned', cursor', d', final', out')
           p == planned
           x == TrailOf(p)[cursor]
           y == TrailOf(p)[cursor']
<1> SUFFICES Kept1
  BY DEF CleanInv
<1>0. /\ anomalies \in Nat /\ DOMAIN d = Fields /\ d.committed \in BOOLEAN
      /\ buffered \in BOOLEAN /\ (d.committed => ~buffered) /\ IsSeq(out) /\ p \in Responses
      /\ outcome = "reading" /\ ~d.committed => AllHeard(d.pending)
  BY DEF DeliveredInv, InvOf, CleanInv, CleanAt
<1>a. ASSUME anomalies' = anomalies + 1 PROVE Kept1
  BY <1>0, <1>a DEF CleanAt
<1>o. ASSUME anomalies' = anomalies, outcome' \notin {"reading", "invalid_upstream_stream"} PROVE Kept1
  BY <1>0, <1>o DEF CleanAt
<1>c. ASSUME anomalies' = anomalies, outcome' = "reading",
             anomalies = 0 => CleanOf(buffered', planned', cursor', d', final', out', TrailOf(planned')[cursor'])
      PROVE  Kept1
  BY <1>0, <1>c DEF CleanAt
<1>i. anomalies = 0 /\ outcome = "reading" =>
         final = p /\ CleanOf(buffered, p, cursor, d, p, out, x)
  BY DEF CleanInv, CleanAt, CleanOf
<1> DEFINE Clean(e) ==
              /\ outcome = "reading" /\ anomalies' = anomalies /\ ~d.terminal
              /\ UNCHANGED <<buffered, planned, final>>
              /\ anomalies = 0 => /\ final = p /\ CleanOf(buffered, p, cursor, d, p, out, x)
                                  /\ Reads(p, cursor, cursor', e, x, y)
<1>r. ASSUME NEW e \in Alphabet, Receive(e) PROVE Kept1 \/ Clean(e)
  <2>1. outcome = "reading" /\ UNCHANGED <<buffered, planned, final>>
    BY <1>r DEF Receive
  <2>2. CASE anomalies' = anomalies + 1
    BY <1>a, <2>2
  <2>3. CASE ~d.terminal /\ cursor < Len(Scripts[p]) /\ e = Scripts[p][cursor + 1]
             /\ cursor' = cursor + 1 /\ UNCHANGED anomalies
    <3>1. ASSUME anomalies = 0 PROVE Reads(p, cursor, cursor', e, x, y)
      <4>1. cursor \in 0 .. Len(Scripts[p])
        BY <1>i, <2>1, <3>1 DEF CleanOf
      <4>2. QED
        BY <1>0, <2>3, <4>1, ReadsIs
    <3>2. QED
      BY <1>i, <2>1, <2>3, <3>1
  <2>4. QED
    BY <1>r, <2>2, <2>3 DEF Receive
<1>1. ASSUME NEW e \in Alphabet, ConsumeAfterTerminal(e) PROVE Kept1
  BY <1>r, <1>1 DEF ConsumeAfterTerminal
<1>2. ASSUME NEW e \in Alphabet, ConsumeCreated(e) PROVE Kept1
  <2> SUFFICES ASSUME Clean(e) PROVE Kept1
    BY <1>r, <1>2 DEF ConsumeCreated
  <2> DEFINE ee == [d EXCEPT !.meta = e.id]
  <2>1. ASSUME anomalies = 0 PROVE /\ e.fam = "response" /\ e.id = p.id /\ d.meta = ""
    BY <1>2, <2>1 DEF ConsumeCreated, Reads, CleanOf
  <2>2. ASSUME anomalies # 0 PROVE Kept1
    BY <1>0, <2>2 DEF CleanAt
  <2>3. ASSUME anomalies = 0 PROVE Kept1
    <3>1. d' = ee /\ out' = out /\ outcome' = "reading"
      BY <1>2, <2>1, <2>3 DEF ConsumeCreated
    <3>2. /\ ee.meta = p.id /\ ee.broken = d.broken /\ ee.known = d.known
          /\ ee.knownParts = d.knownParts /\ ee.committed = d.committed /\ ee.items = d.items
          /\ ee.pending = d.pending
      BY <1>0, <2>1, <2>3 DEF Fields
    <3> HIDE DEF ee
    <3>3. Reads(p, cursor, cursor', e, x, y) /\ CleanOf(buffered, p, cursor, d, p, out, x)
      BY <2>3
    <3> HIDE DEF x, y
    <3>4. CleanOf(buffered, p, cursor', ee, p, out, y)
      BY <1>0, <2>1, <2>3, <3>2, <3>3, CleanPlain
    <3>5. QED
      BY <1>c, <2>3, <3>1, <3>4 DEF y
  <2>4. QED
    BY <2>2, <2>3
<1>3. ASSUME NEW e \in Alphabet, ConsumeTool(e) PROVE Kept1
  <2> SUFFICES ASSUME Clean(e) PROVE Kept1
    BY <1>r, <1>3 DEF ConsumeTool
  <2>1. e.fam = "tool" /\ UNCHANGED <<d, out, outcome>>
    BY <1>3 DEF ConsumeTool
  <2>2. ASSUME anomalies # 0 PROVE Kept1
    BY <1>0, <2>2 DEF CleanAt
  <2>3. ASSUME anomalies = 0 PROVE Kept1
    <3>1. d.meta = p.id
      BY <2>1, <2>3 DEF Reads, CleanOf
    <3>2. Reads(p, cursor, cursor', e, x, y) /\ CleanOf(buffered, p, cursor, d, p, out, x)
      BY <2>3
    <3> HIDE DEF x, y
    <3>3. CleanOf(buffered, p, cursor', d, p, out, y)
      BY <1>0, <2>1, <3>1, <3>2, CleanPlain
    <3>4. QED
      BY <1>c, <2>1, <2>3, <3>3 DEF y
  <2>4. QED
    BY <2>2, <2>3
<1>4. ASSUME NEW e \in Alphabet, ConsumeBuffered(e) PROVE Kept1
  <2> SUFFICES ASSUME Clean(e) PROVE Kept1
    BY <1>r, <1>4 DEF ConsumeBuffered
  <2>1. buffered = TRUE /\ e.fam \in {"message", "reasoning"}
    BY <1>0, <1>4 DEF ConsumeBuffered, Streamed, Holds
  <2>2. ASSUME anomalies # 0 PROVE Kept1
    BY <1>0, <2>2 DEF CleanAt
  <2>3. ASSUME anomalies = 0 PROVE Kept1
    <3>1. Reads(p, cursor, cursor', e, x, y) /\ CleanOf(buffered, p, cursor, d, p, out, x)
      BY <2>3
    <3> DEFINE ee == Record(Note(d, e), e)
    <3> HIDE DEF x, y
    <3>2. d.committed => \E j \in DOMAIN out : out[j].type = "delta"
      BY <1>0, <2>1
    <3>3. Accepts(d.items[e.index], e) /\ CleanOf(buffered, p, cursor', ee, p, out, y)
      BY <1>0, <2>1, <3>1, <3>2, CleanRecorded
    <3> HIDE DEF ee
    <3>4. d' = ee /\ out' = out /\ outcome' = outcome
      BY <1>4, <3>3 DEF ConsumeBuffered, ee
    <3>5. QED
      BY <1>c, <2>3, <3>3, <3>4 DEF y
  <2>4. QED
    BY <2>2, <2>3
<1>5. ASSUME NEW e \in Alphabet, ConsumeCommitted(e) PROVE Kept1
  <2> SUFFICES ASSUME Clean(e) PROVE Kept1
    BY <1>r, <1>5 DEF ConsumeCommitted
  <2>1. d.committed /\ e.fam \in {"message", "reasoning"}
    BY <1>5 DEF ConsumeCommitted, Streamed
  <2>2. ASSUME anomalies # 0 PROVE Kept1
    BY <1>0, <2>2 DEF CleanAt
  <2>3. ASSUME anomalies = 0 PROVE Kept1
    <3>1. Reads(p, cursor, cursor', e, x, y) /\ CleanOf(buffered, p, cursor, d, p, out, x)
      BY <2>3
    <3> DEFINE ee == Record(Note(d, e), e)
               f == Frames(e)
    <3> HIDE DEF x, y
    <3>2. \E j \in DOMAIN out : out[j].type = "delta"
      BY <2>1, <3>1 DEF CleanOf
    <3>3. IsSeq(f)
      BY NoneOf, OneOf DEF Frames
    <3>4. \E j \in DOMAIN (out \o f) : (out \o f)[j].type = "delta"
      BY <1>0, <3>2, <3>3, DeltaStays
    <3>5. Accepts(d.items[e.index], e) /\ CleanOf(buffered, p, cursor', ee, p, out, y)
      BY <1>0, <2>1, <3>1, <3>2, CleanRecorded
    <3>6. CleanOf(buffered, p, cursor', ee, p, out \o f, y)
      <4> DEFINE t == out \o f
      <4>1. \E j \in DOMAIN t : t[j].type = "delta"
        BY <3>4
      <4> HIDE DEF t, ee
      <4>2. CleanOf(buffered, p, cursor', ee, p, t, y)
        BY <3>5, <4>1 DEF CleanOf
      <4>3. QED
        BY <4>2 DEF t
    <3>7. /\ d' = ee
          /\ \/ out' = out /\ outcome' = outcome
             \/ out' = out \o f /\ outcome' = outcome
             \/ outcome' = "client_disconnected"
      BY <1>5, <3>5 DEF ConsumeCommitted, Forward, FailWith
    <3> HIDE DEF ee, f
    <3>8. QED
      BY <1>c, <1>o, <2>3, <3>5, <3>6, <3>7 DEF y
  <2>4. QED
    BY <2>2, <2>3
<1>6. ASSUME NEW e \in Alphabet, ConsumePending(e) PROVE Kept1
  <2> SUFFICES ASSUME Clean(e) PROVE Kept1
    BY <1>r, <1>6 DEF ConsumePending
  <2>1. ~d.committed /\ buffered = FALSE /\ e.fam \in {"message", "reasoning"}
    BY <1>0, <1>6 DEF ConsumePending, Streamed, Holds
  <2>2. ASSUME anomalies # 0 PROVE Kept1
    BY <1>0, <2>2 DEF CleanAt
  <2>3. ASSUME anomalies = 0 PROVE Kept1
    <3>1. Reads(p, cursor, cursor', e, x, y) /\ CleanOf(buffered, p, cursor, d, p, out, x)
      BY <2>3
    <3>2. Heard(e) /\ AllHeard(d.pending) /\ d.committed = FALSE
      BY <1>0, <2>1, Streams
    <3> DEFINE n == [Note(d, e) EXCEPT !.pending = Append(@, e)]
               replay == ReplayPending(n.pending)
               cc == Commit(n, replay.items)
    <3>3. Batching(d, e, n)
      BY DEF Batching
    <3>4. \/ ~CommitsOn(n, e) /\ d' = n /\ out' = out /\ outcome' = outcome
          \/ CommitsOn(n, e) /\ ~replay.ok
          \/ /\ CommitsOn(n, e) /\ d' = cc
             /\ \/ out' = out \o replay.frames /\ outcome' = outcome
                \/ outcome' = "client_disconnected"
      BY <1>6 DEF ConsumePending, Forward, FailWith
    <3> HIDE DEF x, y, n
    <3>5. /\ ~CommitsOn(n, e) => CleanOf(buffered, p, cursor', n, p, out, y)
          /\ CommitsOn(n, e) =>
                LET rep == ReplayPending(n.pending) IN
                rep.ok /\ CleanOf(buffered, p, cursor', Commit(n, rep.items), p, rep.frames, y)
      BY <1>0, <2>1, <3>1, <3>2, <3>3, CleanPending
    <3>6. CommitsOn(n, e) => replay.ok /\ CleanOf(buffered, p, cursor', cc, p, replay.frames, y)
      BY <3>5
    <3>7. replay.ok => IsSeq(replay.frames)
      <4>1. n.pending = Append(d.pending, e)
        <5>1. DOMAIN Note(d, e) = Fields /\ Note(d, e).pending = d.pending
          BY <1>0, NoteIs
        <5>2. QED
          BY <5>1 DEF n, Fields
      <4>2. AllHeard(n.pending)
        BY <3>2, <4>1, HeardMore
      <4>3. QED
        BY <4>2, ReplayGood DEF Good, Tracks
    <3> HIDE DEF cc
    <3>8. replay.ok => out \o replay.frames = replay.frames
      <4>1. out = <<>>
        BY <2>1, <2>3 DEF DeliveredInv, InvOf
      <4> DEFINE f == replay.frames
      <4> HIDE DEF replay
      <4>2. QED
        BY <3>7, <4>1, Concat
    <3> HIDE DEF replay
    <3>9. QED
      BY <1>c, <1>o, <2>3, <3>4, <3>5, <3>6, <3>8 DEF y
  <2>4. QED
    BY <2>2, <2>3
<1>7. ASSUME NEW r \in Responses, ConsumeTerminal(r) PROVE Kept1
  <2> DEFINE ee == [d EXCEPT !.terminal = TRUE]
  <2>1. /\ outcome = "reading" /\ outcome' = outcome /\ d' = ee /\ final' = r
        /\ UNCHANGED <<buffered, planned, cursor, out>>
        /\ anomalies' = anomalies + 1 \/ (anomalies' = anomalies /\ r = p)
    BY <1>7 DEF ConsumeTerminal
  <2>2. /\ ee.meta = d.meta /\ ee.broken = d.broken /\ ee.known = d.known
        /\ ee.knownParts = d.knownParts /\ ee.committed = d.committed /\ ee.items = d.items
        /\ ee.pending = d.pending
    BY <1>0 DEF Fields
  <2> HIDE DEF ee
  <2>3. ASSUME anomalies = 0 PROVE CleanOf(buffered, p, cursor, ee, p, out, x)
    <3>1. CleanOf(buffered, p, cursor, d, p, out, x)
      BY <1>i, <2>1, <2>3
    <3> HIDE DEF x, p
    <3>2. QED
      BY <2>2, <3>1 DEF CleanOf
  <2>4. QED
    BY <1>a, <1>c, <2>1, <2>3
<1>8. CASE LoseEvent \/ EndUnfinished \/ EndToolInvalid \/ EndFinish
  <2>1. anomalies' = anomalies + 1
        \/ (anomalies' = anomalies /\ outcome' \notin {"reading", "invalid_upstream_stream"})
    BY <1>8 DEF LoseEvent, EndUnfinished, EndToolInvalid, EndFinish, FailWith, AtEnd, upstream
  <2>2. QED
    BY <1>a, <1>o, <2>1
<1>9. CASE EndInvalid
  <2>1. outcome = "reading" /\ ~ValidFinal /\ anomalies' = anomalies
    BY <1>9 DEF EndInvalid, AtEnd, upstream
  <2>2. anomalies # 0
    BY <2>1, CleanPasses
  <2>3. QED
    BY <1>0, <2>1, <2>2 DEF CleanAt
<1>10. CASE EndRegenerate
  <2>1. /\ outcome = "reading" /\ outcome' = outcome /\ d' = NewDelivery /\ anomalies' = anomalies
        /\ planned' \in Responses /\ final' = planned' /\ cursor' = 0
    BY <1>10 DEF EndRegenerate, AtEnd
  <2>2. CleanOf(buffered', planned', 0, NewDelivery, planned', out', TrailOf(planned')[0])
    BY <2>1, CleanFresh
  <2>3. QED
    BY <1>c, <2>1, <2>2
<1>11. CASE Rest \/ UNCHANGED vars
  <2>1. UNCHANGED vars
    BY <1>11 DEF Rest
  <2>2. UNCHANGED <<anomalies, outcome, buffered, planned, cursor, d, final, out>>
    BY <2>1 DEF vars, upstream
  <2>3. CleanAt(anomalies, outcome, buffered, planned, cursor, d, final, out)
    BY DEF CleanInv
  <2>4. QED
    BY <2>2, <2>3
<1>12. QED
  BY <1>1, <1>2, <1>3, <1>4, <1>5, <1>6, <1>7, <1>8, <1>9, <1>10, <1>11 DEF Next

\* An upstream that streams its response in order and ends with it is never
\* refused, wherever it stops streaming and ends, and from its first delta the
\* delivery is committed and the client has a delta.  The hypothesis is on the
\* responses: without a response id nothing is delivered early
\* (stream_events.go:153, 223), and an item without an id is refused (321, 429).
THEOREM CleanStreamIsShown == ASSUME AllNamed PROVE Spec => []CleanStreamShown
<1>1. CleanInv => CleanStreamShown
  <2> SUFFICES ASSUME CleanInv, anomalies = 0
               PROVE  /\ outcome # "invalid_upstream_stream"
                      /\ ~buffered /\ outcome = "reading"
                            /\ (\E j \in 1 .. cursor : Scripts[planned][j].type = "delta")
                         => d.committed /\ \E j \in DOMAIN out : out[j].type = "delta"
    BY DEF CleanStreamShown
  <2>1. outcome # "invalid_upstream_stream"
    BY DEF CleanInv, CleanAt
  <2>2. ASSUME ~buffered, outcome = "reading",
               \E j \in 1 .. cursor : Scripts[planned][j].type = "delta"
        PROVE  d.committed /\ \E j \in DOMAIN out : out[j].type = "delta"
    <3>1. CleanOf(buffered, planned, cursor, d, final, out, TrailOf(planned)[cursor])
      BY <2>2 DEF CleanInv, CleanAt
    <3>2. QED
      BY <2>2, <3>1 DEF CleanOf
  <2>3. QED
    BY <2>1, <2>2
<1>2. Init => CleanInv
  BY CleanStarts
<1>3. DeliveredInv /\ CleanInv /\ [Next]_vars => CleanInv'
  BY CleanKept
<1>4. QED
  BY <1>1, <1>2, <1>3, DeliveredAlways, PTL DEF Spec

\* Whatever the upstream streams, loses or contradicts, a round is generated
\* again only while its client has received no item event: the regeneration
\* neither repeats nor contradicts what a client saw (service.go:567-631).
THEOREM RegenerationIsUnseen == Spec => RegenerationUnseen
<1>1. DeliveredInv /\ [Next]_vars => [attempt' # attempt => out = <<>>]_vars
  <2> SUFFICES ASSUME DeliveredInv, Next, attempt' # attempt PROVE out = <<>>
    BY DEF vars
  <2>1. EndRegenerate
    BY DEF Next, ConsumeAfterTerminal, ConsumeCreated, ConsumeTool, ConsumeBuffered,
       ConsumeCommitted, ConsumePending, Receive, ConsumeTerminal, LoseEvent, EndUnfinished,
       EndInvalid, EndFinish, EndToolInvalid, Rest, vars
  <2>2. QED
    BY <2>1 DEF EndRegenerate, AtEnd, MayRegenerate, DeliveredInv, InvOf
<1>2. QED
  BY <1>1, DeliveredAlways, PTL DEF Spec, RegenerationUnseen
=============================================================================
