------------------------------ MODULE VadProofs ------------------------------
(***************************************************************************)
(* Proofs about Vad, for frames of any lengths and any paddings.           *)
(*                                                                         *)
(* The inductive invariant says where the frames are that were heard and   *)
(* are not handed on: in the pre-roll and the start buffer, in order and   *)
(* within the limits; nowhere while speech is handed on; all of them, none *)
(* left out, in the tail while an end is possible. Every handler is then   *)
(* shown to do one of four things: hold, begin, go on, or finish.          *)
(*                                                                         *)
(* The gate needs a second invariant (Follows): the windows end with the   *)
(* frames that contradict the segment, so many of them as were counted. A  *)
(* push keeps the longest suffix within the limit, so that enough such     *)
(* frames fill a window exactly, and the segmenter has to move.            *)
(*                                                                         *)
(* The buffers are folds and choices of a longest suffix, so the proofs    *)
(* rest on induction, stated here over sets and not over predicates.       *)
(***************************************************************************)
EXTENDS Vad, SequenceTheorems, WellFoundedInduction, TLAPS

-----------------------------------------------------------------------------
(* Least and greatest numbers, and induction *)

LEMMA LeastExists ==
    ASSUME NEW T \in SUBSET Nat, T # {} PROVE \E n \in T : \A m \in T : n <= m
<1> DEFINE R == {p \in Nat \X Nat : p[1] < p[2]}
<1>1. IsWellFoundedOn(R, Nat)
  BY NatLessThanWellFounded DEF OpToRel
<1> HIDE DEF R
<1>2. PICK n \in T : \A m \in T : ~ (<<m, n>> \in R)
  BY <1>1, WFMin
<1>3. \A m \in T : ~(m < n)
  BY <1>2 DEF R
<1> QED
  BY <1>3

LEMMA GreatestExists ==
    ASSUME NEW n \in Nat, NEW T \in SUBSET (0..n), T # {} PROVE \E x \in T : \A y \in T : y <= x
<1> DEFINE C == {n - x : x \in T}
<1>1. \A x \in T : n - x \in Nat
  OBVIOUS
<1>2. C \in SUBSET Nat /\ C # {}
  BY <1>1
<1>3. PICK k \in C : \A m \in C : k <= m
  BY <1>2, LeastExists
<1>4. PICK x \in T : k = n - x
  BY <1>3
<1>5. \A y \in T : n - x <= n - y
  BY <1>3, <1>4
<1> QED
  BY <1>4, <1>5

LEMMA Induct ==
    ASSUME NEW T \in SUBSET Nat, 0 \in T, \A n \in T : n + 1 \in T PROVE T = Nat
<1> SUFFICES ASSUME T # Nat PROVE FALSE
  OBVIOUS
<1>1. PICK n \in Nat \ T : \A m \in Nat \ T : n <= m
  BY LeastExists
<1>2. n - 1 \in T
  BY <1>1
<1> QED
  BY <1>1, <1>2

LEMMA MaxIs ==
    ASSUME NEW n \in Nat, NEW S \in SUBSET (1..n), S # {}
    PROVE  Max(S) \in S /\ \A x \in S : x <= Max(S)
<1>1. PICK k \in S : \A m \in S : m <= k
  <2>1. S \in SUBSET (0..n)
    OBVIOUS
  <2> QED BY <2>1, GreatestExists
<1> QED
  BY <1>1 DEF Max

LEMMA MaxIsTop ==
    ASSUME NEW n \in Nat, NEW S \in SUBSET (1..n), n \in S PROVE Max(S) = n
<1>1. Max(S) \in S /\ \A x \in S : x <= Max(S)
  BY MaxIs
<1>2. Max(S) \in 1..n /\ n <= Max(S)
  BY <1>1
<1> QED
  BY <1>2

-----------------------------------------------------------------------------
(* Folds over a sequence of n entries, as the fold of the community modules  *)
(* goes: the entries are taken off at the end, the latest first.              *)

Folds(g, n, base, F) ==
    \A S \in SUBSET (1..n) : g[S] = IF S = {} THEN base ELSE F[<<g[S \ {Max(S)}], Max(S)>>]

\* A recursion over sets of places defines a function.
LEMMA FoldExists ==
    ASSUME NEW A, NEW base \in A, NEW n \in Nat, NEW F \in [A \X (1..n) -> A]
    PROVE  \E g \in [SUBSET (1..n) -> A] : Folds(g, n, base, F)
<1> DEFINE P(k) == \E g \in [SUBSET (1..k) -> A] : Folds(g, k, base, F)
<1> DEFINE T == {k \in Nat : k <= n => P(k)}
<1>1. P(0)
  <2> DEFINE g == [S \in SUBSET (1..0) |-> base]
  <2>1. g \in [SUBSET (1..0) -> A]
    OBVIOUS
  <2>2. \A S \in SUBSET (1..0) : S = {} /\ g[S] = base
    OBVIOUS
  <2> QED
    BY <2>1, <2>2 DEF Folds
<1>2. ASSUME NEW k \in Nat, k + 1 <= n, P(k) PROVE P(k + 1)
  <2>1. k + 1 \in 1..n
    BY <1>2
  <2>2. PICK g \in [SUBSET (1..k) -> A] : Folds(g, k, base, F)
    BY <1>2
  <2> DEFINE h == [S \in SUBSET (1..(k + 1)) |->
                      IF k + 1 \in S THEN F[<<g[S \ {k + 1}], k + 1>>] ELSE g[S]]
  <2>3. \A S \in SUBSET (1..(k + 1)) : S \ {k + 1} \in SUBSET (1..k)
    OBVIOUS
  <2>4. h \in [SUBSET (1..(k + 1)) -> A]
    <3> SUFFICES ASSUME NEW S \in SUBSET (1..(k + 1)) PROVE h[S] \in A
      OBVIOUS
    <3>1. CASE k + 1 \in S
      <4>1. g[S \ {k + 1}] \in A
        BY <2>2, <2>3
      <4> QED BY <2>1, <3>1, <4>1
    <3>2. CASE k + 1 \notin S
      <4>1. S \in SUBSET (1..k)
        BY <2>3, <3>2
      <4> QED BY <3>2, <4>1
    <3> QED BY <3>1, <3>2
  <2>5. ASSUME NEW S \in SUBSET (1..(k + 1))
        PROVE  h[S] = IF S = {} THEN base ELSE F[<<h[S \ {Max(S)}], Max(S)>>]
    <3>1. CASE k + 1 \in S
      <4>1. Max(S) = k + 1
        BY <3>1, k + 1 \in Nat, MaxIsTop
      <4>2. S \ {k + 1} \in SUBSET (1..(k + 1)) /\ k + 1 \notin S \ {k + 1}
        OBVIOUS
      <4>3. h[S \ {k + 1}] = g[S \ {k + 1}]
        BY <4>2
      <4> QED BY <3>1, <4>1, <4>3
    <3>2. CASE k + 1 \notin S
      <4>1. S \in SUBSET (1..k)
        BY <2>3, <3>2
      <4>2. h[S] = g[S] /\ h[S \ {Max(S)}] = g[S \ {Max(S)}]
        BY <3>2
      <4> QED BY <2>2, <4>1, <4>2 DEF Folds
    <3> QED BY <3>1, <3>2
  <2> QED
    BY <2>4, <2>5 DEF Folds
<1> HIDE DEF P
<1>3. T \in SUBSET Nat /\ 0 \in T /\ \A k \in T : k + 1 \in T
  BY <1>1, <1>2
<1>4. T = Nat
  <2> HIDE DEF T
  <2> QED BY <1>3, Induct
<1>5. P(n)
  BY <1>4
<1> QED
  BY <1>5 DEF P

\* Induction in the order in which a fold takes its elements.
LEMMA FoldInduct ==
    ASSUME NEW n \in Nat, NEW Q \in SUBSET SUBSET (1..n), {} \in Q,
           \A S \in SUBSET (1..n) : S # {} /\ S \ {Max(S)} \in Q => S \in Q
    PROVE  Q = SUBSET (1..n)
<1> DEFINE P(k) == \A S \in SUBSET (1..k) : S \in SUBSET (1..n) => S \in Q
<1> DEFINE T == {k \in Nat : P(k)}
<1>1. P(0)
  <2>1. \A S \in SUBSET (1..0) : S = {}
    OBVIOUS
  <2> QED BY <2>1
<1>2. ASSUME NEW k \in Nat, P(k) PROVE P(k + 1)
  <2> SUFFICES ASSUME NEW S \in SUBSET (1..(k + 1)), S \in SUBSET (1..n), S # {}
               PROVE  S \in Q
    OBVIOUS
  <2>1. Max(S) \in S /\ \A x \in S : x <= Max(S)
    BY MaxIs
  <2>2. ASSUME NEW x \in S \ {Max(S)} PROVE x \in 1..k
    <3>1. x \in 1..(k + 1) /\ Max(S) \in 1..(k + 1) /\ x <= Max(S) /\ x # Max(S)
      BY <2>1
    <3> QED BY <3>1
  <2> QED BY <1>2, <2>2
<1> HIDE DEF P
<1>3. T \in SUBSET Nat /\ 0 \in T /\ \A k \in T : k + 1 \in T
  BY <1>1, <1>2
<1>4. T = Nat
  <2> HIDE DEF T
  <2> QED BY <1>3, Induct
<1>5. P(n)
  BY <1>4
<1> QED
  BY <1>5 DEF P

-----------------------------------------------------------------------------
(* The first n weights taken together, as that fold takes them *)

Weigh(w, n) ==
    (CHOOSE g : g = [S \in SUBSET (1..n) |->
                        IF S = {} THEN 0 ELSE g[S \ {Max(S)}] + w[Max(S)]])[1..n]

LEMMA WeighIs ==
    ASSUME NEW n \in Nat, NEW w, \A i \in 1..n : w[i] \in Nat
    PROVE  \E g \in [SUBSET (1..n) -> Nat] :
               /\ g[{}] = 0
               /\ \A S \in SUBSET (1..n) : S # {} => g[S] = g[S \ {Max(S)}] + w[Max(S)]
               /\ Weigh(w, n) = g[1..n]
<1> DEFINE D == SUBSET (1..n)
           F == [p \in Nat \X (1..n) |-> p[1] + w[p[2]]]
           All(g) == [S \in D |-> IF S = {} THEN 0 ELSE g[S \ {Max(S)}] + w[Max(S)]]
<1>1. F \in [Nat \X (1..n) -> Nat]
  OBVIOUS
<1>2. PICK g \in [D -> Nat] : Folds(g, n, 0, F)
  <2> HIDE DEF F
  <2> QED BY <1>1, FoldExists
<1>3. g = All(g)
  <2>1. ASSUME NEW S \in D, S # {} PROVE g[S] = g[S \ {Max(S)}] + w[Max(S)]
    <3>1. Max(S) \in 1..n
      BY <2>1, MaxIs
    <3>2. S \ {Max(S)} \in D
      OBVIOUS
    <3>3. g[S \ {Max(S)}] \in Nat
      BY <3>2
    <3>4. g[S] = F[<<g[S \ {Max(S)}], Max(S)>>]
      BY <1>2, <2>1 DEF Folds
    <3> QED BY <3>1, <3>3, <3>4
  <2>2. {} \in D /\ g[{}] = 0
    BY <1>2 DEF Folds
  <2> QED BY <2>1, <2>2
<1> DEFINE c == CHOOSE h : h = All(h)
<1>4. c = All(c)
  BY <1>3
<1>5. Weigh(w, n) = c[1..n]
  BY DEF Weigh
<1> HIDE DEF c
<1>6. /\ c[{}] = 0 /\ DOMAIN c = D /\ c = [S \in D |-> c[S]]
      /\ \A S \in D : S # {} => c[S] = c[S \ {Max(S)}] + w[Max(S)]
  BY <1>4
<1>7. \A S \in D : c[S] \in Nat
  <2> DEFINE Q == {S \in D : c[S] \in Nat}
  <2>1. {} \in Q
    BY <1>6
  <2>2. ASSUME NEW S \in D, S # {}, S \ {Max(S)} \in Q PROVE S \in Q
    <3>1. Max(S) \in 1..n
      BY <2>2, MaxIs
    <3>2. c[S] = c[S \ {Max(S)}] + w[Max(S)] /\ c[S \ {Max(S)}] \in Nat
      BY <1>6, <2>2
    <3>3. w[Max(S)] \in Nat
      BY <3>1
    <3>4. c[S] \in Nat
      BY <3>2, <3>3
    <3> QED BY <3>4
  <2>3. Q = D
    <3> HIDE DEF Q
    <3>1. Q \in SUBSET D
      BY DEF Q
    <3> QED BY <2>1, <2>2, <3>1, FoldInduct
  <2> QED BY <2>3
<1>8. c \in [D -> Nat]
  BY <1>6, <1>7
<1> QED
  BY <1>5, <1>6, <1>8

LEMMA WeighTyped ==
    ASSUME NEW n \in Nat, NEW w, \A i \in 1..n : w[i] \in Nat PROVE Weigh(w, n) \in Nat
<1>1. PICK g \in [SUBSET (1..n) -> Nat] : Weigh(w, n) = g[1..n]
  BY WeighIs
<1> QED
  BY <1>1

LEMMA WeighNone == ASSUME NEW w PROVE Weigh(w, 0) = 0
<1>1. \A i \in 1..0 : w[i] \in Nat
  OBVIOUS
<1>2. PICK g \in [SUBSET (1..0) -> Nat] : g[{}] = 0 /\ Weigh(w, 0) = g[1..0]
  BY <1>1, WeighIs
<1> QED
  BY <1>2

LEMMA WeighOneMore ==
    ASSUME NEW n \in Nat, NEW w, \A i \in 1..(n + 1) : w[i] \in Nat
    PROVE  Weigh(w, n + 1) = Weigh(w, n) + w[n + 1]
<1>1. PICK g \in [SUBSET (1..n) -> Nat] :
          /\ g[{}] = 0
          /\ \A S \in SUBSET (1..n) : S # {} => g[S] = g[S \ {Max(S)}] + w[Max(S)]
          /\ Weigh(w, n) = g[1..n]
  <2>1. \A i \in 1..n : w[i] \in Nat
    OBVIOUS
  <2> QED BY <2>1, WeighIs
<1>2. PICK h \in [SUBSET (1..(n + 1)) -> Nat] :
          /\ h[{}] = 0
          /\ \A S \in SUBSET (1..(n + 1)) : S # {} => h[S] = h[S \ {Max(S)}] + w[Max(S)]
          /\ Weigh(w, n + 1) = h[1..(n + 1)]
  BY n + 1 \in Nat, WeighIs
<1> DEFINE Q == {S \in SUBSET (1..n) : h[S] = g[S]}
<1>3. {} \in Q
  BY <1>1, <1>2
<1>4. ASSUME NEW S \in SUBSET (1..n), S # {}, S \ {Max(S)} \in Q PROVE S \in Q
  <2>1. S \in SUBSET (1..(n + 1))
    OBVIOUS
  <2> QED BY <1>1, <1>2, <1>4, <2>1
<1>5. Q = SUBSET (1..n)
  <2>1. Q \in SUBSET SUBSET (1..n)
    OBVIOUS
  <2> HIDE DEF Q
  <2> QED BY <1>3, <1>4, <2>1, FoldInduct
<1>6. h[1..n] = g[1..n]
  BY <1>5
<1>7. n + 1 \in 1..(n + 1) /\ (1..(n + 1)) \ {n + 1} = 1..n
  OBVIOUS
<1>8. Max(1..(n + 1)) = n + 1
  BY <1>7, n + 1 \in Nat, MaxIsTop
<1>9. h[1..(n + 1)] = h[1..n] + w[n + 1]
  <2>1. 1..(n + 1) \in SUBSET (1..(n + 1)) /\ 1..(n + 1) # {}
    BY <1>7
  <2>2. h[1..(n + 1)] = h[(1..(n + 1)) \ {Max(1..(n + 1))}] + w[Max(1..(n + 1))]
    BY <1>2, <2>1
  <2> QED BY <1>7, <1>8, <2>2
<1> QED
  BY <1>1, <1>2, <1>6, <1>9

LEMMA WeighSame ==
    ASSUME NEW n \in Nat, NEW w, NEW x, \A i \in 1..n : w[i] \in Nat /\ w[i] = x[i]
    PROVE  Weigh(w, n) = Weigh(x, n)
<1> DEFINE T == {k \in Nat : k <= n => Weigh(w, k) = Weigh(x, k)}
<1>1. 0 \in T
  BY WeighNone
<1>2. ASSUME NEW k \in T PROVE k + 1 \in T
  <2> SUFFICES ASSUME k + 1 <= n PROVE Weigh(w, k + 1) = Weigh(x, k + 1)
    OBVIOUS
  <2>1. \A i \in 1..(k + 1) : w[i] \in Nat /\ x[i] \in Nat /\ w[i] = x[i]
    OBVIOUS
  <2>2. Weigh(w, k + 1) = Weigh(w, k) + w[k + 1] /\ Weigh(x, k + 1) = Weigh(x, k) + x[k + 1]
    BY <2>1, WeighOneMore
  <2>3. k + 1 \in 1..(k + 1)
    OBVIOUS
  <2> QED BY <2>1, <2>2, <2>3
<1>3. T = Nat
  <2>1. T \in SUBSET Nat
    OBVIOUS
  <2> HIDE DEF T
  <2> QED BY <1>1, <1>2, <2>1, Induct
<1> QED
  BY <1>3

\* Weights of which the last j are all c.
LEMMA WeighTail ==
    ASSUME NEW n \in Nat, NEW w, \A i \in 1..n : w[i] \in Nat, NEW c \in Nat,
           NEW j \in 0..n, \A i \in (n - j + 1)..n : w[i] = c
    PROVE  Weigh(w, n) = Weigh(w, n - j) + c * j
<1> DEFINE m == n - j
           T == {k \in Nat : k <= j => Weigh(w, m + k) = Weigh(w, m) + c * k}
<1>1. m \in Nat /\ m + j = n /\ j \in Nat
  OBVIOUS
<1>2. \A i \in (m + 1)..n : w[i] = c
  OBVIOUS
<1> HIDE DEF m
<1>3. Weigh(w, m) \in Nat
  BY <1>1, WeighTyped
<1>4. 0 \in T
  BY <1>1, <1>3
<1>5. ASSUME NEW k \in T PROVE k + 1 \in T
  <2> SUFFICES ASSUME k + 1 <= j PROVE Weigh(w, m + (k + 1)) = Weigh(w, m) + c * (k + 1)
    OBVIOUS
  <2>1. m + k \in Nat /\ m + (k + 1) = (m + k) + 1 /\ (m + k) + 1 \in (m + 1)..n
    BY <1>1
  <2>2. Weigh(w, (m + k) + 1) = Weigh(w, m + k) + c
    BY <1>1, <1>2, <2>1, WeighOneMore
  <2>3. Weigh(w, m + k) = Weigh(w, m) + c * k
    OBVIOUS
  <2>4. c * (k + 1) = c * k + c /\ c * k \in Nat
    OBVIOUS
  <2> QED BY <1>3, <2>1, <2>2, <2>3, <2>4
<1>6. T = Nat
  <2>1. T \in SUBSET Nat
    OBVIOUS
  <2> HIDE DEF T
  <2> QED BY <1>4, <1>5, <2>1, Induct
<1>7. Weigh(w, m + j) = Weigh(w, m) + c * j
  BY <1>1, <1>6
<1> QED
  BY <1>1, <1>7 DEF m

LEMMA WeighAll ==
    ASSUME NEW n \in Nat, NEW w, NEW c \in Nat, \A i \in 1..n : w[i] = c
    PROVE  Weigh(w, n) = c * n
<1>1. PICK j \in 0..n : j = n
  OBVIOUS
<1>2. (\A i \in 1..n : w[i] \in Nat) /\ (\A i \in (n - j + 1)..n : w[i] = c)
  BY <1>1
<1>3. Weigh(w, n) = Weigh(w, n - j) + c * j
  BY <1>2, WeighTail
<1>4. n - j = 0 /\ c * n \in Nat
  BY <1>1
<1> QED
  BY <1>1, <1>3, <1>4, WeighNone

\* What has entries has weight, when they all have.
LEMMA WeighPositive ==
    ASSUME NEW n \in Nat \ {0}, NEW w, \A i \in 1..n : w[i] \in Nat \ {0}
    PROVE  Weigh(w, n) > 0
<1>1. n - 1 \in Nat /\ (n - 1) + 1 = n /\ n \in 1..n
  OBVIOUS
<1>2. Weigh(w, (n - 1) + 1) = Weigh(w, n - 1) + w[(n - 1) + 1]
  BY <1>1, WeighOneMore
<1>3. Weigh(w, n - 1) \in Nat
  BY <1>1, WeighTyped
<1> QED
  BY <1>1, <1>2, <1>3

\* The length of a buffer is what its entries weigh, a number.
LEMMA TotalMsIs ==
    ASSUME NEW E, \A e \in E : e.ms \in Nat, NEW s \in Seq(E),
           NEW w, \A i \in 1..Len(s) : w[i] = s[i].ms
    PROVE  TotalMs(s) = Weigh(w, Len(s))
<1> DEFINE n == Len(s)
           x == [i \in 1..n |-> s[i].ms]
<1>1. n \in Nat /\ DOMAIN s = 1..n /\ \A i \in 1..n : s[i].ms \in Nat
  OBVIOUS
<1> DEFINE Lasting(g) == [S \in SUBSET (1..n) |->
                             IF S = {} THEN 0 ELSE g[S \ {Max(S)}] + s[Max(S)].ms]
           All(g) == [S \in SUBSET (1..n) |-> IF S = {} THEN 0 ELSE g[S \ {Max(S)}] + x[Max(S)]]
<1>2. TotalMs(s) = (CHOOSE g : g = Lasting(g))[1..n]
  BY <1>1 DEF TotalMs, FoldLeft, MapThenFoldSet
<1>3. Weigh(x, n) = (CHOOSE g : g = All(g))[1..n]
  BY DEF Weigh
<1>4. ASSUME NEW g PROVE Lasting(g) = All(g)
  <2>1. \A S \in SUBSET (1..n) : S # {} => Max(S) \in 1..n
    BY <1>1, MaxIs
  <2>2. \A S \in SUBSET (1..n) : S # {} => s[Max(S)].ms = x[Max(S)]
    BY <2>1
  <2> HIDE DEF x, n
  <2> QED BY <2>2
<1> HIDE DEF Lasting, All
<1>5. TotalMs(s) = Weigh(x, n)
  BY Zenon, <1>2, <1>3, <1>4
<1>6. \A i \in 1..n : x[i] \in Nat /\ x[i] = w[i]
  BY <1>1
<1> QED
  BY <1>1, <1>5, <1>6, WeighSame

LEMMA TotalMsTyped ==
    ASSUME NEW E, \A e \in E : e.ms \in Nat, NEW s \in Seq(E) PROVE TotalMs(s) \in Nat
<1> DEFINE w == [i \in 1..Len(s) |-> s[i].ms]
<1>1. \A i \in 1..Len(s) : w[i] = s[i].ms /\ w[i] \in Nat
  OBVIOUS
<1> HIDE DEF w
<1>2. TotalMs(s) = Weigh(w, Len(s))
  BY <1>1, TotalMsIs
<1>3. Weigh(w, Len(s)) \in Nat
  BY <1>1, WeighTyped
<1> QED
  BY <1>2, <1>3

LEMMA TotalMsEmpty == TotalMs(<<>>) = 0
<1> DEFINE Sum(g) == [S \in {{}} |-> IF S = {} THEN 0 ELSE g[S \ {Max(S)}] + <<>>[Max(S)].ms]
           g0 == [S \in {{}} |-> 0]
<1>1. DOMAIN <<>> = {} /\ SUBSET {} = {{}}
  OBVIOUS
<1>2. TotalMs(<<>>) = (CHOOSE g : g = Sum(g))[{}]
  BY <1>1 DEF TotalMs, FoldLeft, MapThenFoldSet
<1>3. g0 = Sum(g0)
  OBVIOUS
<1>4. (CHOOSE g : g = Sum(g)) = Sum(CHOOSE g : g = Sum(g))
  BY <1>3
<1> QED
  BY <1>2, <1>4

-----------------------------------------------------------------------------
(* Buffers *)

LEMMA GreatestLength ==
    ASSUME NEW E, NEW n \in Nat, NEW Q, Q # {}, \A q \in Q : q \in Seq(E) /\ Len(q) <= n
    PROVE  \E q \in Q : \A p \in Q : Len(p) <= Len(q)
<1> DEFINE T == {Len(q) : q \in Q}
<1>1. T \in SUBSET (0..n) /\ T # {}
  <2>1. \A q \in Q : Len(q) \in 0..n
    OBVIOUS
  <2> QED BY <2>1
<1>2. PICK x \in T : \A y \in T : y <= x
  BY <1>1, GreatestExists
<1> QED
  BY <1>2

LEMMA LeastLength ==
    ASSUME NEW E, NEW Q, Q # {}, \A q \in Q : q \in Seq(E)
    PROVE  \E q \in Q : \A p \in Q : Len(q) <= Len(p)
<1> DEFINE T == {Len(q) : q \in Q}
<1>1. T \in SUBSET Nat /\ T # {}
  <2>1. \A q \in Q : Len(q) \in Nat
    OBVIOUS
  <2> QED BY <2>1
<1>2. PICK x \in T : \A y \in T : x <= y
  BY <1>1, LeastExists
<1> QED
  BY <1>2

\* The newest entries of s.
Tails(q, s) ==
    /\ Len(q) <= Len(s)
    /\ \A i \in 1..Len(q) : q[i] = s[Len(s) - Len(q) + i]

LEMMA SuffixIs ==
    ASSUME NEW E, NEW s \in Seq(E), NEW q \in Suffixes(s) PROVE q \in Seq(E) /\ Tails(q, s)
<1>1. CASE q = <<>>
  BY <1>1 DEF Tails
<1>2. CASE q # <<>>
  <2>1. PICK l \in 1..Len(s) : q = SubSeq(s, l, Len(s))
    BY <1>2 DEF Suffixes
  <2>2. \A i \in l..Len(s) : s[i] \in E
    OBVIOUS
  <2>3. /\ q \in Seq(E) /\ Len(q) = Len(s) - l + 1
        /\ \A i \in 1..(Len(s) - l + 1) : q[i] = s[l + i - 1]
    BY <2>1, <2>2, SubSeqProperties
  <2> QED BY <2>3 DEF Tails
<1> QED
  BY <1>1, <1>2

\* Push keeps newest entries, as many as the limit allows.
LEMMA PushIs ==
    ASSUME NEW E, \A x \in E : x.ms \in Nat, NEW s \in Seq(E), NEW e \in E, NEW limit \in Nat
    PROVE  /\ Push(s, e, limit) \in Seq(E)
           /\ TotalMs(Push(s, e, limit)) <= limit
           /\ Tails(Push(s, e, limit), Append(s, e))
           /\ \A q \in Suffixes(Append(s, e)) :
                  TotalMs(q) <= limit => Len(q) <= Len(Push(s, e, limit))
<1> DEFINE within == {kept \in Suffixes(Append(s, e)) : TotalMs(kept) <= limit}
<1>1. Append(s, e) \in Seq(E)
  OBVIOUS
<1>2. \A q \in within : q \in Seq(E) /\ Tails(q, Append(s, e))
  BY <1>1, SuffixIs
<1>3. \A q \in within : q \in Seq(E) /\ Len(q) <= Len(s) + 1
  BY <1>2 DEF Tails
<1>4. <<>> \in within
  BY TotalMsEmpty DEF Suffixes
<1>5. \E q \in within : \A p \in within : Len(p) <= Len(q)
  <2> HIDE DEF within
  <2> QED BY <1>3, <1>4, Len(s) + 1 \in Nat, GreatestLength
<1>6. /\ Push(s, e, limit) \in within
      /\ \A q \in within : Len(q) <= Len(Push(s, e, limit))
  BY <1>5 DEF Push
<1> QED
  BY <1>2, <1>6

\* What is handed on of a tail is its beginning.
LEMMA PrefixFramesIs ==
    ASSUME NEW E, NEW s \in Seq(E), NEW ms
    PROVE  \E l \in 0..Len(s) : PrefixFrames(s, ms) = SubSeq(s, 1, l)
<1> DEFINE enough == {p \in Prefixes(s) : TotalMs(p) >= ms} \cup {s}
<1>1. s = SubSeq(s, 1, Len(s))
  BY SubSeqFull
<1>2. \A p \in enough : \E l \in 0..Len(s) : p = SubSeq(s, 1, l)
  BY <1>1 DEF Prefixes
<1>3. \A l \in 0..Len(s) : SubSeq(s, 1, l) \in Seq(E)
  <2> TAKE l \in 0..Len(s)
  <2>1. \A i \in 1..l : s[i] \in E
    OBVIOUS
  <2> QED BY <2>1, SubSeqProperties
<1>4. \E p \in enough : \A q \in enough : Len(p) <= Len(q)
  <2>1. enough # {} /\ \A p \in enough : p \in Seq(E)
    BY <1>2, <1>3
  <2> HIDE DEF enough
  <2> QED BY <2>1, LeastLength
<1>5. PrefixFrames(s, ms) \in enough
  BY <1>4 DEF PrefixFrames
<1> QED
  BY <1>2, <1>5

\* Frames in the order they were heard, after lo and up to hi.
Ascending(q, lo, hi) ==
    /\ q \in Seq(Frames)
    /\ \A i \in 1..Len(q) : lo < q[i].n /\ q[i].n <= hi
    /\ \A i, j \in 1..Len(q) : i < j => q[i].n < q[j].n

LEMMA FramesLast == \A x \in Frames : x.ms \in Nat /\ x.n \in Nat
  BY VadAssumption DEF Frames

LEMMA TotalMsAppend ==
    ASSUME NEW s \in Seq(Frames), NEW f \in Frames
    PROVE  TotalMs(Append(s, f)) = TotalMs(s) + f.ms /\ TotalMs(s) \in Nat
<1> DEFINE n == Len(s)
           a == Append(s, f)
           w == [i \in 1..(n + 1) |-> a[i].ms]
<1>1. /\ n \in Nat /\ a \in Seq(Frames) /\ Len(a) = n + 1 /\ a[n + 1] = f
      /\ \A i \in 1..n : a[i] = s[i]
  OBVIOUS
<1> HIDE DEF a
<1>2. /\ \A i \in 1..(n + 1) : w[i] = a[i].ms /\ w[i] \in Nat
      /\ \A i \in 1..n : w[i] = s[i].ms
  BY <1>1, FramesLast
<1> HIDE DEF w
<1>3. TotalMs(a) = Weigh(w, n + 1) /\ TotalMs(s) = Weigh(w, n)
  BY <1>1, <1>2, FramesLast, TotalMsIs
<1>4. Weigh(w, n + 1) = Weigh(w, n) + w[n + 1]
  BY <1>1, <1>2, WeighOneMore
<1>5. w[n + 1] = f.ms
  BY <1>1, <1>2
<1>6. TotalMs(s) \in Nat
  BY FramesLast, TotalMsTyped
<1> QED
  BY <1>3, <1>4, <1>5, <1>6 DEF a

LEMMA TailsAscend ==
    ASSUME NEW lo \in Nat, NEW hi \in Nat, NEW a, Ascending(a, lo, hi),
           NEW p \in Seq(Frames), Tails(p, a)
    PROVE  Ascending(p, lo, hi)
<1>1. a \in Seq(Frames) /\ Len(a) \in Nat /\ Len(p) \in Nat /\ Len(p) <= Len(a)
  BY DEF Ascending, Tails
<1>2. ASSUME NEW i \in 1..Len(p)
      PROVE  Len(a) - Len(p) + i \in 1..Len(a) /\ p[i] = a[Len(a) - Len(p) + i]
  BY <1>1 DEF Tails
<1>3. \A i \in 1..Len(p) : lo < p[i].n /\ p[i].n <= hi
  BY <1>2 DEF Ascending
<1>4. ASSUME NEW i \in 1..Len(p), NEW j \in 1..Len(p), i < j PROVE p[i].n < p[j].n
  <2>1. Len(a) - Len(p) + i < Len(a) - Len(p) + j
    BY <1>1, <1>4
  <2> QED BY <1>2, <2>1 DEF Ascending
<1> QED
  BY <1>3, <1>4 DEF Ascending

LEMMA AppendAscends ==
    ASSUME NEW lo \in Nat, NEW hi \in Nat, NEW q, Ascending(q, lo, hi),
           NEW f \in Frames, lo <= hi, hi < f.n
    PROVE  Ascending(Append(q, f), lo, f.n)
<1>1. q \in Seq(Frames)
  BY DEF Ascending
<1> DEFINE a == Append(q, f)
<1>2. /\ a \in Seq(Frames) /\ Len(a) = Len(q) + 1 /\ a[Len(q) + 1] = f
      /\ \A i \in 1..Len(q) : a[i] = q[i]
  BY <1>1
<1> HIDE DEF a
<1>3. Len(q) \in Nat /\ f.n \in Nat /\ \A i \in 1..Len(q) : q[i].n \in Nat
  BY <1>1, FramesLast
<1>4. ASSUME NEW i \in 1..Len(a) PROVE lo < a[i].n /\ a[i].n <= f.n
  <2>1. CASE i \in 1..Len(q)
    BY <1>2, <1>3, <2>1 DEF Ascending
  <2>2. CASE i = Len(q) + 1
    BY <1>2, <1>3, <2>2
  <2> QED BY <1>2, <1>3, <2>1, <2>2
<1>5. ASSUME NEW i \in 1..Len(a), NEW j \in 1..Len(a), i < j PROVE a[i].n < a[j].n
  <2>1. i \in 1..Len(q) /\ a[i].n = q[i].n
    BY <1>2, <1>3, <1>5
  <2>2. CASE j \in 1..Len(q)
    BY <1>2, <1>5, <2>1, <2>2 DEF Ascending
  <2>3. CASE j = Len(q) + 1
    <3>1. q[i].n <= hi
      BY <2>1 DEF Ascending
    <3> QED BY <1>2, <1>3, <2>1, <2>3, <3>1
  <2> QED BY <1>2, <1>3, <2>2, <2>3
<1>6. Ascending(a, lo, f.n)
  BY <1>2, <1>4, <1>5 DEF Ascending
<1> QED
  BY <1>6 DEF a

LEMMA PushAscends ==
    ASSUME NEW lo \in Nat, NEW hi \in Nat, NEW q, Ascending(q, lo, hi),
           NEW f \in Frames, lo <= hi, hi < f.n, NEW limit \in Nat
    PROVE  /\ Ascending(Push(q, f, limit), lo, f.n)
           /\ TotalMs(Push(q, f, limit)) <= limit
           /\ Push(q, f, limit) # <<>> => Push(q, f, limit)[Len(Push(q, f, limit))] = f
<1> DEFINE p == Push(q, f, limit)
           a == Append(q, f)
<1>1. q \in Seq(Frames)
  BY DEF Ascending
<1>2. p \in Seq(Frames) /\ TotalMs(p) <= limit /\ Tails(p, a)
  BY <1>1, FramesLast, PushIs
<1>3. a \in Seq(Frames) /\ a[Len(a)] = f /\ Len(a) \in Nat
  BY <1>1
<1>4. Ascending(a, lo, f.n)
  BY AppendAscends
<1> HIDE DEF p, a
<1>5. Ascending(p, lo, f.n)
  BY <1>2, <1>4, FramesLast, TailsAscend
<1>6. ASSUME p # <<>> PROVE p[Len(p)] = f
  <2>1. Len(p) \in 1..Len(p) /\ Len(a) - Len(p) + Len(p) = Len(a)
    BY <1>2, <1>3, <1>6
  <2> QED BY <1>2, <1>3, <2>1 DEF Tails
<1> QED
  BY <1>2, <1>5, <1>6 DEF p

\* A false start's audio goes behind the pre-roll in order, and within its limit.
LEMMA AppendAllAscends ==
    ASSUME NEW lo \in Nat, NEW mid \in Nat, NEW hi \in Nat, lo <= mid, mid <= hi,
           NEW q, Ascending(q, lo, mid), NEW o, Ascending(o, mid, hi),
           NEW limit \in Nat, TotalMs(q) <= limit
    PROVE  /\ Ascending(AppendAll(q, o, limit), lo, hi)
           /\ TotalMs(AppendAll(q, o, limit)) <= limit
<1> DEFINE n == Len(o)
           D == SUBSET (1..n)
           F == [p \in Seq(Frames) \X (1..n) |-> Push(p[1], o[p[2]], limit)]
           All(g) == [S \in D |-> IF S = {} THEN q
                                  ELSE Push(g[S \ {Max(S)}], o[Max(S)], limit)]
<1>1. /\ q \in Seq(Frames) /\ o \in Seq(Frames) /\ n \in Nat /\ DOMAIN o = 1..n
      /\ \A i \in 1..n : o[i] \in Frames
  BY DEF Ascending
<1>2. F \in [Seq(Frames) \X (1..n) -> Seq(Frames)]
  BY <1>1, FramesLast, PushIs
<1>3. AppendAll(q, o, limit) = (CHOOSE g : g = All(g))[1..n]
  BY <1>1 DEF AppendAll, FoldLeft, MapThenFoldSet
<1>4. PICK g \in [D -> Seq(Frames)] : Folds(g, n, q, F)
  <2> HIDE DEF F, n
  <2> QED BY <1>1, <1>2, FoldExists
<1>5. g = All(g)
  <2>1. ASSUME NEW S \in D, S # {} PROVE g[S] = Push(g[S \ {Max(S)}], o[Max(S)], limit)
    <3>1. Max(S) \in 1..n
      BY <1>1, <2>1, MaxIs
    <3>2. S \ {Max(S)} \in D
      OBVIOUS
    <3>3. g[S \ {Max(S)}] \in Seq(Frames)
      BY <3>2
    <3>4. g[S] = F[<<g[S \ {Max(S)}], Max(S)>>]
      BY <1>4, <2>1 DEF Folds
    <3> QED BY <3>1, <3>3, <3>4
  <2>2. {} \in D /\ g[{}] = q
    BY <1>4 DEF Folds
  <2> QED BY <2>1, <2>2
<1> DEFINE c == CHOOSE h : h = All(h)
<1>6. c = All(c)
  BY <1>5
<1> HIDE DEF c
<1> DEFINE Top(S) == IF S = {} THEN mid ELSE o[Max(S)].n
           Good(S) == Ascending(c[S], lo, Top(S)) /\ TotalMs(c[S]) <= limit
           Q == {S \in D : Good(S)}
<1>7. {} \in Q
  BY <1>6
<1>8. ASSUME NEW S \in D, S # {}, Good(S \ {Max(S)}) PROVE Good(S)
  <2> DEFINE R == S \ {Max(S)}
  <2>1. Max(S) \in S /\ Max(S) \in 1..n /\ \A x \in S : x <= Max(S)
    BY <1>1, <1>8, MaxIs
  <2>2. c[S] = Push(c[R], o[Max(S)], limit)
    BY <1>6, <1>8
  <2>3. o[Max(S)] \in Frames /\ o[Max(S)].n \in Nat
    BY <1>1, <2>1, FramesLast
  <2>4. lo <= Top(R) /\ Top(R) < o[Max(S)].n /\ Top(R) \in Nat
    <3>1. CASE R = {}
      BY <2>1, <2>3, <3>1 DEF Ascending
    <3>2. CASE R # {}
      <4>1. Max(R) \in R
        BY <1>1, <3>2, MaxIs
      <4> DEFINE x == Max(R)
      <4> HIDE DEF x
      <4>2. x \in S /\ x # Max(S)
        BY <4>1 DEF x
      <4>3. x \in 1..n /\ x < Max(S)
        BY <2>1, <4>2
      <4>4. o[x].n < o[Max(S)].n /\ mid < o[x].n /\ o[x].n \in Nat
        BY <1>1, <2>1, <4>3, FramesLast DEF Ascending
      <4> QED BY <2>3, <3>2, <4>4 DEF x
    <3> QED BY <3>1, <3>2
  <2>5. Ascending(c[R], lo, Top(R))
    BY <1>8
  <2> HIDE DEF Top, R
  <2>6. /\ Ascending(Push(c[R], o[Max(S)], limit), lo, o[Max(S)].n)
        /\ TotalMs(Push(c[R], o[Max(S)], limit)) <= limit
    BY <2>3, <2>4, <2>5, PushAscends
  <2> QED BY <1>8, <2>2, <2>6 DEF Top
<1>9. 1..n \in Q
  <2> HIDE DEF Good
  <2>1. Q \in SUBSET D /\ \A S \in D : S # {} /\ S \ {Max(S)} \in Q => S \in Q
    BY <1>8
  <2>2. Q = D
    <3> HIDE DEF Q
    <3> QED BY <1>1, <1>7, <2>1, FoldInduct
  <2> QED BY <2>2
<1>10. Top(1..n) <= hi /\ Top(1..n) \in Nat
  <2>1. CASE n = 0
    BY <2>1
  <2>2. CASE n # 0
    <3>1. n \in 1..n
      BY <1>1, <2>2
    <3>2. Max(1..n) = n
      <4> HIDE DEF n
      <4> QED BY <1>1, <3>1, MaxIsTop
    <3> QED BY <1>1, <3>1, <3>2, FramesLast DEF Ascending
  <2> QED BY <2>1, <2>2
<1>11. Ascending(c[1..n], lo, hi) /\ TotalMs(c[1..n]) <= limit
  <2>1. Ascending(c[1..n], lo, Top(1..n)) /\ TotalMs(c[1..n]) <= limit
    BY <1>9
  <2> HIDE DEF Top
  <2>2. \A i \in 1..Len(c[1..n]) : c[1..n][i].n \in Nat
    BY <2>1, FramesLast DEF Ascending
  <2> QED BY <1>10, <2>1, <2>2 DEF Ascending
<1> QED
  BY <1>3, <1>11 DEF c

-----------------------------------------------------------------------------
(* The newest frame handed on *)

NewestIn(t) == LET frames == {i \in DOMAIN t : t[i] # End}
               IN IF frames = {} THEN 0 ELSE t[Max(frames)]

Packet == Nat \cup {End}

LEMMA NewestOfFrames ==
    ASSUME NEW t \in Seq(Packet), NEW p \in Seq(Nat)
    PROVE  NewestIn(t \o p) = IF p = <<>> THEN NewestIn(t) ELSE p[Len(p)]
<1>1. CASE p = <<>>
  <2>1. t \o p = t
    BY <1>1
  <2> QED BY <1>1, <2>1
<1>2. CASE p # <<>>
  <2> DEFINE q == t \o p
             frames == {i \in DOMAIN q : q[i] # End}
  <2>1. /\ Len(q) \in Nat /\ DOMAIN q = 1..Len(q) /\ Len(q) \in 1..Len(q)
        /\ q[Len(q)] = p[Len(p)] /\ p[Len(p)] \in Nat
    BY <1>2 DEF Packet
  <2> HIDE DEF q
  <2>2. frames \in SUBSET (1..Len(q)) /\ Len(q) \in frames
    BY <2>1, VadAssumption
  <2>3. Max(frames) = Len(q)
    <3> HIDE DEF frames
    <3> QED BY <2>1, <2>2, MaxIsTop
  <2>4. NewestIn(q) = q[Len(q)]
    BY <2>2, <2>3 DEF NewestIn
  <2> QED BY <1>2, <2>1, <2>4 DEF q
<1> QED
  BY <1>1, <1>2

LEMMA NewestBeforeEnd ==
    ASSUME NEW t \in Seq(Packet) PROVE NewestIn(Append(t, End)) = NewestIn(t)
<1> DEFINE q == Append(t, End)
<1>1. /\ DOMAIN t = 1..Len(t) /\ DOMAIN q = 1..(Len(t) + 1) /\ q[Len(t) + 1] = End
      /\ Len(t) \in Nat /\ \A i \in 1..Len(t) : q[i] = t[i]
  BY DEF Packet
<1> HIDE DEF q
<1>2. {i \in DOMAIN q : q[i] # End} = {i \in DOMAIN t : t[i] # End}
  BY <1>1
<1>3. ASSUME {i \in DOMAIN t : t[i] # End} # {}
      PROVE  Max({i \in DOMAIN t : t[i] # End}) \in 1..Len(t)
  <2> DEFINE S == {i \in DOMAIN t : t[i] # End}
  <2>1. S \in SUBSET (1..Len(t))
    BY <1>1
  <2> HIDE DEF S
  <2>2. S # {} => Max(S) \in S
    BY <1>1, <2>1, MaxIs
  <2> QED BY <1>3, <2>1, <2>2 DEF S
<1>4. NewestIn(q) = NewestIn(t)
  BY <1>1, <1>2, <1>3 DEF NewestIn
<1> QED
  BY <1>4 DEF q

-----------------------------------------------------------------------------
(* The inductive invariant *)

States == {"idle", "candidateStart", "speaking", "candidateEnd"}

Fields ==
    [state: States, preRoll: Seq(Frames), startBuffer: Seq(Frames), tailBuffer: Seq(Frames),
     startActivity: Seq(Activities), speechActivity: Seq(Activities), segmentMs: Nat]

IsOpen(w) == w.state \in {"speaking", "candidateEnd"}

\* Where the frames after newest, which is the last one handed on, are kept, when hi is the
\* last one heard.
Kept(w, newest, hi) ==
    /\ w \in Fields
    /\ TotalMs(w.preRoll) <= PreRoll /\ TotalMs(w.startBuffer) <= StartWindow
    /\ w.state # "candidateStart" => w.startBuffer = <<>>
    /\ w.state # "candidateEnd" => w.tailBuffer = <<>>
    /\ w.state = "idle" => Ascending(w.preRoll, newest, hi)
    /\ w.state = "candidateStart" =>
           \E mid \in newest..hi :
               Ascending(w.preRoll, newest, mid) /\ Ascending(w.startBuffer, mid, hi)
    /\ w.state = "speaking" => newest = hi
    /\ w.state = "candidateEnd" =>
           /\ Len(w.tailBuffer) = hi - newest
           /\ \A i \in 1..Len(w.tailBuffer) : w.tailBuffer[i].n = newest + i
    /\ w.state = "speaking" /\ w.segmentMs >= MaxSegment => EndsLikely(w)

Newest == NewestIn(told)

IInv ==
    /\ heard \in 0..MaxFrames /\ told \in Seq(Packet)
    /\ said \in Seq({"speaking", "silence", "eou"}) /\ contrary \in Nat
    /\ Newest \in 0..heard
    /\ Kept(v, Newest, heard)

LEMMA IInvImplies == IInv => TypeOK /\ SegmentIsCut
  BY DEF IInv, Kept, Fields, States, Packet, TypeOK, SegmentIsCut

-----------------------------------------------------------------------------
(* What a handler makes of the frame hi, when newest was the last one handed on. *)

Holds(r, newest, hi) ==
    /\ r.packets = <<>> /\ r.events = <<>>
    /\ IsOpen(r.vad) <=> Open
    /\ Kept(r.vad, newest, hi)

Begins(r, newest, hi) ==
    /\ ~Open /\ r.vad.state = "speaking" /\ Kept(r.vad, hi, hi)
    /\ r.packets \in Seq(Nat) /\ r.packets # <<>> /\ r.packets[Len(r.packets)] = hi
    /\ \A i \in 1..Len(r.packets) : r.packets[i] \in (newest + 1)..hi
    /\ \A i, j \in 1..Len(r.packets) : i < j => r.packets[i] < r.packets[j]
    /\ r.events = <<"speaking">>

Run(a, b) == [i \in 1..(b - a + 1) |-> a + i - 1]

Continues(r, newest, hi) ==
    /\ Open /\ r.vad.state = "speaking" /\ Kept(r.vad, hi, hi)
    /\ r.packets = Run(newest + 1, hi)
    /\ r.events = <<>>

Finishes(r, newest, hi) ==
    /\ Open /\ r.vad = Idle
    /\ \E upTo \in newest..hi : r.packets = Append(Run(newest + 1, upTo), End)
    /\ r.events = <<"silence", "eou">>

Handled(r, newest, hi) ==
    \/ Holds(r, newest, hi) \/ Begins(r, newest, hi)
    \/ Continues(r, newest, hi) \/ Finishes(r, newest, hi)

LEMMA EmptyAscends == \A lo, hi \in Nat : Ascending(<<>>, lo, hi)
  BY DEF Ascending

LEMMA AscendingWeaker ==
    ASSUME NEW lo \in Nat, NEW hi \in Nat, NEW to \in Nat, hi <= to, NEW q, Ascending(q, lo, hi)
    PROVE  Ascending(q, lo, to)
  BY FramesLast DEF Ascending

LEMMA EmptyTyped == <<>> \in Seq(Frames) /\ <<>> \in Seq(Activities)
  OBVIOUS

\* A start that is not one goes back to the pre-roll.
LEMMA FalseStartHolds ==
    ASSUME NEW w, NEW newest \in Nat, NEW hi \in Nat, newest <= hi,
           Kept(w, newest, hi), w.state = "candidateStart"
    PROVE  Kept(FalseStart(w), newest, hi) /\ FalseStart(w).state = "idle"
<1> DEFINE p == AppendAll(w.preRoll, w.startBuffer, PreRoll)
           u == [w EXCEPT !.state = "idle", !.preRoll = p, !.startBuffer = <<>>,
                          !.startActivity = <<>>]
<1>1. PICK mid \in newest..hi :
          Ascending(w.preRoll, newest, mid) /\ Ascending(w.startBuffer, mid, hi)
  BY DEF Kept
<1>2. w \in Fields /\ TotalMs(w.preRoll) <= PreRoll /\ PreRoll \in Nat
  BY VadAssumption DEF Kept
<1>3. u = FalseStart(w)
  BY DEF FalseStart
<1>4. Ascending(p, newest, hi) /\ TotalMs(p) <= PreRoll
  <2>1. mid \in Nat /\ newest <= mid /\ mid <= hi
    BY <1>1
  <2> QED BY <1>1, <1>2, <2>1, AppendAllAscends
<1> HIDE DEF p
<1>5. p \in Seq(Frames)
  BY <1>4 DEF Ascending
<1>6. u \in Fields
  BY <1>2, <1>5, EmptyTyped DEF Fields, States
<1>7. /\ u.state = "idle" /\ u.preRoll = p /\ u.startBuffer = <<>>
      /\ u.tailBuffer = w.tailBuffer /\ w.tailBuffer = <<>>
  BY <1>2 DEF Fields, Kept
<1> HIDE DEF u
<1>8. Kept(u, newest, hi)
  BY <1>4, <1>6, <1>7, TotalMsEmpty DEF Kept, StartWindow, FrameMs
<1> QED
  BY <1>3, <1>7, <1>8

LEMMA Windows == StartWindow = 60 /\ StartWindow \in Nat /\ EndWindow \in Nat /\ EndWindow >= 60
<1>1. StartWindow = 60
  BY DEF StartWindow, FrameMs
<1> DEFINE x == Min({200, SilencePadding})
<1>2. x \in Nat
  <2>1. SilencePadding \in Nat
    BY VadAssumption
  <2>2. x = IF SilencePadding <= 200 THEN SilencePadding ELSE 200
    BY <2>1 DEF Min
  <2> QED BY <2>1, <2>2
<1> HIDE DEF x
<1>3. Max({x, 60}) = IF x <= 60 THEN 60 ELSE x
  BY <1>2 DEF Max
<1>4. Max({x, 3 * FrameMs}) \in Nat /\ Max({x, 3 * FrameMs}) >= 60
  BY <1>2, <1>3 DEF FrameMs
<1>5. EndWindow \in Nat /\ EndWindow >= 60
  BY <1>4 DEF EndWindow, x
<1> QED
  BY <1>1, <1>5

LEMMA PushActivityTyped ==
    ASSUME NEW window \in Seq(Activities), NEW n, NEW ms \in Lengths, NEW active \in BOOLEAN,
           NEW limit \in Nat
    PROVE  PushActivity(window, [n |-> n, ms |-> ms], active, limit) \in Seq(Activities)
<1>1. \A a \in Activities : a.ms \in Nat
  BY VadAssumption DEF Activities
<1>2. [ms |-> ms, active |-> active] \in Activities
  BY DEF Activities, Gate
<1> QED
  BY <1>1, <1>2, PushIs DEF PushActivity

\* A start that is confirmed hands on what led up to it, and what it began with.
LEMMA ConfirmStartHandled ==
    ASSUME NEW w, NEW score, NEW newest \in Nat, NEW hi \in Nat, newest <= hi,
           Kept(w, newest, hi), w.state = "candidateStart", ~Open,
           w.startBuffer # <<>> => w.startBuffer[Len(w.startBuffer)].n = hi
    PROVE  Handled(MaybeConfirmStart(w, score), newest, hi)
<1> DEFINE r == MaybeConfirmStart(w, score)
           u == [w EXCEPT !.state = "speaking", !.segmentMs = TotalMs(w.startBuffer),
                          !.speechActivity = w.startActivity, !.preRoll = <<>>,
                          !.startBuffer = <<>>, !.startActivity = <<>>]
           p == Names(w.preRoll \o w.startBuffer)
           begin == [vad |-> u, packets |-> p, events |-> <<"speaking">>]
<1>1. \/ r = Quiet(w) \/ r = Quiet(FalseStart(w))
      \/ r = begin /\ ~(TotalMs(w.startBuffer) < StartWindow)
  BY DEF MaybeConfirmStart
<1>2. CASE r = Quiet(w)
  BY <1>2 DEF Quiet, Handled, Holds, IsOpen
<1>3. CASE r = Quiet(FalseStart(w))
  <2>1. Kept(FalseStart(w), newest, hi) /\ FalseStart(w).state = "idle"
    BY FalseStartHolds
  <2> QED BY <1>3, <2>1 DEF Quiet, Handled, Holds, IsOpen
<1>4. CASE r = begin /\ ~(TotalMs(w.startBuffer) < StartWindow)
  <2>1. PICK mid \in newest..hi :
            Ascending(w.preRoll, newest, mid) /\ Ascending(w.startBuffer, mid, hi)
    BY DEF Kept
  <2>2. w \in Fields /\ w.preRoll \in Seq(Frames) /\ w.startBuffer \in Seq(Frames)
    BY DEF Kept, Fields
  <2>3. w.startBuffer # <<>>
    BY <1>4, TotalMsEmpty, Windows
  <2>4. TotalMs(w.startBuffer) \in Nat /\ TotalMs(w.startBuffer) <= StartWindow
    BY <2>2, FramesLast, TotalMsTyped DEF Kept
  <2>5. u \in Fields
    BY <2>2, <2>4, EmptyTyped DEF Fields, States
  <2>6. /\ u.state = "speaking" /\ u.preRoll = <<>> /\ u.startBuffer = <<>>
        /\ u.tailBuffer = <<>> /\ u.segmentMs = TotalMs(w.startBuffer)
    BY <2>2 DEF Fields, Kept
  <2>7. Kept(u, hi, hi)
    <3> HIDE DEF u
    <3>1. MaxSegment \in Nat /\ MaxSegment > StartWindow /\ PreRoll \in Nat
      BY VadAssumption
    <3> QED BY <2>4, <2>5, <2>6, <3>1, TotalMsEmpty, Windows DEF Kept
  <2> DEFINE q == w.preRoll \o w.startBuffer
             a == Len(w.preRoll)
             b == Len(w.startBuffer)
  <2>8. q \in Seq(Frames) /\ Len(q) = a + b /\ a \in Nat /\ b \in Nat /\ b > 0
    BY <2>2, <2>3
  <2>9. \A i \in 1..(a + b) : q[i] = IF i <= a THEN w.preRoll[i] ELSE w.startBuffer[i - a]
    BY <2>2
  <2>10. p = [i \in 1..(a + b) |-> q[i].n]
    <3>1. DOMAIN q = 1..(a + b)
      <4> HIDE DEF q, a, b
      <4> QED BY <2>8
    <3> QED BY <3>1 DEF Names
  <2> HIDE DEF p, q
  <2>11. w.startBuffer[b].n = hi
    BY <2>3
  <2> HIDE DEF a, b
  <2>12. p \in Seq(Nat) /\ Len(p) = a + b
    <3>1. \A i \in 1..(a + b) : q[i].n \in Nat
      BY <2>8, FramesLast
    <3> QED BY <2>8, <2>10, <3>1
  <2>13. \A i \in 1..a : p[i] = w.preRoll[i].n /\ p[i] \in (newest + 1)..mid
    <3>1. \A i \in 1..a : i \in 1..(a + b) /\ i <= a
      BY <2>8
    <3>2. \A i \in 1..a : p[i] = w.preRoll[i].n
      BY <2>9, <2>10, <3>1
    <3>3. \A i \in 1..a : /\ w.preRoll[i].n \in Nat
                         /\ newest < w.preRoll[i].n /\ w.preRoll[i].n <= mid
      BY <2>1, <2>2, FramesLast DEF Ascending, a
    <3> QED BY <2>1, <3>2, <3>3
  <2>14. \A i \in (a + 1)..(a + b) :
            i - a \in 1..b /\ p[i] = w.startBuffer[i - a].n /\ p[i] \in (mid + 1)..hi
    <3>1. \A i \in (a + 1)..(a + b) : i \in 1..(a + b) /\ ~(i <= a) /\ i - a \in 1..b
      BY <2>8
    <3>2. \A i \in (a + 1)..(a + b) : p[i] = w.startBuffer[i - a].n
      BY <2>9, <2>10, <3>1
    <3>3. \A i \in 1..b : /\ w.startBuffer[i].n \in Nat
                         /\ mid < w.startBuffer[i].n /\ w.startBuffer[i].n <= hi
      BY <2>1, <2>2, FramesLast DEF Ascending, b
    <3> QED BY <2>1, <3>1, <3>2, <3>3
  <2>15. p # <<>> /\ p[Len(p)] = hi
    <3>1. a + b \in (a + 1)..(a + b) /\ (a + b) - a = b
      BY <2>8
    <3> QED BY <2>8, <2>11, <2>12, <2>14, <3>1
  <2>16. ASSUME NEW i \in 1..Len(p) PROVE p[i] \in (newest + 1)..hi
    <3>1. i \in 1..a \/ i \in (a + 1)..(a + b)
      BY <2>8, <2>12
    <3> QED BY <2>1, <2>13, <2>14, <3>1
  <2>17. ASSUME NEW i \in 1..Len(p), NEW j \in 1..Len(p), i < j PROVE p[i] < p[j]
    <3>1. CASE i \in 1..a /\ j \in 1..a
      BY <2>1, <2>13, <2>17, <3>1 DEF Ascending, a
    <3>2. CASE i \in 1..a /\ j \in (a + 1)..(a + b)
      <4>1. p[i] \in (newest + 1)..mid /\ p[j] \in (mid + 1)..hi
        BY <2>13, <2>14, <3>2
      <4> QED BY <2>1, <4>1
    <3>3. CASE i \in (a + 1)..(a + b) /\ j \in (a + 1)..(a + b)
      <4>1. j - a \in 1..b /\ i - a \in 1..b /\ i - a < j - a
        BY <2>8, <2>17, <3>3
      <4>2. w.startBuffer[i - a].n < w.startBuffer[j - a].n
        BY <2>1, <4>1 DEF Ascending, b
      <4> QED BY <2>14, <3>3, <4>2
    <3> QED BY SMTT(30), <2>8, <2>12, <2>17, <3>1, <3>2, <3>3
  <2>18. Begins(begin, newest, hi)
    <3> HIDE DEF u
    <3> QED BY <2>6, <2>7, <2>12, <2>15, <2>16, <2>17 DEF Begins
  <2> QED BY <1>4, <2>18 DEF Handled
<1> QED
  BY <1>1, <1>2, <1>3, <1>4

\* An utterance that is handed on up to hi is cut, or goes on.
LEMMA ForceEndHandled ==
    ASSUME NEW w, NEW packets, NEW newest \in Nat, NEW hi \in Nat, newest <= hi, Open,
           w.state = "speaking", w.segmentMs \in Nat, w.segmentMs < MaxSegment => Kept(w, hi, hi),
           packets = Run(newest + 1, hi)
    PROVE  Handled(MaybeForceEnd(w, packets), newest, hi)
<1>1. MaxSegment \in Nat
  BY VadAssumption
<1>2. CASE w.segmentMs < MaxSegment
  <2>1. MaybeForceEnd(w, packets) = [vad |-> w, packets |-> packets, events |-> <<>>]
    BY <1>1, <1>2 DEF MaybeForceEnd
  <2> QED BY <1>2, <2>1 DEF Handled, Continues
<1>3. CASE ~(w.segmentMs < MaxSegment)
  <2>1. MaxSegment > 0 /\ w.segmentMs >= MaxSegment
    BY <1>1, <1>3, VadAssumption, Windows
  <2>2. MaybeForceEnd(w, packets) = EndSegment(packets)
    BY <2>1 DEF MaybeForceEnd
  <2>3. hi \in newest..hi
    OBVIOUS
  <2> QED BY <2>2, <2>3 DEF Handled, Finishes, EndSegment
<1> QED
  BY <1>2, <1>3

\* The frame that is being handled.
Frame(hi, ms) == [n |-> hi, ms |-> ms]

LEMMA IdleHandled ==
    ASSUME NEW newest \in Nat, newest <= heard, heard \in Nat, Kept(v, newest, heard),
           NEW ms \in Lengths, NEW active \in BOOLEAN, NEW score, v.state = "idle"
    PROVE  Handled(ProcessIdle(Frame(heard + 1, ms), active, score), newest, heard + 1)
<1> DEFINE hi == heard + 1
           f == Frame(hi, ms)
<1>1. /\ v \in Fields /\ TotalMs(v.preRoll) <= PreRoll /\ PreRoll \in Nat
      /\ Ascending(v.preRoll, newest, heard) /\ v.startBuffer = <<>> /\ v.tailBuffer = <<>>
      /\ hi \in Nat /\ ~Open
  BY VadAssumption DEF Kept, Open
<1>2. f \in Frames /\ f.n = hi /\ heard < f.n
  BY <1>1 DEF Frames, Frame
<1> HIDE DEF f
<1>3. CASE ~active
  <2> DEFINE p == Push(v.preRoll, f, PreRoll)
             u == [v EXCEPT !.preRoll = p]
  <2>1. Ascending(p, newest, hi) /\ TotalMs(p) <= PreRoll
    <3>1. Ascending(p, newest, f.n) /\ TotalMs(p) <= PreRoll
      BY <1>1, <1>2, PushAscends
    <3> QED BY <1>2, <3>1
  <2> HIDE DEF p
  <2>2. /\ u \in Fields /\ u.state = "idle" /\ u.preRoll = p
        /\ u.startBuffer = <<>> /\ u.tailBuffer = <<>>
    BY <1>1, <2>1 DEF Fields, Ascending
  <2>3. ProcessIdle(f, active, score) = Quiet(u)
    BY <1>3 DEF ProcessIdle, p
  <2> HIDE DEF u
  <2>4. Kept(u, newest, hi)
    BY <2>1, <2>2, TotalMsEmpty, Windows DEF Kept
  <2> QED BY <1>1, <2>2, <2>3, <2>4 DEF Handled, Holds, IsOpen, Quiet, f
<1>4. CASE active
  <2> DEFINE p == Push(<<>>, f, StartWindow)
             a == PushActivity(<<>>, f, active, StartWindow)
             u == [v EXCEPT !.state = "candidateStart", !.startBuffer = p, !.startActivity = a]
  <2>1. /\ Ascending(p, heard, hi) /\ TotalMs(p) <= StartWindow
        /\ p # <<>> => p[Len(p)] = f
    BY <1>2, EmptyAscends, Windows, PushAscends
  <2>2. a \in Seq(Activities)
    BY EmptyTyped, Windows, PushActivityTyped DEF f, Frame
  <2> HIDE DEF p, a
  <2>3. /\ u \in Fields /\ u.state = "candidateStart" /\ u.preRoll = v.preRoll
        /\ u.startBuffer = p /\ u.tailBuffer = <<>>
    BY <1>1, <2>1, <2>2 DEF Fields, States, Ascending
  <2>4. ProcessIdle(f, active, score) = MaybeConfirmStart(u, score)
    BY <1>4 DEF ProcessIdle, p, a
  <2> HIDE DEF u
  <2>5. Kept(u, newest, hi)
    <3>1. heard \in newest..hi
      OBVIOUS
    <3> QED BY <1>1, <2>1, <2>3, <3>1 DEF Kept
  <2>6. Handled(MaybeConfirmStart(u, score), newest, hi)
    BY <1>1, <1>2, <2>1, <2>3, <2>5, ConfirmStartHandled
  <2> QED BY <2>4, <2>6 DEF f
<1> QED
  BY <1>3, <1>4

LEMMA CandidateStartHandled ==
    ASSUME NEW newest \in Nat, newest <= heard, heard \in Nat, Kept(v, newest, heard),
           NEW ms \in Lengths, NEW active \in BOOLEAN, NEW score, v.state = "candidateStart"
    PROVE  Handled(ProcessCandidateStart(Frame(heard + 1, ms), active, score), newest, heard + 1)
<1> DEFINE hi == heard + 1
           f == Frame(hi, ms)
           p == Push(v.startBuffer, f, StartWindow)
           a == PushActivity(v.startActivity, f, active, StartWindow)
           u == [v EXCEPT !.startBuffer = p, !.startActivity = a]
<1>1. /\ v \in Fields /\ TotalMs(v.preRoll) <= PreRoll
      /\ v.tailBuffer = <<>> /\ hi \in Nat /\ ~Open
  BY DEF Kept, Open
<1>2. PICK mid \in newest..heard :
          Ascending(v.preRoll, newest, mid) /\ Ascending(v.startBuffer, mid, heard)
  BY DEF Kept
<1>3. f \in Frames /\ f.n = hi /\ heard < f.n
  BY <1>1 DEF Frames, Frame
<1>4. a \in Seq(Activities)
  <2>1. v.startActivity \in Seq(Activities)
    BY <1>1 DEF Fields
  <2> QED BY <2>1, Windows, PushActivityTyped DEF Frame
<1> HIDE DEF f
<1>5. /\ Ascending(p, mid, hi) /\ TotalMs(p) <= StartWindow
      /\ p # <<>> => p[Len(p)] = f
  <2>1. mid \in Nat /\ mid <= heard
    BY <1>2
  <2> QED BY <1>2, <1>3, <2>1, Windows, PushAscends
<1> HIDE DEF p, a
<1>6. /\ u \in Fields /\ u.state = "candidateStart" /\ u.preRoll = v.preRoll
      /\ u.startBuffer = p /\ u.tailBuffer = <<>>
  BY <1>1, <1>4, <1>5 DEF Fields, Ascending
<1>7. ProcessCandidateStart(f, active, score) = MaybeConfirmStart(u, score)
  BY DEF ProcessCandidateStart, p, a
<1> HIDE DEF u
<1>8. Kept(u, newest, hi)
  <2>1. mid \in newest..hi
    BY <1>2
  <2> QED BY <1>1, <1>2, <1>5, <1>6, <2>1 DEF Kept
<1>9. Handled(MaybeConfirmStart(u, score), newest, hi)
  BY <1>1, <1>3, <1>5, <1>6, <1>8, ConfirmStartHandled
<1> QED
  BY <1>7, <1>9 DEF f

\* What a frame adds to the window of activity of an open utterance.
LEMMA ObservedIs ==
    ASSUME v \in Fields, NEW hi, NEW ms \in Lengths, NEW active \in BOOLEAN, NEW w,
           w = Observed(Frame(hi, ms), active)
    PROVE  /\ w \in Fields /\ w.state = v.state /\ w.preRoll = v.preRoll
           /\ w.startBuffer = v.startBuffer /\ w.tailBuffer = v.tailBuffer
           /\ w.segmentMs = v.segmentMs
<1> DEFINE a == PushActivity(v.speechActivity, Frame(hi, ms), active, EndWindow)
<1>1. v.speechActivity \in Seq(Activities)
  BY DEF Fields
<1>2. a \in Seq(Activities)
  BY <1>1, Windows, PushActivityTyped DEF Frame
<1>3. w = [v EXCEPT !.speechActivity = a]
  BY DEF Observed
<1> HIDE DEF a
<1> QED
  BY <1>2, <1>3 DEF Fields

LEMMA SpeakingHandled ==
    ASSUME NEW newest \in Nat, newest <= heard, heard \in Nat, Kept(v, newest, heard),
           NEW ms \in Lengths, NEW active \in BOOLEAN, v.state = "speaking"
    PROVE  Handled(ProcessSpeaking(Frame(heard + 1, ms), active), newest, heard + 1)
<1> DEFINE hi == heard + 1
           f == Frame(hi, ms)
           w == Observed(f, active)
<1>1. /\ v \in Fields /\ TotalMs(v.preRoll) <= PreRoll /\ TotalMs(v.startBuffer) <= StartWindow
      /\ v.startBuffer = <<>> /\ v.tailBuffer = <<>> /\ newest = heard /\ hi \in Nat /\ Open
  BY DEF Kept, Open
<1>2. f \in Frames /\ f.n = hi /\ f.ms \in Nat
  BY <1>1, FramesLast DEF Frames, Frame
<1>3. /\ w \in Fields /\ w.state = v.state /\ w.preRoll = v.preRoll
      /\ w.startBuffer = v.startBuffer /\ w.tailBuffer = v.tailBuffer
      /\ w.segmentMs = v.segmentMs
  BY <1>1, ObservedIs
<1> HIDE DEF f, w
<1>4. /\ w \in Fields /\ w.state = "speaking" /\ w.preRoll = v.preRoll
      /\ w.startBuffer = <<>> /\ w.tailBuffer = <<>> /\ w.segmentMs \in Nat
  BY <1>1, <1>3 DEF Fields
<1>5. CASE EndsLikely(w)
  <2> DEFINE u == [w EXCEPT !.state = "candidateEnd", !.tailBuffer = <<f>>]
  <2>1. ProcessSpeaking(f, active) = Quiet(u)
    BY <1>5 DEF ProcessSpeaking, w
  <2>2. <<f>> \in Seq(Frames) /\ Len(<<f>>) = 1 /\ <<f>>[1] = f
    BY <1>2
  <2>3. /\ u \in Fields /\ u.state = "candidateEnd" /\ u.preRoll = v.preRoll
        /\ u.startBuffer = <<>> /\ u.tailBuffer = <<f>>
    BY <1>4, <2>2 DEF Fields, States
  <2> HIDE DEF u
  <2>4. Kept(u, newest, hi)
    <3>1. Len(u.tailBuffer) = hi - newest
      BY <1>1, <2>2, <2>3
    <3>2. \A i \in 1..Len(u.tailBuffer) : u.tailBuffer[i].n = newest + i
      BY <1>1, <1>2, <2>2, <2>3
    <3> QED BY <1>1, <2>3, <3>1, <3>2 DEF Kept
  <2> QED BY <1>1, <2>1, <2>3, <2>4 DEF Handled, Holds, IsOpen, Quiet, f
<1>6. CASE ~EndsLikely(w)
  <2> DEFINE s == w.segmentMs + f.ms
             u == [w EXCEPT !.segmentMs = s]
  <2>1. s \in Nat
    BY <1>2, <1>4
  <2>2. ProcessSpeaking(f, active) = MaybeForceEnd(u, <<f.n>>)
    BY <1>6 DEF ProcessSpeaking, w
  <2> HIDE DEF s
  <2>3. /\ u \in Fields /\ u.state = "speaking" /\ u.preRoll = v.preRoll
        /\ u.startBuffer = <<>> /\ u.tailBuffer = <<>> /\ u.segmentMs \in Nat
    BY <1>4, <2>1 DEF Fields
  <2> HIDE DEF u
  <2>4. u.segmentMs < MaxSegment => Kept(u, hi, hi)
    <3>1. MaxSegment \in Nat
      BY VadAssumption
    <3> QED BY <1>1, <2>3, <3>1 DEF Kept
  <2>5. <<f.n>> = Run(newest + 1, hi)
    <3>1. newest + 1 = hi /\ hi - hi + 1 = 1 /\ hi + 1 - 1 = hi
      BY <1>1
    <3>2. Run(hi, hi) = [i \in 1..1 |-> hi + i - 1]
      BY <3>1 DEF Run
    <3>3. Run(hi, hi) = <<hi>>
      BY <3>1, <3>2
    <3> QED BY <1>2, <3>1, <3>3
  <2>6. Handled(MaybeForceEnd(u, <<f.n>>), newest, hi)
    BY <1>1, <2>3, <2>4, <2>5, ForceEndHandled
  <2> QED BY <2>2, <2>6 DEF f
<1> QED
  BY <1>5, <1>6

\* The audio of a possible end, when the utterance goes on after all.
LEMMA SpeakingIs ==
    ASSUME NEW w, NEW newest \in Nat, NEW hi \in Nat, newest <= hi,
           Kept(w, newest, hi), w.state = "candidateEnd"
    PROVE  /\ Speaking(w).state = "speaking" /\ Speaking(w).segmentMs \in Nat
           /\ Speaking(w).segmentMs < MaxSegment \/ EndsLikely(w) => Kept(Speaking(w), hi, hi)
           /\ Names(w.tailBuffer) = Run(newest + 1, hi)
<1> DEFINE s == w.segmentMs + TotalMs(w.tailBuffer)
           u == [w EXCEPT !.state = "speaking", !.segmentMs = s, !.tailBuffer = <<>>]
<1>1. u = Speaking(w)
  BY DEF Speaking
<1>2. w \in Fields /\ w.tailBuffer \in Seq(Frames) /\ w.startBuffer = <<>>
  BY DEF Kept, Fields
<1>3. s \in Nat
  <2>1. TotalMs(w.tailBuffer) \in Nat
    BY <1>2, FramesLast, TotalMsTyped
  <2> QED BY <1>2, <2>1 DEF Fields
<1> HIDE DEF s
<1>4. /\ u \in Fields /\ u.state = "speaking" /\ u.preRoll = w.preRoll /\ u.tailBuffer = <<>>
      /\ u.startBuffer = w.startBuffer /\ u.segmentMs \in Nat
      /\ u.speechActivity = w.speechActivity
  BY <1>2, <1>3, EmptyTyped DEF Fields, States
<1> HIDE DEF u
<1>5. ASSUME u.segmentMs < MaxSegment \/ EndsLikely(w) PROVE Kept(u, hi, hi)
  <2>1. u.segmentMs >= MaxSegment => EndsLikely(u)
    <3>1. EndsLikely(u) <=> EndsLikely(w)
      BY <1>4 DEF EndsLikely
    <3>2. MaxSegment \in Nat
      BY VadAssumption
    <3> QED BY <1>4, <1>5, <3>1, <3>2
  <2> QED BY <1>2, <1>4, <2>1 DEF Kept
<1>6. Names(w.tailBuffer) = Run(newest + 1, hi)
  <2>1. /\ Len(w.tailBuffer) = hi - newest
        /\ \A i \in 1..Len(w.tailBuffer) : w.tailBuffer[i].n = newest + i
    BY DEF Kept
  <2>2. DOMAIN w.tailBuffer = 1..(hi - newest)
    BY <1>2, <2>1
  <2>3. \A i \in 1..(hi - newest) : newest + 1 + i - 1 = newest + i
    OBVIOUS
  <2>4. hi - (newest + 1) + 1 = hi - newest
    OBVIOUS
  <2> QED BY <2>1, <2>2, <2>3, <2>4 DEF Names, Run
<1> QED
  BY <1>1, <1>4, <1>5, <1>6

LEMMA CandidateEndHandled ==
    ASSUME NEW newest \in Nat, newest <= heard, heard \in Nat, Kept(v, newest, heard),
           NEW ms \in Lengths, NEW active \in BOOLEAN, NEW score, v.state = "candidateEnd"
    PROVE  Handled(ProcessCandidateEnd(Frame(heard + 1, ms), active, score), newest, heard + 1)
<1> DEFINE hi == heard + 1
           f == Frame(hi, ms)
           tail == Append(v.tailBuffer, f)
           o == Observed(f, active)
           w == [o EXCEPT !.tailBuffer = tail]
<1>1. /\ v \in Fields /\ TotalMs(v.preRoll) <= PreRoll /\ TotalMs(v.startBuffer) <= StartWindow
      /\ v.startBuffer = <<>> /\ v.tailBuffer \in Seq(Frames) /\ hi \in Nat /\ Open
      /\ newest <= hi
  BY DEF Kept, Open, Fields
<1>2. f \in Frames /\ f.n = hi
  BY <1>1 DEF Frames, Frame
<1>3. /\ o \in Fields /\ o.state = v.state /\ o.preRoll = v.preRoll
      /\ o.startBuffer = v.startBuffer /\ o.tailBuffer = v.tailBuffer
  BY <1>1, ObservedIs
<1> HIDE DEF f, o
<1>4. /\ tail \in Seq(Frames) /\ Len(tail) = hi - newest
      /\ \A i \in 1..Len(tail) : tail[i].n = newest + i
  <2>1. /\ Len(v.tailBuffer) = heard - newest
        /\ \A i \in 1..Len(v.tailBuffer) : v.tailBuffer[i].n = newest + i
    BY DEF Kept
  <2>2. /\ tail \in Seq(Frames) /\ Len(tail) = Len(v.tailBuffer) + 1
        /\ tail[Len(v.tailBuffer) + 1] = f
        /\ \A i \in 1..Len(v.tailBuffer) : tail[i] = v.tailBuffer[i]
    BY <1>1, <1>2
  <2> HIDE DEF tail
  <2>3. ASSUME NEW i \in 1..Len(tail) PROVE tail[i].n = newest + i
    <3>1. CASE i \in 1..Len(v.tailBuffer)
      BY <2>1, <2>2, <3>1
    <3>2. CASE i = Len(v.tailBuffer) + 1
      BY <1>2, <2>1, <2>2, <3>2
    <3> QED BY <1>1, <2>2, <3>1, <3>2
  <2> QED BY <2>1, <2>2, <2>3
<1>5. w = [o EXCEPT !.tailBuffer = Append(@, f)]
  BY <1>3
<1>6. ProcessCandidateEnd(f, active, score) =
          IF Resumes(w) THEN MaybeForceEnd(Speaking(w), Names(w.tailBuffer))
          ELSE IF TotalMs(w.tailBuffer) < SilencePadding \/ ~EndsLikely(w) THEN Quiet(w)
          ELSE ConfirmEnd(w, score)
  <2> HIDE DEF w
  <2> QED BY <1>5 DEF ProcessCandidateEnd, o
<1> HIDE DEF tail
<1>7. /\ w \in Fields /\ w.state = "candidateEnd" /\ w.preRoll = v.preRoll
      /\ w.startBuffer = <<>> /\ w.tailBuffer = tail
  BY <1>1, <1>3, <1>4 DEF Fields
<1> HIDE DEF w
<1>8. Kept(w, newest, hi)
  BY <1>1, <1>4, <1>7 DEF Kept
<1>9. /\ Speaking(w).state = "speaking" /\ Speaking(w).segmentMs \in Nat
      /\ Speaking(w).segmentMs < MaxSegment \/ EndsLikely(w) => Kept(Speaking(w), hi, hi)
      /\ Names(w.tailBuffer) = Run(newest + 1, hi)
  BY <1>1, <1>7, <1>8, SpeakingIs
<1>10. Handled(MaybeForceEnd(Speaking(w), Names(w.tailBuffer)), newest, hi)
  BY <1>1, <1>9, ForceEndHandled
<1>11. Handled(Quiet(w), newest, hi)
  BY <1>1, <1>7, <1>8 DEF Handled, Holds, IsOpen, Quiet
<1>12. ASSUME EndsLikely(w) PROVE Handled(ConfirmEnd(w, score), newest, hi)
  <2>1. CASE score = "speech"
    BY <1>1, <1>9, <1>12, <2>1 DEF Handled, Continues, ConfirmEnd
  <2>2. CASE score # "speech"
    <3> DEFINE q == PrefixFrames(tail, TailPadding)
    <3>1. PICK l \in 0..Len(tail) : q = SubSeq(tail, 1, l)
      BY <1>4, PrefixFramesIs
    <3> HIDE DEF q
    <3>2. \A i \in 1..l : tail[i] \in Frames /\ i \in 1..Len(tail)
      BY <1>4
    <3>3. q \in Seq(Frames) /\ Len(q) = l /\ \A i \in 1..l : q[i] = tail[i]
      BY <3>1, <3>2, SubSeqProperties
    <3>4. newest + l \in newest..hi
      BY <1>1, <1>4
    <3>5. Names(q) = Run(newest + 1, newest + l)
      <4>1. DOMAIN q = 1..l
        BY <3>3
      <4>2. \A i \in 1..l : q[i].n = newest + 1 + i - 1
        BY <1>4, <3>2, <3>3
      <4>3. newest + l - (newest + 1) + 1 = l
        OBVIOUS
      <4> QED BY <4>1, <4>2, <4>3 DEF Names, Run
    <3>6. ConfirmEnd(w, score) = EndSegment(Run(newest + 1, newest + l))
      BY <1>7, <2>2, <3>5 DEF ConfirmEnd, q
    <3> QED BY <1>1, <3>4, <3>6 DEF Handled, Finishes, EndSegment
  <2> QED BY <2>1, <2>2
<1>13. Handled(ProcessCandidateEnd(f, active, score), newest, hi)
  BY <1>6, <1>10, <1>11, <1>12
<1> QED
  BY <1>13 DEF f

-----------------------------------------------------------------------------
(* What the gate brings about. A window that is as long as some frames of 20 *)
(* ms holds exactly these when they came last, whatever was in it before.    *)

EndsWith(s, k, C) == k \in 0..Len(s) /\ \A i \in (Len(s) - k + 1)..Len(s) : s[i] \in C

LEMMA EndsWithNone == ASSUME NEW E, NEW s \in Seq(E), NEW C PROVE EndsWith(s, 0, C)
  BY DEF EndsWith

LEMMA EndsWithFewer ==
    ASSUME NEW E, NEW s \in Seq(E), NEW C, NEW k \in Nat, EndsWith(s, k, C), NEW j \in 0..k
    PROVE  EndsWith(s, j, C)
  BY DEF EndsWith

LEMMA PushEndsWith ==
    ASSUME NEW E, \A x \in E : x.ms \in Nat, NEW s \in Seq(E), NEW e \in E,
           NEW C, \A x \in C : x.ms = FrameMs, e \in C,
           NEW k \in Nat, EndsWith(s, k, C), NEW m \in Nat, k + 1 <= m,
           NEW limit \in Nat, limit = FrameMs * m
    PROVE  EndsWith(Push(s, e, limit), k + 1, C)
<1> DEFINE a == Append(s, e)
           n == Len(s) + 1
           q == SubSeq(a, n - k, n)
           p == Push(s, e, limit)
           w == [i \in 1..(k + 1) |-> FrameMs]
<1>1. /\ a \in Seq(E) /\ Len(a) = n /\ a[n] = e /\ \A i \in 1..Len(s) : a[i] = s[i]
      /\ n \in Nat /\ k < n /\ \A i \in 1..n : a[i] \in E
  BY DEF EndsWith
<1>2. \A i \in (n - k)..n : a[i] \in C
  <2>1. \A i \in (Len(s) - k + 1)..Len(s) : s[i] \in C /\ i \in 1..Len(s)
    BY DEF EndsWith
  <2>2. \A i \in (n - k)..n : i = n \/ i \in (Len(s) - k + 1)..Len(s)
    OBVIOUS
  <2> HIDE DEF a
  <2> QED BY <1>1, <2>1, <2>2
<1> HIDE DEF a, n
<1>3. /\ q \in Suffixes(a) /\ q \in Seq(E) /\ Len(q) = k + 1
      /\ \A i \in 1..(k + 1) : q[i] = a[(n - k) + i - 1]
  <2>1. n - k \in 1..Len(a)
    BY <1>1
  <2>2. q \in Suffixes(a)
    BY <1>1, <2>1 DEF Suffixes
  <2>3. \A i \in (n - k)..n : a[i] \in E
    BY <1>1
  <2>4. n - k <= n + 1 /\ n - (n - k) + 1 = k + 1 /\ n - k \in Int /\ n \in Int
    BY <1>1
  <2> QED BY <2>2, <2>3, <2>4, SubSeqProperties
<1> HIDE DEF q
<1>4. TotalMs(q) <= limit
  <2>1. \A i \in 1..(k + 1) : (n - k) + i - 1 \in (n - k)..n
    BY <1>1
  <2>2. \A i \in 1..(k + 1) : q[i].ms = FrameMs /\ w[i] = FrameMs
    BY <1>2, <1>3, <2>1
  <2> HIDE DEF w
  <2>3. TotalMs(q) = Weigh(w, k + 1)
    BY <1>3, <2>2, TotalMsIs
  <2>4. Weigh(w, k + 1) = FrameMs * (k + 1)
    <3>1. FrameMs \in Nat /\ k + 1 \in Nat
      BY DEF FrameMs
    <3> QED BY <2>2, <3>1, WeighAll
  <2> QED BY <2>3, <2>4 DEF FrameMs
<1>5. p \in Seq(E) /\ Tails(p, a) /\ k + 1 <= Len(p)
  <2>1. p \in Seq(E) /\ Tails(p, a)
    BY PushIs DEF a
  <2>2. \A x \in Suffixes(a) : TotalMs(x) <= limit => Len(x) <= Len(p)
    BY PushIs DEF a
  <2> QED BY <1>3, <1>4, <2>1, <2>2
<1> HIDE DEF p
<1>6. ASSUME NEW i \in (Len(p) - (k + 1) + 1)..Len(p) PROVE p[i] \in C
  <2>1. i \in 1..Len(p) /\ Len(p) \in Nat
    BY <1>5
  <2>2. p[i] = a[Len(a) - Len(p) + i]
    BY <1>5, <2>1 DEF Tails
  <2>3. Len(a) - Len(p) + i \in (n - k)..n
    BY <1>1, <1>5, <2>1
  <2> QED BY <1>2, <2>2, <2>3
<1>7. EndsWith(p, k + 1, C)
  BY <1>5, <1>6 DEF EndsWith
<1> QED
  BY <1>7 DEF p

\* A buffer that ends with enough frames of 20 ms to fill it has nothing else.
LEMMA FullOfFrames ==
    ASSUME NEW E, \A x \in E : x.ms \in Nat \ {0}, NEW s \in Seq(E),
           NEW C, \A x \in C : x.ms = FrameMs, NEW m \in Nat, EndsWith(s, m, C),
           TotalMs(s) <= FrameMs * m
    PROVE  Len(s) = m /\ TotalMs(s) = FrameMs * m
<1> DEFINE w == [i \in 1..Len(s) |-> s[i].ms]
<1>1. \A i \in 1..Len(s) : w[i] = s[i].ms /\ w[i] \in Nat \ {0}
  OBVIOUS
<1>2. m \in 0..Len(s) /\ Len(s) \in Nat /\ \A i \in (Len(s) - m + 1)..Len(s) : w[i] = FrameMs
  BY DEF EndsWith
<1> HIDE DEF w
<1>3. TotalMs(s) = Weigh(w, Len(s))
  BY <1>1, TotalMsIs
<1>4. FrameMs \in Nat /\ \A i \in 1..Len(s) : w[i] \in Nat
  BY <1>1 DEF FrameMs
<1>5. Weigh(w, Len(s)) = Weigh(w, Len(s) - m) + FrameMs * m
  BY ZenonT(30), <1>2, <1>4, WeighTail
<1>6. Len(s) - m \in Nat /\ \A i \in 1..(Len(s) - m) : i \in 1..Len(s)
  BY <1>2
<1>7. Weigh(w, Len(s) - m) \in Nat
  BY <1>4, <1>6, WeighTyped
<1>8. FrameMs * m \in Nat
  BY DEF FrameMs
<1>9. Weigh(w, Len(s) - m) = 0
  BY <1>3, <1>5, <1>7, <1>8
<1>10. Len(s) - m = 0
  <2> SUFFICES ASSUME Len(s) - m # 0 PROVE FALSE
    OBVIOUS
  <2>1. Len(s) - m \in Nat \ {0} /\ \A i \in 1..(Len(s) - m) : w[i] \in Nat \ {0}
    BY <1>1, <1>6
  <2>2. Weigh(w, Len(s) - m) > 0
    BY <2>1, WeighPositive
  <2> QED BY <1>9, <2>2
<1> QED
  BY <1>2, <1>3, <1>5, <1>8, <1>9, <1>10

Steady(active) == {[ms |-> FrameMs, active |-> active]}

LEMMA ActivitiesLast == \A x \in Activities : x.ms \in Nat \ {0} /\ x.ms \in Nat
  BY VadAssumption DEF Activities

\* Such a window is all activity, or has none.
LEMMA FullOfActivity ==
    ASSUME NEW window \in Seq(Activities), NEW active \in BOOLEAN, NEW m \in Nat,
           EndsWith(window, m, Steady(active)), TotalMs(window) <= FrameMs * m
    PROVE  /\ TotalMs(window) = FrameMs * m
           /\ ActiveMs(window) = IF active THEN FrameMs * m ELSE 0
<1>1. Len(window) = m /\ TotalMs(window) = FrameMs * m
  <2>1. \A x \in Steady(active) : x.ms = FrameMs
    BY DEF Steady
  <2> QED BY <2>1, ActivitiesLast, FullOfFrames
<1>2. \A i \in 1..m : window[i] = [ms |-> FrameMs, active |-> active]
  BY <1>1 DEF EndsWith, Steady
<1> DEFINE c == IF active THEN FrameMs ELSE 0
           w == [i \in 1..m |-> c]
           n == Len(window)
           Active(g) == [S \in SUBSET (1..n) |->
                            IF S = {} THEN 0
                            ELSE g[S \ {Max(S)}]
                                 + (IF window[Max(S)].active THEN window[Max(S)].ms ELSE 0)]
           All(g) == [S \in SUBSET (1..m) |-> IF S = {} THEN 0 ELSE g[S \ {Max(S)}] + w[Max(S)]]
<1>3. n = m /\ DOMAIN window = 1..n
  BY <1>1
<1>4. ActiveMs(window) = (CHOOSE g : g = Active(g))[1..n]
  BY <1>3 DEF ActiveMs, FoldLeft, MapThenFoldSet
<1>5. Weigh(w, m) = (CHOOSE g : g = All(g))[1..m]
  BY DEF Weigh
<1>6. ASSUME NEW g PROVE Active(g) = All(g)
  <2>1. \A S \in SUBSET (1..m) : S # {} => Max(S) \in 1..m
    BY MaxIs
  <2>2. \A S \in SUBSET (1..m) : S # {} =>
            (IF window[Max(S)].active THEN window[Max(S)].ms ELSE 0) = w[Max(S)]
    BY <1>2, <2>1
  <2> HIDE DEF w, n
  <2> QED BY <1>3, <2>2
<1>7. ActiveMs(window) = Weigh(w, m)
  <2> HIDE DEF Active, All, w, n
  <2> QED BY Zenon, <1>3, <1>4, <1>5, <1>6
<1>8. Weigh(w, m) = c * m
  <2>1. c \in Nat
    BY DEF FrameMs
  <2>2. \A i \in 1..m : w[i] = c
    OBVIOUS
  <2> HIDE DEF c, w
  <2> QED BY <2>1, <2>2, WeighAll
<1> QED
  BY <1>1, <1>7, <1>8 DEF FrameMs

\* A window of activity, with one more frame of 20 ms.
LEMMA PushSteady ==
    ASSUME NEW window \in Seq(Activities), NEW active \in BOOLEAN, FrameMs \in Lengths,
           NEW k \in Nat, EndsWith(window, k, Steady(active)), NEW m \in Nat, k + 1 <= m,
           NEW limit \in Nat, limit = FrameMs * m, NEW hi
    PROVE  LET a == PushActivity(window, Frame(hi, FrameMs), active, limit)
           IN /\ a \in Seq(Activities) /\ EndsWith(a, k + 1, Steady(active))
              /\ TotalMs(a) <= limit
<1> DEFINE e == [ms |-> FrameMs, active |-> active]
<1>1. e \in Activities /\ e \in Steady(active) /\ \A x \in Steady(active) : x.ms = FrameMs
  BY DEF Activities, Gate, Steady
<1>2. PushActivity(window, Frame(hi, FrameMs), active, limit) = Push(window, e, limit)
  BY DEF PushActivity, Frame
<1> HIDE DEF e
<1>3. EndsWith(Push(window, e, limit), k + 1, Steady(active))
  BY <1>1, ActivitiesLast, PushEndsWith
<1>4. Push(window, e, limit) \in Seq(Activities) /\ TotalMs(Push(window, e, limit)) <= limit
  BY <1>1, ActivitiesLast, PushIs
<1> QED
  BY <1>2, <1>3, <1>4

\* The windows know of every frame of 20 ms on which the gate contradicted the state w, the
\* latest c ms, as many of them as they hold.
Regular == {f \in Frames : f.ms = FrameMs}

Follows(w, c) ==
    \E k \in Nat :
        /\ c = FrameMs * k
        /\ w.state = "idle" => k = 0
        /\ w.state = "candidateStart" =>
               /\ c < StartWindow
               /\ EndsWith(w.startBuffer, k, Regular)
               /\ EndsWith(w.startActivity, k, Steady(TRUE))
        /\ w.state = "speaking" =>
               c < EndWindow /\ EndsWith(w.speechActivity, k, Steady(FALSE))
        /\ w.state = "candidateEnd" =>
               /\ c <= EndWindow - FrameMs + TotalMs(w.tailBuffer)
               /\ c < EndWindow + SilencePadding - FrameMs
               /\ \A j \in 0..k : FrameMs * j <= EndWindow =>
                      EndsWith(w.speechActivity, j, Steady(FALSE))

\* The end window is made up of frames, and the padding of more than one.
FramesFit == EndWindow % FrameMs = 0 /\ SilencePadding > FrameMs

LEMMA EndWindowIs ==
    ASSUME FramesFit PROVE \E m \in Nat : m >= 3 /\ EndWindow = FrameMs * m
<1>1. EndWindow = 20 * (EndWindow \div 20) /\ EndWindow \div 20 \in Nat
  BY Windows DEF FramesFit, FrameMs
<1> QED
  BY <1>1, Windows DEF FrameMs

\* What the windows say of nothing holds in every state.
LEMMA NothingFollows ==
    ASSUME NEW w \in Fields, FramesFit PROVE Follows(w, 0)
<1>1. /\ w.startBuffer \in Seq(Frames) /\ w.tailBuffer \in Seq(Frames)
      /\ w.startActivity \in Seq(Activities) /\ w.speechActivity \in Seq(Activities)
  BY DEF Fields
<1>2. /\ EndsWith(w.startBuffer, 0, Regular) /\ EndsWith(w.startActivity, 0, Steady(TRUE))
      /\ EndsWith(w.speechActivity, 0, Steady(FALSE))
  BY <1>1, EndsWithNone
<1>3. TotalMs(w.tailBuffer) \in Nat
  BY <1>1, FramesLast, TotalMsTyped
<1>4. PICK m \in Nat : m >= 3 /\ EndWindow = FrameMs * m
  BY EndWindowIs
<1>5. SilencePadding \in Nat /\ SilencePadding > 20
  BY VadAssumption DEF FramesFit, FrameMs
<1>6. /\ 0 = FrameMs * 0 /\ 0 < StartWindow /\ 0 < EndWindow
      /\ 0 <= EndWindow - FrameMs + TotalMs(w.tailBuffer)
      /\ 0 < EndWindow + SilencePadding - FrameMs
  BY <1>3, <1>4, <1>5 DEF FrameMs, StartWindow
<1>7. \A j \in 0..0 : j = 0
  OBVIOUS
<1> QED
  BY <1>2, <1>6, <1>7 DEF Follows

\* What becomes of a possible start, and of one with nothing but active frames.
LEMMA StartDecided ==
    ASSUME NEW u \in Fields, u.state = "candidateStart", NEW score,
           NEW r, r = MaybeConfirmStart(u, score), r.vad.state = "candidateStart"
    PROVE  /\ r.vad = u
           /\ \/ TotalMs(u.startBuffer) # 60 \/ TotalMs(u.startActivity) # 60
              \/ ActiveMs(u.startActivity) # 60
<1> DEFINE p == [u EXCEPT !.state = "speaking", !.segmentMs = TotalMs(u.startBuffer),
                          !.speechActivity = u.startActivity, !.preRoll = <<>>,
                          !.startBuffer = <<>>, !.startActivity = <<>>]
           begin == [vad     |-> p,
                     packets |-> Names(u.preRoll \o u.startBuffer),
                     events  |-> <<"speaking">>]
           short == TotalMs(u.startBuffer) < StartWindow \/ TotalMs(u.startActivity) < StartWindow
           full == FullAtLeast(u.startActivity, StartWindow, 60)
<1>1. FalseStart(u).state = "idle" /\ p.state = "speaking"
  BY DEF Fields, FalseStart
<1>2. /\ r = Quiet(u) \/ r = Quiet(FalseStart(u)) \/ r = begin
      /\ ~short /\ full => r = Quiet(FalseStart(u)) \/ r = begin
  BY DEF MaybeConfirmStart
<1> HIDE DEF p, short, full
<1>3. r = Quiet(u)
  BY <1>1, <1>2 DEF Quiet
<1>4. ~(~short /\ full)
  BY <1>1, <1>2 DEF Quiet
<1> SUFFICES ASSUME TotalMs(u.startBuffer) = 60, TotalMs(u.startActivity) = 60,
                    ActiveMs(u.startActivity) = 60
             PROVE  FALSE
  BY <1>3 DEF Quiet
<1>5. ~short
  BY Windows DEF short
<1>6. full
  BY Windows DEF full, FullAtLeast
<1> QED
  BY <1>4, <1>5, <1>6

LEMMA ActivityObserved ==
    ASSUME FrameMs \in Lengths, NEW hi, NEW k \in Nat, k + 1 <= 3,
           NEW t \in Seq(Activities), EndsWith(t, k, Steady(TRUE)), NEW a,
           a = PushActivity(t, Frame(hi, FrameMs), TRUE, StartWindow)
    PROVE  /\ EndsWith(a, k + 1, Steady(TRUE)) /\ TotalMs(a) <= StartWindow
           /\ a \in Seq(Activities)
<1>1. PICK m \in Nat : m = 3
  OBVIOUS
<1>2. StartWindow = FrameMs * m /\ k + 1 <= m /\ StartWindow \in Nat
  BY <1>1 DEF StartWindow, FrameMs
<1> QED
  BY <1>2, PushSteady

\* A possible start that remains one: three active frames would have confirmed or ended it.
LEMMA StartFollows ==
    ASSUME FramesFit, FrameMs \in Lengths, NEW hi \in Nat, NEW score,
           NEW k \in Nat, FrameMs * k < StartWindow,
           NEW s \in Seq(Frames), EndsWith(s, k, Regular),
           NEW t \in Seq(Activities), EndsWith(t, k, Steady(TRUE)),
           NEW u \in Fields, u.state = "candidateStart",
           u.startBuffer = Push(s, Frame(hi, FrameMs), StartWindow),
           u.startActivity = PushActivity(t, Frame(hi, FrameMs), TRUE, StartWindow),
           NEW r, r = MaybeConfirmStart(u, score), r.vad.state = "candidateStart"
    PROVE  Follows(r.vad, FrameMs * k + FrameMs)
<1>1. StartWindow \in Nat /\ StartWindow = FrameMs * 3 /\ 3 \in Nat /\ k + 1 \in Nat /\ k + 1 <= 3
  BY DEF StartWindow, FrameMs
<1>2. /\ EndsWith(u.startBuffer, k + 1, Regular) /\ TotalMs(u.startBuffer) <= StartWindow
      /\ u.startBuffer \in Seq(Frames)
  <2> DEFINE f == Frame(hi, FrameMs)
  <2>1. f \in Frames /\ f \in Regular /\ \A x \in Regular : x.ms = FrameMs
    BY DEF Frames, Frame, Regular
  <2>2. \A x \in Frames : x.ms \in Nat
    BY FramesLast
  <2> HIDE DEF f
  <2>3. EndsWith(Push(s, f, StartWindow), k + 1, Regular)
    BY <1>1, <2>1, <2>2, PushEndsWith
  <2>4. Push(s, f, StartWindow) \in Seq(Frames) /\ TotalMs(Push(s, f, StartWindow)) <= StartWindow
    BY <1>1, <2>1, <2>2, PushIs
  <2> QED BY <2>3, <2>4 DEF f
<1>3. /\ EndsWith(u.startActivity, k + 1, Steady(TRUE)) /\ TotalMs(u.startActivity) <= StartWindow
      /\ u.startActivity \in Seq(Activities)
  BY <1>1, ActivityObserved
<1>4. u.startBuffer \in Seq(Frames) /\ \A x \in Frames : x.ms \in Nat \ {0}
  BY VadAssumption DEF Fields, Frames
<1>5. /\ r.vad = u
      /\ \/ TotalMs(u.startBuffer) # 60 \/ TotalMs(u.startActivity) # 60
         \/ ActiveMs(u.startActivity) # 60
  BY StartDecided
<1>6. k + 1 # 3
  <2> SUFFICES ASSUME k + 1 = 3 PROVE FALSE
    OBVIOUS
  <2>1. PICK m \in Nat, active \in BOOLEAN : m = 3 /\ active = TRUE
    OBVIOUS
  <2>2. TotalMs(u.startBuffer) = FrameMs * m
    <3>1. \A x \in Regular : x.ms = FrameMs
      BY DEF Regular
    <3> QED BY <1>1, <1>2, <1>4, <2>1, <3>1, FullOfFrames
  <2>3. /\ TotalMs(u.startActivity) = FrameMs * m
        /\ ActiveMs(u.startActivity) = IF active THEN FrameMs * m ELSE 0
    BY ZenonT(30), <1>1, <1>3, <2>1, FullOfActivity
  <2>4. FrameMs * m = 60
    BY <2>1 DEF FrameMs
  <2> QED BY <1>5, <2>1, <2>2, <2>3, <2>4
<1>7. FrameMs * k + FrameMs = FrameMs * (k + 1) /\ FrameMs * (k + 1) < StartWindow
  BY <1>1, <1>6 DEF FrameMs, StartWindow
<1> QED
  BY <1>1, <1>2, <1>3, <1>5, <1>7 DEF Follows

\* A window of silence as long as the end window lets an utterance end.
LEMMA SilenceEnds ==
    ASSUME NEW w \in Fields, NEW m \in Nat, m > 0, EndWindow = FrameMs * m,
           EndsWith(w.speechActivity, m, Steady(FALSE)), TotalMs(w.speechActivity) <= EndWindow
    PROVE  EndsLikely(w)
<1>1. w.speechActivity \in Seq(Activities)
  BY DEF Fields
<1>2. TotalMs(w.speechActivity) = FrameMs * m /\ ActiveMs(w.speechActivity) = 0
  BY <1>1, FullOfActivity
<1> QED
  BY <1>2 DEF EndsLikely, FullAtMost, FrameMs

\* The window of an open utterance, with one more silent frame.
LEMMA SilenceObserved ==
    ASSUME v \in Fields, FrameMs \in Lengths, NEW k \in Nat,
           EndsWith(v.speechActivity, k, Steady(FALSE)), NEW n \in Nat, n = k + 1,
           NEW m \in Nat, n <= m,
           EndWindow = FrameMs * m, NEW hi, NEW w, w = Observed(Frame(hi, FrameMs), FALSE)
    PROVE  /\ EndsWith(w.speechActivity, n, Steady(FALSE))
           /\ TotalMs(w.speechActivity) <= EndWindow
<1>1. v.speechActivity \in Seq(Activities)
  BY DEF Fields
<1>2. w.speechActivity = PushActivity(v.speechActivity, Frame(hi, FrameMs), FALSE, EndWindow)
  BY DEF Observed, Fields
<1> QED
  BY ZenonT(30), <1>1, <1>2, Windows, PushSteady

-----------------------------------------------------------------------------
(* Steps *)

\* Every frame goes to the handler of the state, which does one of the four things.
LEMMA NextHandled ==
    ASSUME IInv, Next
    PROVE  \E r : /\ Handled(r, Newest, heard + 1)
                  /\ heard' = heard + 1 /\ heard' \in 0..MaxFrames
                  /\ v' = r.vad /\ told' = told \o r.packets /\ said' = said \o r.events
                  /\ contrary' \in Nat
<1>1. /\ Newest \in Nat /\ heard \in Nat /\ Newest <= heard /\ Kept(v, Newest, heard)
      /\ MaxFrames \in Nat /\ contrary \in Nat /\ heard <= MaxFrames
  BY VadAssumption DEF IInv
<1>2. PICK ms \in Lengths, active \in BOOLEAN, score \in Scores :
          LET f == [n |-> heard + 1, ms |-> ms]
          IN \/ v.state = "idle" /\ Hear(f, active, ProcessIdle(f, active, score))
             \/ /\ v.state = "candidateStart"
                /\ Hear(f, active, ProcessCandidateStart(f, active, score))
             \/ v.state = "speaking" /\ Hear(f, active, ProcessSpeaking(f, active))
             \/ /\ v.state = "candidateEnd"
                /\ Hear(f, active, ProcessCandidateEnd(f, active, score))
  BY DEF Next, Gate
<1> DEFINE f == Frame(heard + 1, ms)
<1>3. PICK r : Handled(r, Newest, heard + 1) /\ Hear(f, active, r)
  <2>1. CASE v.state = "idle"
    BY <1>1, <1>2, <2>1, IdleHandled DEF Frame
  <2>2. CASE v.state = "candidateStart"
    BY <1>1, <1>2, <2>2, CandidateStartHandled DEF Frame
  <2>3. CASE v.state = "speaking"
    BY <1>1, <1>2, <2>3, SpeakingHandled DEF Frame
  <2>4. CASE v.state = "candidateEnd"
    BY <1>1, <1>2, <2>4, CandidateEndHandled DEF Frame
  <2> QED BY <1>2, <2>1, <2>2, <2>3, <2>4
<1>4. f.n = heard + 1 /\ f.ms \in Nat
  BY VadAssumption DEF Frame
<1>5. contrary' \in Nat
  BY <1>1, <1>3, <1>4 DEF Hear
<1>6. heard' = heard + 1 /\ heard' \in 0..MaxFrames
  BY <1>1, <1>3, <1>4 DEF Hear
<1> QED
  BY <1>3, <1>5, <1>6 DEF Hear

LEMMA NamesArePackets == \A p \in Seq(Nat) : p \in Seq(Packet)
<1>1. Nat \subseteq Packet
  BY DEF Packet
<1> QED
  BY <1>1, SeqMonotonic

LEMMA RunTyped ==
    ASSUME NEW a \in Nat, NEW b \in Nat, a <= b
    PROVE  /\ Run(a + 1, b) \in Seq(Nat) /\ Len(Run(a + 1, b)) = b - a
           /\ \A i \in 1..(b - a) : Run(a + 1, b)[i] = a + i
<1>1. b - (a + 1) + 1 = b - a /\ b - a \in Nat /\ \A i \in 1..(b - a) : (a + 1) + i - 1 = a + i
  OBVIOUS
<1>2. Run(a + 1, b) = [i \in 1..(b - a) |-> a + i]
  BY <1>1 DEF Run
<1>3. \A i \in 1..(b - a) : a + i \in Nat
  OBVIOUS
<1> QED
  BY <1>1, <1>2, <1>3

\* The newest frame handed on after a run of frames from the last one.
LEMMA NewestAfterRun ==
    ASSUME NEW t \in Seq(Packet), NEW b \in Nat, NewestIn(t) \in Nat, NewestIn(t) <= b
    PROVE  /\ t \o Run(NewestIn(t) + 1, b) \in Seq(Packet)
           /\ NewestIn(t \o Run(NewestIn(t) + 1, b)) = b
<1> DEFINE a == NewestIn(t)
           p == Run(a + 1, b)
<1>1. p \in Seq(Nat) /\ Len(p) = b - a /\ \A i \in 1..(b - a) : p[i] = a + i
  BY RunTyped
<1>2. NewestIn(t \o p) = IF p = <<>> THEN a ELSE p[Len(p)]
  BY <1>1, NewestOfFrames
<1>3. p \in Seq(Packet)
  BY <1>1, NamesArePackets
<1> HIDE DEF p, a
<1>4. (IF p = <<>> THEN a ELSE p[Len(p)]) = b
  <2>1. a \in Nat /\ a <= b
    BY DEF a
  <2>2. CASE p = <<>>
    BY <1>1, <2>1, <2>2
  <2>3. CASE p # <<>>
    <3>1. b - a \in 1..(b - a)
      BY <1>1, <2>1, <2>3
    <3> QED BY <1>1, <2>1, <2>3, <3>1
  <2> QED BY <2>2, <2>3
<1> QED
  BY <1>2, <1>3, <1>4 DEF p, a

Events == {"speaking", "silence", "eou"}

\* The four things a step does to what was handed on.
LEMMA StepTells ==
    ASSUME IInv, NEW r, Handled(r, Newest, heard + 1),
           v' = r.vad, told' = told \o r.packets, said' = said \o r.events
    PROVE  /\ told' \in Seq(Packet) /\ said' \in Seq(Events)
           /\ Newest' \in 0..(heard + 1) /\ Kept(v', Newest', heard + 1)
<1> DEFINE hi == heard + 1
<1>1. /\ told \in Seq(Packet) /\ said \in Seq(Events) /\ hi \in Nat
      /\ NewestIn(told) \in Nat /\ NewestIn(told) <= heard /\ NewestIn(told) <= hi
      /\ heard \in Nat
  BY VadAssumption DEF IInv, Events, Newest
<1>2. Newest' = NewestIn(told') /\ Newest = NewestIn(told)
  BY DEF Newest
<1>3. CASE Holds(r, Newest, hi)
  <2>1. told' = told /\ said' = said
    BY <1>1, <1>3 DEF Holds
  <2> QED BY <1>1, <1>2, <1>3, <2>1 DEF Holds
<1>4. CASE Begins(r, Newest, hi)
  <2>1. /\ r.packets \in Seq(Nat) /\ r.packets # <<>> /\ r.packets[Len(r.packets)] = hi
        /\ r.events = <<"speaking">> /\ Kept(r.vad, hi, hi)
    BY <1>4 DEF Begins
  <2>2. Newest' = hi
    BY <1>1, <1>2, <2>1, NewestOfFrames
  <2>3. told' \in Seq(Packet)
    <3>1. r.packets \in Seq(Packet)
      BY <2>1, NamesArePackets
    <3> QED BY <1>1, <3>1
  <2>4. said' \in Seq(Events)
    <3>1. <<"speaking">> \in Seq(Events)
      BY DEF Events
    <3> QED BY <1>1, <2>1, <3>1
  <2> QED BY <1>1, <2>1, <2>2, <2>3, <2>4
<1>5. CASE Continues(r, Newest, hi)
  <2>1. told' = told \o Run(NewestIn(told) + 1, hi) /\ said' = said /\ Kept(r.vad, hi, hi)
    BY <1>1, <1>2, <1>5 DEF Continues
  <2>2. Newest' = hi /\ told' \in Seq(Packet)
    BY <1>1, <1>2, <2>1, NewestAfterRun
  <2> QED BY <1>1, <2>1, <2>2
<1>6. CASE Finishes(r, Newest, hi)
  <2>1. PICK upTo \in Newest..hi : r.packets = Append(Run(Newest + 1, upTo), End)
    BY <1>6 DEF Finishes
  <2>2. r.vad = Idle /\ r.events = <<"silence", "eou">>
    BY <1>6 DEF Finishes
  <2> DEFINE q == told \o Run(NewestIn(told) + 1, upTo)
  <2>3. q \in Seq(Packet) /\ NewestIn(q) = upTo
    <3>1. upTo \in Nat /\ NewestIn(told) <= upTo
      BY <1>1, <1>2, <2>1
    <3> QED BY <1>1, <3>1, NewestAfterRun
  <2>4. told' = Append(q, End)
    <3>1. Run(NewestIn(told) + 1, upTo) \in Seq(Nat)
      BY SMTT(30), <1>1, <1>2, <2>1, RunTyped
    <3>2. Run(NewestIn(told) + 1, upTo) \in Seq(Packet) /\ End \in Packet
      BY SMTT(30), <3>1 DEF Packet
    <3>3. told' = told \o Append(Run(NewestIn(told) + 1, upTo), End)
      BY <1>2, <2>1
    <3> QED BY SMTT(30), <1>1, <3>2, <3>3
  <2> HIDE DEF q
  <2>5. told' \in Seq(Packet) /\ Newest' = upTo
    <3>1. End \in Packet
      BY DEF Packet
    <3> QED BY <1>2, <2>3, <2>4, <3>1, NewestBeforeEnd
  <2>6. said' \in Seq(Events)
    <3>1. <<"silence", "eou">> \in Seq(Events)
      BY DEF Events
    <3> QED BY <1>1, <2>2, <3>1
  <2>7. Kept(Idle, upTo, hi)
    <3>1. Ascending(<<>>, upTo, hi)
      BY <1>1, <1>2, <2>1, EmptyAscends
    <3>2. /\ Idle.state = "idle" /\ Idle.preRoll = <<>> /\ Idle.startBuffer = <<>>
          /\ Idle.tailBuffer = <<>> /\ Idle \in Fields
      BY EmptyTyped DEF Idle, Fields, States
    <3>3. PreRoll \in Nat
      BY VadAssumption
    <3> QED BY <3>1, <3>2, <3>3, TotalMsEmpty, Windows DEF Kept
  <2> QED BY SMTT(30), <1>1, <1>2, <2>1, <2>2, <2>5, <2>6, <2>7
<1> QED
  BY <1>3, <1>4, <1>5, <1>6 DEF Handled

LEMMA InitIInv == Init => IInv
<1> SUFFICES ASSUME Init PROVE IInv
  OBVIOUS
<1>1. v = Idle /\ heard = 0 /\ told = <<>> /\ said = <<>> /\ contrary = 0
  BY DEF Init
<1>2. Newest = 0
  <2>1. {i \in DOMAIN <<>> : <<>>[i] # End} = {}
    OBVIOUS
  <2> QED BY <1>1, <2>1 DEF Newest, NewestIn
<1>3. Ascending(<<>>, 0, 0)
  BY EmptyAscends
<1>4. /\ Idle.state = "idle" /\ Idle.preRoll = <<>> /\ Idle.startBuffer = <<>>
      /\ Idle.tailBuffer = <<>> /\ Idle \in Fields
  BY EmptyTyped DEF Idle, Fields, States
<1>5. PreRoll \in Nat /\ MaxFrames \in Nat
  BY VadAssumption
<1>6. Kept(Idle, 0, 0)
  BY <1>3, <1>4, <1>5, TotalMsEmpty, Windows DEF Kept
<1>7. <<>> \in Seq(Packet) /\ <<>> \in Seq({"speaking", "silence", "eou"})
  OBVIOUS
<1> QED
  BY <1>1, <1>2, <1>5, <1>6, <1>7 DEF IInv

LEMMA NextIInv == IInv /\ [Next]_vars => IInv'
<1> SUFFICES ASSUME IInv, [Next]_vars PROVE IInv'
  OBVIOUS
<1>1. CASE Next
  <2>1. PICK r : /\ Handled(r, Newest, heard + 1)
                 /\ heard' = heard + 1 /\ heard' \in 0..MaxFrames
                 /\ v' = r.vad /\ told' = told \o r.packets /\ said' = said \o r.events
                 /\ contrary' \in Nat
    BY <1>1, NextHandled
  <2>2. /\ told' \in Seq(Packet) /\ said' \in Seq(Events)
        /\ Newest' \in 0..(heard + 1) /\ Kept(v', Newest', heard + 1)
    BY <2>1, StepTells
  <2> QED BY <2>1, <2>2 DEF IInv, Events
<1>2. CASE UNCHANGED vars
  BY <1>2 DEF vars, IInv, Newest, Kept
<1> QED
  BY <1>1, <1>2

-----------------------------------------------------------------------------
(* The refinement: what the recogniser sees is an UtteranceFeed. *)

\* What is handed on in this step is what the handler returned.
LEMMA BatchIs ==
    ASSUME NEW p \in Seq(Packet), p # <<>>, told \in Seq(Packet), told' = told \o p
    PROVE  Feed!Batch = p /\ IsPrefix(told, told')
<1>1. /\ Len(told) \in Nat /\ Len(p) \in Nat /\ Len(told') = Len(told) + Len(p)
      /\ told' \in Seq(Packet) /\ \A i \in 1..Len(told) : told'[i] = told[i]
      /\ \A i \in 1..Len(p) : told'[Len(told) + i] = p[i]
  OBVIOUS
<1>2. Feed!Batch = p
  <2>1. /\ Len(told) + 1 \in Len(told) + 1..Len(told) + Len(p)
        /\ Len(told) + Len(p) \in Len(told) + 1..Len(told) + Len(p)
        /\ Len(told) + 1 - Len(told) = 1 /\ Len(told) + Len(p) - Len(told) = Len(p)
    BY <1>1
  <2>2. SubSeq(told \o p, Len(told) + 1, Len(told) + Len(p)) = SubSeq(p, 1, Len(p))
    BY <2>1, SubSeqOfConcat2
  <2> QED BY <1>1, <2>2, SubSeqFull DEF Feed!Batch
<1>3. SubSeq(told', 1, Len(told)) = SubSeq(told, 1, Len(told))
  <2>1. /\ SubSeq(told', 1, Len(told)) \in Seq(Packet)
        /\ Len(SubSeq(told', 1, Len(told))) = Len(told)
        /\ \A i \in 1..Len(told) : SubSeq(told', 1, Len(told))[i] = told'[i]
    BY <1>1
  <2>2. SubSeq(told, 1, Len(told)) = told
    BY SubSeqFull
  <2> QED BY <1>1, <2>1, <2>2, SeqEqual
<1> QED
  BY <1>1, <1>2, <1>3 DEF IsPrefix

LEMMA StepFeeds ==
    ASSUME IInv, NEW r, Handled(r, Newest, heard + 1), heard' = heard + 1,
           v' = r.vad, told' = told \o r.packets, said' = said \o r.events
    PROVE  Feed!Next
<1> DEFINE hi == heard + 1
<1>1. /\ told \in Seq(Packet) /\ said \in Seq(Events) /\ Newest \in Nat /\ heard \in Nat
      /\ Newest <= heard /\ hi \in Nat
  BY VadAssumption DEF IInv, Events
<1>2. Feed!Newest = Newest
  BY DEF Feed!Newest, Newest, NewestIn, Max, Feed!Max
<1>3. (Open' <=> IsOpen(r.vad)) /\ Open \in BOOLEAN /\ Open' \in BOOLEAN
  BY DEF Open, IsOpen
<1>4. CASE Holds(r, Newest, hi)
  <2>1. told' = told /\ said' = said /\ (Open' <=> Open)
    BY <1>1, <1>3, <1>4 DEF Holds
  <2>2. Open' = Open
    BY <1>3, <2>1
  <2> QED BY <2>1, <2>2 DEF Feed!Next, Feed!Hold
<1>5. CASE Begins(r, Newest, hi)
  <2>1. /\ ~Open /\ IsOpen(r.vad) /\ r.packets \in Seq(Nat) /\ r.packets # <<>>
        /\ r.packets[Len(r.packets)] = hi
        /\ \A i \in 1..Len(r.packets) : r.packets[i] \in (Newest + 1)..hi
        /\ \A i, j \in 1..Len(r.packets) : i < j => r.packets[i] < r.packets[j]
        /\ r.events = <<"speaking">>
    BY <1>5 DEF Begins, IsOpen
  <2>2. Feed!Batch = r.packets /\ IsPrefix(told, told')
    BY <1>1, <2>1, NamesArePackets, BatchIs
  <2>3. said' = Append(said, "speaking")
    BY <1>1, <2>1 DEF Events
  <2>4. \A i \in DOMAIN r.packets : r.packets[i] \in (Newest + 1)..hi
    <3> DEFINE p == r.packets
    <3>1. p \in Seq(Nat)
      BY <2>1
    <3>2. DOMAIN p = 1..Len(p)
      <4> HIDE DEF p
      <4> QED BY <3>1
    <3> QED BY <2>1, <3>2
  <2>5. \A i \in 1..(Len(r.packets) - 1) : r.packets[i] < r.packets[i + 1]
    <3>1. \A i \in 1..(Len(r.packets) - 1) :
              i \in 1..Len(r.packets) /\ i + 1 \in 1..Len(r.packets) /\ i < i + 1
      BY <2>1
    <3> QED BY <2>1, <3>1
  <2>6. Feed!Begin
    <3>1. ~Open /\ Open' /\ Feed!Batch # <<>> /\ Feed!Batch[Len(Feed!Batch)] = heard'
      BY <1>3, <2>1, <2>2
    <3>2. \A i \in DOMAIN Feed!Batch : Feed!Batch[i] \in (Feed!Newest + 1)..heard'
      BY <1>2, <2>2, <2>4
    <3>3. \A i \in 1..(Len(Feed!Batch) - 1) : Feed!Batch[i] < Feed!Batch[i + 1]
      BY <2>2, <2>5
    <3>4. Feed!IsPrefix(told, told')
      BY <2>2 DEF IsPrefix, Feed!IsPrefix
    <3> QED BY <2>3, <3>1, <3>2, <3>3, <3>4 DEF Feed!Begin
  <2> QED BY <2>6 DEF Feed!Next
<1>6. CASE Continues(r, Newest, hi)
  <2>1. /\ Open /\ IsOpen(r.vad) /\ r.packets = Run(Newest + 1, hi) /\ r.events = <<>>
    BY <1>6 DEF Continues, IsOpen
  <2>2. said' = said
    BY <1>1, <2>1
  <2>3. Run(Newest + 1, hi) = Feed!Run(Newest + 1, hi)
    BY DEF Run, Feed!Run
  <2>4. Feed!Continue
    BY <1>2, <1>3, <2>1, <2>2, <2>3 DEF Feed!Continue
  <2> QED BY <2>4 DEF Feed!Next
<1>7. CASE Finishes(r, Newest, hi)
  <2>1. PICK upTo \in Newest..hi : r.packets = Append(Run(Newest + 1, upTo), End)
    BY <1>7 DEF Finishes
  <2>2. Open /\ ~IsOpen(r.vad) /\ r.events = <<"silence", "eou">>
    BY <1>7 DEF Finishes, Idle, IsOpen
  <2>3. told' = Append(told \o Feed!Run(Newest + 1, upTo), End)
    <3>1. Run(Newest + 1, upTo) \in Seq(Nat)
      BY <1>1, <2>1, RunTyped
    <3>2. Run(Newest + 1, upTo) \in Seq(Packet) /\ End \in Packet
      BY <3>1, NamesArePackets DEF Packet
    <3>3. told' = told \o Append(Run(Newest + 1, upTo), End)
      BY <2>1
    <3>4. told' = Append(told \o Run(Newest + 1, upTo), End)
      BY SMTT(30), <1>1, <3>2, <3>3
    <3> QED BY <3>4 DEF Run, Feed!Run
  <2>4. \E n \in Feed!Newest..heard' : told' = Append(told \o Feed!Run(Feed!Newest + 1, n), End)
    BY <1>2, <2>1, <2>3
  <2>5. Feed!Finish
    BY <1>2, <1>3, <2>2, <2>4 DEF Feed!Finish
  <2> QED BY <2>5 DEF Feed!Next
<1> QED
  BY <1>4, <1>5, <1>6, <1>7 DEF Handled

-----------------------------------------------------------------------------
(* The gate is followed: one lemma per handler, for a contrary frame.        *)

LEMMA IdleFollows ==
    ASSUME v \in Fields, v.state = "idle", Follows(v, contrary), FramesFit, FrameMs \in Lengths,
           NEW hi \in Nat, NEW score, NEW r,
           r = ProcessIdle(Frame(hi, FrameMs), TRUE, score), r.vad.state = "candidateStart"
    PROVE  Follows(r.vad, contrary + FrameMs)
<1> DEFINE f == Frame(hi, FrameMs)
           b == Push(<<>>, f, StartWindow)
           a == PushActivity(<<>>, f, TRUE, StartWindow)
           u == [v EXCEPT !.state = "candidateStart", !.startBuffer = b, !.startActivity = a]
<1>1. b \in Seq(Frames) /\ a \in Seq(Activities)
  <2>1. f \in Frames
    BY DEF Frames, Frame
  <2>2. b \in Seq(Frames)
    <3> HIDE DEF f
    <3> QED BY <2>1, EmptyTyped, FramesLast, Windows, PushIs
  <2>3. a \in Seq(Activities)
    BY EmptyTyped, Windows, PushActivityTyped DEF Frame
  <2> QED BY <2>2, <2>3
<1>2. r = MaybeConfirmStart(u, score)
  BY DEF ProcessIdle
<1> HIDE DEF a, b, f
<1>3. u \in Fields /\ u.state = "candidateStart" /\ u.startBuffer = b /\ u.startActivity = a
  BY <1>1 DEF Fields, States
<1> HIDE DEF u
<1>4. contrary = 0
  BY DEF Follows, FrameMs
<1>5. PICK k \in Nat : k = 0
  OBVIOUS
<1>6. EndsWith(<<>>, k, Regular) /\ EndsWith(<<>>, k, Steady(TRUE)) /\ FrameMs * k < StartWindow
  <2>1. EndsWith(<<>>, 0, Regular) /\ EndsWith(<<>>, 0, Steady(TRUE))
    BY EmptyTyped, EndsWithNone
  <2>2. FrameMs * 0 < StartWindow
    BY DEF FrameMs, StartWindow
  <2> QED BY <1>5, <2>1, <2>2
<1>7. Follows(r.vad, FrameMs * k + FrameMs)
  BY <1>2, <1>3, <1>6, EmptyTyped, StartFollows DEF a, b, f
<1>8. FrameMs * k = contrary
  BY <1>4, <1>5 DEF FrameMs
<1> QED
  BY <1>7, <1>8

LEMMA CandidateStartFollows ==
    ASSUME v \in Fields, v.state = "candidateStart", Follows(v, contrary), FramesFit,
           FrameMs \in Lengths, NEW hi \in Nat, NEW score, NEW r,
           r = ProcessCandidateStart(Frame(hi, FrameMs), TRUE, score),
           r.vad.state = "candidateStart"
    PROVE  Follows(r.vad, contrary + FrameMs)
<1> DEFINE f == Frame(hi, FrameMs)
           s == v.startBuffer
           t == v.startActivity
           b == Push(s, f, StartWindow)
           a == PushActivity(t, f, TRUE, StartWindow)
           u == [v EXCEPT !.startBuffer = b, !.startActivity = a]
<1>1. s \in Seq(Frames) /\ t \in Seq(Activities)
  BY DEF Fields
<1>2. r = MaybeConfirmStart(u, score)
  BY DEF ProcessCandidateStart
<1>3. PICK k \in Nat : /\ contrary = FrameMs * k /\ contrary < StartWindow
                       /\ EndsWith(s, k, Regular) /\ EndsWith(t, k, Steady(TRUE))
  BY DEF Follows
<1> HIDE DEF s, t
<1>4. b \in Seq(Frames) /\ a \in Seq(Activities)
  <2>1. f \in Frames
    BY DEF Frames, Frame
  <2>2. b \in Seq(Frames)
    <3> HIDE DEF f
    <3> QED BY <1>1, <2>1, FramesLast, Windows, PushIs
  <2>3. a \in Seq(Activities)
    BY <1>1, Windows, PushActivityTyped DEF Frame
  <2> QED BY <2>2, <2>3
<1> HIDE DEF a, b, f
<1>5. u \in Fields /\ u.state = "candidateStart" /\ u.startBuffer = b /\ u.startActivity = a
  BY <1>4 DEF Fields
<1> HIDE DEF u
<1>6. Follows(r.vad, FrameMs * k + FrameMs)
  BY <1>1, <1>2, <1>3, <1>5, StartFollows DEF a, b, f
<1> QED
  BY <1>3, <1>6

\* Silence in an open utterance, which remains open.
LEMMA SpeakingFollows ==
    ASSUME v \in Fields, v.state = "speaking", Follows(v, contrary), FramesFit,
           FrameMs \in Lengths, NEW hi \in Nat, NEW r,
           r = ProcessSpeaking(Frame(hi, FrameMs), FALSE),
           r.vad.state \in {"speaking", "candidateEnd"}
    PROVE  Follows(r.vad, contrary + FrameMs)
<1> DEFINE f == Frame(hi, FrameMs)
           w == Observed(f, FALSE)
           x == [w EXCEPT !.state = "candidateEnd", !.tailBuffer = <<f>>]
           y == [w EXCEPT !.segmentMs = @ + f.ms]
<1>1. w \in Fields /\ w.state = "speaking"
  BY ObservedIs
<1>2. PICK k \in Nat : /\ contrary = FrameMs * k /\ contrary < EndWindow
                       /\ EndsWith(v.speechActivity, k, Steady(FALSE))
  BY DEF Follows
<1>3. PICK m \in Nat : m >= 3 /\ EndWindow = FrameMs * m
  BY EndWindowIs
<1>4. PICK n \in Nat : n = k + 1 /\ n <= m
  <2>1. k + 1 <= m /\ k + 1 \in Nat
    BY <1>2, <1>3 DEF FrameMs
  <2> QED BY <2>1
<1>5. /\ EndsWith(w.speechActivity, n, Steady(FALSE))
      /\ TotalMs(w.speechActivity) <= EndWindow
  BY <1>2, <1>3, <1>4, SilenceObserved
<1>6. /\ EndsLikely(w) => r.vad = x
      /\ ~EndsLikely(w) => r.vad = y \/ r.vad = Idle
  BY DEF ProcessSpeaking, Quiet, MaybeForceEnd, EndSegment
<1>7. contrary + FrameMs = FrameMs * n
  BY <1>2, <1>4 DEF FrameMs
<1>8. contrary + FrameMs <= EndWindow
  BY <1>3, <1>4, <1>7 DEF FrameMs
<1>9. f \in Frames /\ f.ms = FrameMs
  BY DEF Frame, Frames
<1> HIDE DEF f, w
<1>10. CASE EndsLikely(w)
  <2>1. /\ r.vad.state = "candidateEnd" /\ r.vad.tailBuffer = <<f>>
        /\ r.vad.speechActivity = w.speechActivity
    BY <1>1, <1>6, <1>10 DEF Fields
  <2>2. TotalMs(<<f>>) = FrameMs
    <3> DEFINE u == [i \in 1..1 |-> FrameMs]
    <3>1. \A i \in 1..1 : u[i] = <<f>>[i].ms /\ u[i] = FrameMs
      BY <1>9
    <3>2. <<f>> \in Seq(Frames) /\ Len(<<f>>) = 1 /\ FrameMs \in Nat
      BY <1>9 DEF FrameMs
    <3> HIDE DEF u
    <3>3. TotalMs(<<f>>) = Weigh(u, 1)
      BY <3>1, <3>2, FramesLast, TotalMsIs
    <3>4. Weigh(u, 1) = FrameMs * 1
      BY <3>1, <3>2, WeighAll
    <3> QED BY <3>3, <3>4 DEF FrameMs
  <2>3. \A j \in 0..n : EndsWith(w.speechActivity, j, Steady(FALSE))
    BY <1>1, <1>4, <1>5, EndsWithFewer DEF Fields
  <2>4. /\ contrary + FrameMs <= EndWindow - FrameMs + TotalMs(r.vad.tailBuffer)
        /\ contrary + FrameMs < EndWindow + SilencePadding - FrameMs
    <3>1. SilencePadding \in Nat /\ SilencePadding > FrameMs
      BY VadAssumption DEF FramesFit
    <3>2. EndWindow \in Nat /\ contrary \in Nat
      BY <1>2, Windows DEF FrameMs
    <3>3. TotalMs(r.vad.tailBuffer) = FrameMs /\ FrameMs = 20
      BY <2>1, <2>2 DEF FrameMs
    <3> HIDE DEF x, y
    <3>4. EndWindow - FrameMs + TotalMs(r.vad.tailBuffer) = EndWindow
      <4> DEFINE t == TotalMs(r.vad.tailBuffer)
      <4>1. t = 20 /\ EndWindow \in Nat
        BY <3>2, <3>3
      <4> HIDE DEF t
      <4>2. EndWindow - FrameMs + t = EndWindow
        BY <4>1 DEF FrameMs
      <4> QED BY <4>2 DEF t
    <3>5. contrary + FrameMs < EndWindow + SilencePadding - FrameMs
      BY <1>8, <3>1, <3>2, <3>3
    <3> QED BY <1>8, <3>4, <3>5
  <2> QED BY <1>4, <1>7, <2>1, <2>3, <2>4 DEF Follows
<1>11. CASE ~EndsLikely(w)
  <2>1. y.state = "speaking" /\ y.speechActivity = w.speechActivity /\ Idle.state = "idle"
    BY <1>1 DEF Fields, Idle
  <2>2. r.vad.state = "speaking" /\ r.vad.speechActivity = w.speechActivity
    BY <1>6, <1>11, <2>1
  <2>3. n # m
    <3>1. m > 0
      BY <1>3
    <3> QED BY <1>1, <1>3, <1>5, <1>11, <3>1, SilenceEnds
  <2>4. contrary + FrameMs < EndWindow
    BY <1>3, <1>4, <1>7, <2>3 DEF FrameMs
  <2> QED BY <1>4, <1>5, <1>7, <2>2, <2>4 DEF Follows
<1> QED
  BY <1>10, <1>11

LEMMA QuietIs == \A w : Quiet(w).vad = w
  BY DEF Quiet

\* Silence while an end is possible, and neither taken back nor decided.
LEMMA CandidateEndFollows ==
    ASSUME v \in Fields, v.state = "candidateEnd", Follows(v, contrary), FramesFit,
           FrameMs \in Lengths, NEW hi \in Nat, NEW score, NEW r,
           r = ProcessCandidateEnd(Frame(hi, FrameMs), FALSE, score),
           r.vad.state = "candidateEnd"
    PROVE  Follows(r.vad, contrary + FrameMs)
<1> DEFINE f == Frame(hi, FrameMs)
           tail == Append(v.tailBuffer, f)
           o == Observed(f, FALSE)
           w == [o EXCEPT !.tailBuffer = Append(@, f)]
<1>1. PICK k \in Nat : /\ contrary = FrameMs * k
                       /\ contrary <= EndWindow - FrameMs + TotalMs(v.tailBuffer)
                       /\ contrary < EndWindow + SilencePadding - FrameMs
                       /\ \A j \in 0..k : FrameMs * j <= EndWindow =>
                              EndsWith(v.speechActivity, j, Steady(FALSE))
  BY DEF Follows
<1>2. PICK m \in Nat : m >= 3 /\ EndWindow = FrameMs * m
  BY EndWindowIs
<1>3. /\ f \in Frames /\ f.ms = FrameMs /\ v.tailBuffer \in Seq(Frames)
      /\ o \in Fields /\ o.tailBuffer = v.tailBuffer /\ o.state = "candidateEnd"
  BY ObservedIs DEF Frame, Frames, Fields
<1>4. \A n \in 1..(k + 1) : n <= m =>
          /\ EndsWith(o.speechActivity, n, Steady(FALSE))
          /\ TotalMs(o.speechActivity) <= EndWindow
  <2> SUFFICES ASSUME NEW n \in 1..(k + 1), n <= m
               PROVE  /\ EndsWith(o.speechActivity, n, Steady(FALSE))
                      /\ TotalMs(o.speechActivity) <= EndWindow
    OBVIOUS
  <2>1. PICK i \in 0..k : n = i + 1
    <3>1. n - 1 \in 0..k /\ n = (n - 1) + 1
      OBVIOUS
    <3> QED BY <3>1
  <2>2. FrameMs * i <= EndWindow /\ i \in Nat /\ n \in Nat
    BY <1>2, <2>1 DEF FrameMs
  <2>3. EndsWith(v.speechActivity, i, Steady(FALSE))
    BY <1>1, <2>2
  <2> QED BY <1>2, <2>1, <2>2, <2>3, SilenceObserved
<1>5. /\ Resumes(w) => r = MaybeForceEnd(Speaking(w), Names(w.tailBuffer))
      /\ ~Resumes(w) => IF TotalMs(w.tailBuffer) < SilencePadding \/ ~EndsLikely(w)
                        THEN r = Quiet(w) ELSE r = ConfirmEnd(w, score)
  BY DEF ProcessCandidateEnd
<1> HIDE DEF f, o
<1>6. /\ w \in Fields /\ w.tailBuffer = tail /\ w.speechActivity = o.speechActivity
      /\ w.state = "candidateEnd"
  <2>1. tail \in Seq(Frames)
    BY <1>3
  <2>2. w = [o EXCEPT !.tailBuffer = tail]
    BY <1>3
  <2> HIDE DEF tail, w
  <2> QED BY <1>3, <2>1, <2>2 DEF Fields
<1> HIDE DEF w
<1>7. Speaking(w).state = "speaking" /\ Idle.state = "idle"
  BY <1>6 DEF Speaking, Fields, Idle
<1>8. r.vad = w /\ (TotalMs(w.tailBuffer) < SilencePadding \/ ~EndsLikely(w))
  <2>1. ASSUME NEW p PROVE MaybeForceEnd(Speaking(w), p).vad.state # "candidateEnd"
    <3>1. \/ MaybeForceEnd(Speaking(w), p).vad = Idle
          \/ MaybeForceEnd(Speaking(w), p).vad = Speaking(w)
      BY DEF MaybeForceEnd, EndSegment
    <3> QED BY <1>7, <3>1
  <2>2. ConfirmEnd(w, score).vad.state # "candidateEnd"
    <3>1. ConfirmEnd(w, score).vad = Idle \/ ConfirmEnd(w, score).vad = Speaking(w)
      BY DEF ConfirmEnd, EndSegment
    <3> QED BY <1>7, <3>1
  <2>3. ~Resumes(w)
    BY <1>5, <2>1
  <2>4. r = Quiet(w) /\ (TotalMs(w.tailBuffer) < SilencePadding \/ ~EndsLikely(w))
    BY <1>5, <2>2, <2>3
  <2>5. r.vad = w
    BY <2>4, QuietIs
  <2> QED BY <2>4, <2>5
<1>9. TotalMs(tail) = TotalMs(v.tailBuffer) + FrameMs /\ TotalMs(v.tailBuffer) \in Nat
  BY <1>3, TotalMsAppend
<1> HIDE DEF tail
<1>10. contrary + FrameMs = FrameMs * (k + 1) /\ k + 1 \in Nat /\ contrary \in Nat
  BY <1>1 DEF FrameMs
<1>11. contrary + FrameMs <= EndWindow - FrameMs + TotalMs(tail)
  BY <1>1, <1>9, <1>10, Windows DEF FrameMs
<1>12. EndsLikely(w) \/ contrary + FrameMs < EndWindow
  <2>1. CASE k + 1 < m
    BY <1>2, <1>10, <2>1 DEF FrameMs
  <2>2. CASE ~(k + 1 < m)
    <3>1. m \in 1..(k + 1) /\ m <= m
      BY <1>2, <2>2
    <3>2. EndsWith(o.speechActivity, m, Steady(FALSE)) /\ TotalMs(o.speechActivity) <= EndWindow
      BY <1>4, <3>1
    <3>3. m > 0
      BY <1>2
    <3> QED BY <1>2, <1>6, <3>2, <3>3, SilenceEnds
  <2> QED BY <2>1, <2>2
<1>13. contrary + FrameMs < EndWindow + SilencePadding - FrameMs
  <2>1. SilencePadding \in Nat /\ SilencePadding > FrameMs
    BY VadAssumption DEF FramesFit
  <2>2. TotalMs(tail) < SilencePadding \/ contrary + FrameMs < EndWindow
    BY <1>6, <1>8, <1>12
  <2> QED BY <1>9, <1>10, <1>11, <2>1, <2>2, Windows DEF FrameMs
<1>14. ASSUME NEW j \in 0..(k + 1), FrameMs * j <= EndWindow
       PROVE  EndsWith(w.speechActivity, j, Steady(FALSE))
  <2>1. CASE j = 0
    BY <1>6, <2>1, EndsWithNone DEF Fields
  <2>2. CASE j # 0
    <3>1. j \in 1..(k + 1) /\ j <= m
      BY <1>2, <1>14, <2>2 DEF FrameMs
    <3> QED BY <1>4, <1>6, <3>1
  <2> QED BY <2>1, <2>2
<1> QED
  BY <1>6, <1>8, <1>10, <1>11, <1>13, <1>14 DEF Follows

LEMMA NextFollows ==
    ASSUME IInv, IInv', FramesFit, Follows(v, contrary), Next PROVE Follows(v', contrary')
<1>1. heard + 1 \in Nat /\ v \in Fields /\ v' \in Fields
  BY VadAssumption DEF IInv, Kept
<1>2. PICK ms \in Lengths, active \in BOOLEAN, score \in Scores :
          LET f == [n |-> heard + 1, ms |-> ms]
          IN \/ v.state = "idle" /\ Hear(f, active, ProcessIdle(f, active, score))
             \/ /\ v.state = "candidateStart"
                /\ Hear(f, active, ProcessCandidateStart(f, active, score))
             \/ v.state = "speaking" /\ Hear(f, active, ProcessSpeaking(f, active))
             \/ /\ v.state = "candidateEnd"
                /\ Hear(f, active, ProcessCandidateEnd(f, active, score))
  BY DEF Next, Gate
<1> DEFINE f == Frame(heard + 1, ms)
           Contrary(r) == ContraryFrame(f, active, r)
<1>3. PICK r : /\ Hear(f, active, r)
               /\ v.state = "idle" => r = ProcessIdle(f, active, score)
               /\ v.state = "candidateStart" => r = ProcessCandidateStart(f, active, score)
               /\ v.state = "speaking" => r = ProcessSpeaking(f, active)
               /\ v.state = "candidateEnd" => r = ProcessCandidateEnd(f, active, score)
  <2>1. CASE v.state = "idle"
    BY <1>2, <2>1 DEF Frame
  <2>2. CASE v.state = "candidateStart"
    BY <1>2, <2>2 DEF Frame
  <2>3. CASE v.state = "speaking"
    BY <1>2, <2>3 DEF Frame
  <2>4. CASE v.state = "candidateEnd"
    BY <1>2, <2>4 DEF Frame
  <2> QED BY <1>2, <2>1, <2>2, <2>3, <2>4
<1>4. v' = r.vad /\ contrary' = IF Contrary(r) THEN contrary + f.ms ELSE 0
  BY <1>3 DEF Hear
<1>5. CASE ~Contrary(r)
  BY <1>1, <1>4, <1>5, NothingFollows
<1>6. CASE Contrary(r)
  <2>1. /\ f.ms = FrameMs
        /\ \/ active = TRUE /\ v.state = "idle" /\ r.vad.state = "candidateStart"
           \/ active = TRUE /\ v.state = "candidateStart" /\ r.vad.state = "candidateStart"
           \/ /\ active = FALSE /\ v.state = "speaking"
              /\ r.vad.state \in {"speaking", "candidateEnd"}
           \/ active = FALSE /\ v.state = "candidateEnd" /\ r.vad.state = "candidateEnd"
    BY <1>6 DEF ContraryFrame
  <2>2. ms = FrameMs /\ f = Frame(heard + 1, FrameMs)
    BY <2>1 DEF Frame
  <2> HIDE DEF f
  <2>3. Follows(r.vad, contrary + FrameMs)
    <3>1. CASE active = TRUE /\ v.state = "idle" /\ r.vad.state = "candidateStart"
      BY <1>1, <1>3, <2>2, <3>1, IdleFollows
    <3>2. CASE active = TRUE /\ v.state = "candidateStart" /\ r.vad.state = "candidateStart"
      BY <1>1, <1>3, <2>2, <3>2, CandidateStartFollows
    <3>3. CASE /\ active = FALSE /\ v.state = "speaking"
               /\ r.vad.state \in {"speaking", "candidateEnd"}
      BY <1>1, <1>3, <2>2, <3>3, SpeakingFollows
    <3>4. CASE active = FALSE /\ v.state = "candidateEnd" /\ r.vad.state = "candidateEnd"
      BY <1>1, <1>3, <2>2, <3>4, CandidateEndFollows
    <3> QED BY <2>1, <3>1, <3>2, <3>3, <3>4
  <2> QED BY <1>4, <1>6, <2>1, <2>3
<1> QED
  BY <1>5, <1>6

LEMMA FollowsImplies ==
    ASSUME IInv, FramesFit, Follows(v, contrary) PROVE GateIsFollowed
<1>1. PICK k \in Nat : /\ contrary = FrameMs * k
                       /\ v.state = "idle" => k = 0
                       /\ v.state = "candidateStart" => contrary < StartWindow
                       /\ v.state = "speaking" => contrary < EndWindow
                       /\ v.state = "candidateEnd" =>
                              contrary < EndWindow + SilencePadding - FrameMs
  BY DEF Follows
<1>2. SilencePadding \in Nat /\ SilencePadding > FrameMs
  BY VadAssumption DEF FramesFit
<1>3. v.state \in States
  BY DEF IInv, Kept, Fields
<1> QED
  BY <1>1, <1>2, <1>3, Windows DEF GateIsFollowed, Open, States, FrameMs

-----------------------------------------------------------------------------
(* The theorems *)

\* Whatever the lengths, the gate and the scorer say, the frames that are not handed on
\* yet are in the buffers, in order and within the limits.
THEOREM VadInvariant == Spec => []IInv
BY InitIInv, NextIInv, PTL DEF Spec

\* The fields keep their types, and the buffers before a start their limits.
THEOREM VadTyped == Spec => []TypeOK
BY VadInvariant, IInvImplies, PTL

\* Only an utterance whose end the scorer rejected goes on beyond the maximum
\* (maybeForceEnd, confirmEnd).
THEOREM VadCuts == Spec => []SegmentIsCut
BY VadInvariant, IInvImplies, PTL

\* The segmenter follows the gate, whatever was heard before: frames of 20 ms on which the gate
\* contradicts its state change that state when the windows are full of them. An end window
\* that is no number of frames never fills up with them, and a padding of one frame or less
\* takes a frame longer (maybeConfirmStart, shouldEnterCandidateEnd, shouldConfirmEnd).
THEOREM VadFollowsGate == FramesFit => (Spec => []GateIsFollowed)
<1>1. FramesFit /\ Init => Follows(v, contrary)
  <2>1. Init => v = Idle /\ contrary = 0 /\ Idle \in Fields
    BY EmptyTyped DEF Init, Idle, Fields, States
  <2> QED BY <2>1, NothingFollows
<1>2. FramesFit /\ IInv /\ IInv' /\ Follows(v, contrary) /\ [Next]_vars
          => Follows(v', contrary')
  <2>1. UNCHANGED vars /\ Follows(v, contrary) => Follows(v', contrary')
    BY DEF vars
  <2> QED BY <2>1, NextFollows
<1> DEFINE F == Follows(v, contrary)
<1>3. FramesFit /\ Init => F
  BY <1>1
<1>4. FramesFit /\ IInv /\ IInv' /\ F /\ [Next]_vars => F'
  BY <1>2
<1>5. FramesFit /\ IInv /\ F => GateIsFollowed
  BY FollowsImplies
<1> HIDE DEF F, FramesFit
<1> SUFFICES ASSUME FramesFit PROVE Spec => []GateIsFollowed
  OBVIOUS
<1>6. (Init => F) /\ (IInv /\ IInv' /\ F /\ [Next]_vars => F') /\ (IInv /\ F => GateIsFollowed)
  BY <1>3, <1>4, <1>5
<1> QED
  BY <1>6, VadInvariant, PTL DEF Spec

\* The segmenter implements UtteranceFeed: frames reach the recogniser once and in order, an
\* utterance loses none of its own, and starts and ends alternate.
THEOREM VadFeedsUtterances == Spec => FeedsUtterances
<1>1. Init => Feed!Init
  <2>1. Init => ~Open
    BY DEF Init, Idle, Open
  <2> QED BY <2>1 DEF Init, Feed!Init, Open
<1>2. IInv /\ [Next]_vars => [Feed!Next]_(Feed!vars)
  <2> SUFFICES ASSUME IInv, [Next]_vars PROVE [Feed!Next]_(Feed!vars)
    OBVIOUS
  <2>1. CASE Next
    BY <2>1, NextHandled, StepFeeds
  <2>2. CASE UNCHANGED vars
    BY <2>2 DEF vars, Feed!vars, Open
  <2> QED BY <2>1, <2>2
<1> QED
  BY <1>1, <1>2, VadInvariant, PTL DEF Spec, FeedsUtterances, Feed!Spec
=============================================================================
