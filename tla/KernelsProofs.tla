---------------------------- MODULE KernelsProofs ----------------------------
(***************************************************************************)
(* An attention kernel's row is the exact softmax over its own keys, the   *)
(* backward pass takes every pair of a query row and a key once, a         *)
(* generated token attends its own text, and tensor-parallel ranks compute *)
(* the whole model together, for any tiles, lengths, heads, checkpoint     *)
(* files and interleaving of blocks or of ranks.                           *)
(*                                                                         *)
(* One argument is about one row: the streaming recurrence keeps, after    *)
(* each tile of keys, the greatest score so far, and for every key seen a  *)
(* weight relative to it; rescaling by the next maximum keeps the weights  *)
(* and the sum of the same keys.  The tiles partition the keys a row may   *)
(* see, and the blocks partition the rows, so the launch leaves each row   *)
(* complete when its last block retires.                                   *)
(*                                                                         *)
(* The second is about a training call, whose launches run in the order of *)
(* the stream: each leaves its dues, what it owes the call at each place   *)
(* it writes, and reads the dues of those before it.  The places of the    *)
(* statistics are found through two paddings that must agree.              *)
(*                                                                         *)
(* The third is about the memory between launches: a step of a generation  *)
(* reads a static buffer that holds the text up to now and, beyond it,     *)
(* rows of earlier generations, which the mask keeps out of the sum.       *)
(*                                                                         *)
(* The fourth is about a parameter's rows: a weight's share lands in its   *)
(* own place and apart from every other's, so files can come in any order; *)
(* and a local row and a rank together number each row of the model once.  *)
(***************************************************************************)
EXTENDS Kernels, WellFoundedInduction, SequenceTheorems, TLAPS

-----------------------------------------------------------------------------
(* Greatest elements *)

IsMax(x, S) == x \in S /\ \A y \in S : x >= y

LEMMA MaxIs ==
  ASSUME NEW S, S \subseteq Int, NEW x, IsMax(x, S)
  PROVE  Max(S) = x
<1>1. IsMax(Max(S), S)
  BY DEF Max, IsMax
<1>2. x \in Int /\ Max(S) \in Int /\ x >= Max(S) /\ Max(S) >= x
  BY <1>1 DEF IsMax
<1> QED
  BY <1>2

LEMMA MinIs ==
  ASSUME NEW a \in Int, NEW b \in Int
  PROVE  Min({a, b}) = IF a <= b THEN a ELSE b
<1> DEFINE m == IF a <= b THEN a ELSE b
<1>1. m \in {a, b} /\ \A y \in {a, b} : m <= y
  OBVIOUS
<1>2. Min({a, b}) \in {a, b} /\ \A y \in {a, b} : Min({a, b}) <= y
  BY <1>1 DEF Min
<1> QED
  BY <1>1, <1>2

\* The smaller of two numbers.
LEMMA FirstOf ==
  ASSUME NEW S, S \subseteq Nat, S # {}
  PROVE  \E i \in S : \A j \in S : i <= j
<1> DEFINE Below == {p \in Nat \X Nat : p[1] < p[2]}
<1>1. OpToRel(<, Nat) = Below
  BY DEF OpToRel
<1>2. IsWellFoundedOn(Below, Nat)
  BY <1>1, NatLessThanWellFounded
<1> HIDE DEF Below
<1>3. PICK i \in S : \A j \in S : <<j, i>> \notin Below
  BY <1>2, WFMin
<1>4. \A j \in S : <<j, i>> \in Nat \X Nat
  BY <1>3
<1>5. \A j \in S : ~ (j < i)
  BY <1>3, <1>4 DEF Below
<1> QED
  BY <1>3, <1>5

Values(m, f, lo, hi) == {m} \cup {f[n] : n \in lo .. hi}

\* Finitely many numbers have a greatest.
LEMMA MaxExists ==
  ASSUME NEW lo \in Int, NEW hi \in Int, NEW f, NEW m \in Int,
         \A n \in lo .. hi : f[n] \in Int
  PROVE  \E x : IsMax(x, Values(m, f, lo, hi))
<1> USE DEF Values
<1> DEFINE Up(k) == {m} \cup {f[n] : n \in lo .. lo + k - 1}
           Bad == {k \in Nat : lo + k - 1 <= hi /\ ~ \E x : IsMax(x, Up(k))}
<1>1. Bad = {}
  <2>1. SUFFICES ASSUME Bad # {} PROVE FALSE
    OBVIOUS
  <2>2. PICK k \in Bad : \A j \in Bad : k <= j
    <3>1. Bad \subseteq Nat
      OBVIOUS
    <3> HIDE DEF Bad
    <3> QED
      BY <2>1, <3>1, FirstOf
  <2>3. k # 0
    <3>1. Up(0) = {m}
      OBVIOUS
    <3>2. IsMax(m, Up(0))
      BY <3>1 DEF IsMax
    <3> QED
      BY <3>2, <2>2
  <2>a. k \in Nat /\ lo + k - 1 <= hi /\ ~ \E x : IsMax(x, Up(k))
    BY <2>2
  <2>4. k - 1 \in Nat /\ lo + (k - 1) - 1 <= hi /\ k - 1 \notin Bad
    <3>1. k - 1 \in Nat /\ lo + (k - 1) - 1 <= hi /\ ~ (k <= k - 1)
      BY <2>a, <2>3
    <3> HIDE DEF Bad
    <3> QED
      BY <2>2, <3>1
  <2>5. PICK x : IsMax(x, Up(k - 1))
    <3> DEFINE i == k - 1
    <3>1. i \in Nat /\ lo + i - 1 <= hi /\ i \notin Bad
      BY <2>4
    <3> HIDE DEF i, Up
    <3>2. \E x : IsMax(x, Up(i))
      BY <3>1
    <3> QED
      BY <3>2 DEF i
  <2>6. lo + k - 1 \in lo .. hi
    BY <2>2, <2>3
  <2>7. Up(k) = Up(k - 1) \cup {f[lo + k - 1]}
    <3>1. lo .. lo + k - 1 = (lo .. lo + (k - 1) - 1) \cup {lo + k - 1}
      BY <2>2, <2>3
    <3> QED
      BY <3>1
  <2>8. x \in Int
    <3>1. lo .. lo + (k - 1) - 1 \subseteq lo .. hi
      BY <2>4
    <3> QED
      BY <2>5, <3>1 DEF IsMax
  <2>9. f[lo + k - 1] \in Int
    BY <2>6
  <2> DEFINE y == f[lo + k - 1]
             z == IF x >= y THEN x ELSE y
  <2>10. \A u \in Up(k - 1) : u \in Int /\ x >= u
    <3>1. lo .. lo + (k - 1) - 1 \subseteq lo .. hi
      BY <2>4
    <3> QED
      BY <2>5, <3>1 DEF IsMax
  <2>11. IsMax(z, Up(k))
    <3>1. x \in Up(k - 1)
      BY <2>5 DEF IsMax
    <3> HIDE DEF Up
    <3> QED
      BY <3>1, <2>7, <2>8, <2>9, <2>10 DEF IsMax
  <2> QED
    BY <2>11, <2>2
<1>2. CASE hi < lo
  <2>1. {f[n] : n \in lo .. hi} = {}
    BY <1>2
  <2>2. IsMax(m, {m} \cup {f[n] : n \in lo .. hi})
    <3>1. {m} \cup {f[n] : n \in lo .. hi} = {m}
      BY <2>1
    <3>2. IsMax(m, {m})
      BY DEF IsMax
    <3> QED
      BY <3>1, <3>2
  <2> QED
    BY <2>2
<1>3. CASE hi >= lo
  <2> DEFINE k == hi - lo + 1
  <2>1. k \in Nat /\ lo + k - 1 <= hi
    BY <1>3
  <2>2. lo + k - 1 = hi
    OBVIOUS
  <2> HIDE DEF k
  <2>3. \E x : IsMax(x, Up(k))
    <3> HIDE DEF Up
    <3> QED
      BY <1>1, <2>1
  <2> QED
    BY <2>2, <2>3
<1>4. hi < lo \/ hi >= lo
  OBVIOUS
<1> QED
  BY <1>2, <1>3, <1>4

-----------------------------------------------------------------------------
(* One step of the online softmax *)

\* A row that has taken in the keys of A, with rows K and scores S.
Gathered(row, A, K, S) ==
  /\ IsMax(row.m, {NegInf} \cup {S[n] : n \in A})
  /\ row.w = [n \in A |-> [k |-> K[n], v |-> K[n], e |-> S[n] - row.m]]
  /\ row.nan = FALSE

LEMMA FreshGathered == ASSUME NEW K, NEW S PROVE Gathered(FreshRow, {}, K, S)
BY DEF Gathered, FreshRow, IsMax, NegInf

LEMMA Gathers ==
  ASSUME NEW lo \in Int, NEW hi \in Int, NEW A, NEW V, V \subseteq lo .. hi, A \cap V = {}, A \cup V # {},
         NEW K, NEW S, \A n \in A \cup V : S[n] \in Int /\ NegInf < S[n],
         NEW tile, DOMAIN tile = lo .. hi,
         \A n \in V : tile[n].k = K[n] /\ tile[n].v = K[n] /\ tile[n].s = S[n],
         \A n \in (lo .. hi) \ V : tile[n].s = NegInf,
         NEW row, Gathered(row, A, K, S)
  PROVE  Gathered(OnlineSoftmax(row, tile), A \cup V, K, S)
<1> DEFINE T == {row.m} \cup {tile[n].s : n \in DOMAIN tile}
           top == Max(T)
           U == {NegInf} \cup {S[n] : n \in A \cup V}
           seen == {n \in DOMAIN tile : tile[n].s # NegInf}
<1>0. NegInf \in Int
  BY DEF NegInf
<1>1. row.m \in Int /\ IsMax(row.m, {NegInf} \cup {S[n] : n \in A})
  BY <1>0 DEF Gathered, IsMax
<1>2. \A n \in lo .. hi : tile[n].s \in Int
  BY <1>0
<1>3. IsMax(top, T)
  <2> DEFINE f == [n \in lo .. hi |-> tile[n].s]
             M == row.m
  <2>1. \E x : IsMax(x, {row.m} \cup {f[n] : n \in lo .. hi})
    <3>1. \A n \in lo .. hi : f[n] \in Int
      BY <1>2
    <3>2. M \in Int
      BY <1>1
    <3> HIDE DEF f, M
    <3>3. \E x : IsMax(x, Values(M, f, lo, hi))
      BY <3>1, <3>2, MaxExists
    <3> QED
      BY <3>3 DEF M, Values
  <2>2. {f[n] : n \in lo .. hi} = {tile[n].s : n \in DOMAIN tile}
    OBVIOUS
  <2>3. PICK x : IsMax(x, T)
    BY <2>1, <2>2
  <2>4. T \subseteq Int
    BY <1>1, <1>2
  <2> QED
    BY <2>3, <2>4, MaxIs
<1>4. top \in Int /\ top >= row.m /\ \A n \in lo .. hi : top >= tile[n].s
  BY <1>1, <1>2, <1>3 DEF IsMax
<1>5. seen = V
  BY <1>0
<1>6. IsMax(top, U)
  <2>1. \A n \in A : top >= S[n]
    BY <1>0, <1>1, <1>4 DEF IsMax
  <2>2. \A n \in V : top >= S[n]
    BY <1>4
  <2>3. top >= NegInf
    BY <1>0, <1>1, <1>4 DEF IsMax
  <2>4. top \in U
    <3>1. top \in T
      BY <1>3 DEF IsMax
    <3>2. row.m \in U
      BY <1>1 DEF IsMax
    <3>3. \A n \in lo .. hi : tile[n].s \in U
      OBVIOUS
    <3> HIDE DEF top, U
    <3> QED
      BY <3>1, <3>2, <3>3
  <2> QED
    BY <2>1, <2>2, <2>3, <2>4 DEF IsMax
<1>7. top # NegInf
  BY <1>0, <1>4, <1>6 DEF IsMax
<1> DEFINE old == [n \in DOMAIN row.w |-> [row.w[n] EXCEPT !.e = @ + row.m - top]]
           new == [n \in seen |-> [k |-> tile[n].k, v |-> tile[n].v, e |-> tile[n].s - top]]
           all == [n \in A \cup V |-> [k |-> K[n], v |-> K[n], e |-> S[n] - top]]
<1>8. OnlineSoftmax(row, tile) = [m |-> top, w |-> old ++ new, nan |-> row.nan \/ top = NegInf]
  BY DEF OnlineSoftmax
<1>9. old ++ new = all
  <2>1. DOMAIN row.w = A /\ DOMAIN old = A
    BY DEF Gathered
  <2>2. DOMAIN new = V
    BY <1>5
  <2>3. \A n \in A : old[n] = all[n]
    <3> TAKE n \in A
    <3>1. row.w[n] = [k |-> K[n], v |-> K[n], e |-> S[n] - row.m]
      BY DEF Gathered
    <3>2. S[n] \in Int
      OBVIOUS
    <3>3. S[n] - row.m + row.m - top = S[n] - top
      BY <3>2, <1>1, <1>4
    <3>4. old[n] = [k |-> K[n], v |-> K[n], e |-> S[n] - row.m + row.m - top]
      BY <2>1, <3>1
    <3> QED
      BY <3>3, <3>4
  <2>4. \A n \in V : new[n] = all[n]
    BY <1>5
  <2> HIDE DEF old, new, all
  <2>5. DOMAIN (old ++ new) = A \cup V
    BY <2>1, <2>2 DEF ++
  <2>6. \A n \in A \cup V : (old ++ new)[n] = all[n]
    BY <2>1, <2>2, <2>3, <2>4 DEF ++
  <2>7. old ++ new = [n \in A \cup V |-> (old ++ new)[n]]
    BY <2>1, <2>2 DEF ++
  <2> QED
    BY <2>6, <2>7 DEF all
<1> HIDE DEF old, new, top
<1>10. OnlineSoftmax(row, tile).m = top /\ OnlineSoftmax(row, tile).w = all /\ OnlineSoftmax(row, tile).nan = FALSE
  <2>1. row.nan = FALSE
    BY DEF Gathered
  <2>2. (row.nan \/ top = NegInf) = FALSE
    BY <1>7, <2>1
  <2> HIDE DEF all
  <2>3. OnlineSoftmax(row, tile) = [m |-> top, w |-> all, nan |-> FALSE]
    BY <1>8, <1>9, <2>2
  <2> QED
    BY <2>3
<1> QED
  BY <1>6, <1>10 DEF Gathered

\* The softmax over the keys of A.
Terms(A, K, S) == [n \in A |-> [k |-> K[n], v |-> K[n], e |-> S[n] - Max({S[i] : i \in A})]]

\* A row that has taken in all keys it may see is the softmax over them.
LEMMA GatheredIsSoftmax ==
  ASSUME NEW A, A # {}, NEW K, NEW S, \A n \in A : S[n] \in Int /\ NegInf < S[n],
         NEW row, Gathered(row, A, K, S)
  PROVE  Normalised(row) = Terms(A, K, S)
<1>1. NegInf \in Int
  BY DEF NegInf
<1>2. IsMax(row.m, {S[i] : i \in A})
  BY <1>1 DEF Gathered, IsMax
<1>3. Max({S[i] : i \in A}) = row.m
  BY <1>2, MaxIs
<1> QED
  BY <1>3 DEF Gathered, Normalised, Terms

-----------------------------------------------------------------------------
(* Quotients *)

LEMMA QuotientOf ==
  ASSUME NEW a \in Nat, NEW b \in Positive
  PROVE  a \div b \in Nat /\ a % b \in 0 .. b - 1 /\ a = (a \div b) * b + (a % b)
BY DEF Positive

LEMMA QuotientIs ==
  ASSUME NEW a \in Nat, NEW b \in Positive, NEW q \in Nat, NEW c \in 0 .. b - 1, a = q * b + c
  PROVE  a \div b = q /\ a % b = c
BY DEF Positive

LEMMA ProductNat ==
  ASSUME NEW a \in Nat, NEW b \in Nat
  PROVE  a * b \in Nat /\ (a + 1) * b = a * b + b
OBVIOUS

LEMMA ProductMonotone ==
  ASSUME NEW a \in Nat, NEW b \in Nat, NEW c \in Nat, a <= b
  PROVE  a * c <= b * c
OBVIOUS

\* A number of tiles less than another covers a tile less.
LEMMA ProductLess ==
  ASSUME NEW a \in Nat, NEW b \in Nat, NEW c \in Positive
  PROVE  a * c < b * c <=> a < b
<1>1. a < b => a * c < b * c
  <2>1. ASSUME a < b PROVE a * c + c <= b * c
    <3>1. (a + 1) * c <= b * c
      BY <2>1, ProductMonotone DEF Positive
    <3> QED
      BY <3>1, ProductNat DEF Positive
  <2>2. a * c \in Nat /\ b * c \in Nat /\ c > 0
    BY ProductNat DEF Positive
  <2> QED
    BY <2>1, <2>2 DEF Positive
<1>2. b <= a => b * c <= a * c
  BY ProductMonotone DEF Positive
<1>3. a * c \in Nat /\ b * c \in Nat
  BY ProductNat DEF Positive
<1> QED
  BY <1>1, <1>2, <1>3

\* What is less than a multiple is in an earlier tile.
LEMMA BeforeTile ==
  ASSUME NEW j \in Nat, NEW q \in Nat, NEW a \in Nat, NEW t \in Positive, a \div t = q, j < q
  PROVE  j * t + t <= a
<1>1. a = q * t + (a % t) /\ a % t \in Nat
  BY QuotientOf
<1>2. (j + 1) * t <= q * t
  BY ProductMonotone DEF Positive
<1>3. (j + 1) * t = j * t + t /\ j * t \in Nat /\ q * t \in Nat
  BY ProductNat DEF Positive
<1> QED
  BY <1>1, <1>2, <1>3 DEF Positive

\* The tiles that cover a numbers: none of them is empty, no number is left out.
LEMMA Tiles ==
  ASSUME NEW a \in Nat, NEW t \in Positive
  PROVE  /\ CeilDiv(a, t) \in Nat
         /\ a <= CeilDiv(a, t) * t
         /\ \A j \in Nat : j < CeilDiv(a, t) <=> j * t < a
<1> DEFINE q == CeilDiv(a, t)
<1>1. a + t - 1 \in Nat /\ t \in Nat /\ t > 0
  BY DEF Positive
<1>2. q \in Nat /\ \E c \in 0 .. t - 1 : a + t - 1 = q * t + c
  BY <1>1, QuotientOf DEF CeilDiv
<1> HIDE DEF q
<1>3. q * t \in Nat
  BY <1>1, <1>2, ProductNat
<1>4. a <= q * t
  BY <1>1, <1>2, <1>3
<1>5. ASSUME NEW j \in Nat, j < q PROVE j * t < a
  <2>1. j * t + t <= q * t
    <3>1. (j + 1) * t <= q * t
      BY <1>1, <1>2, <1>5, ProductMonotone
    <3> QED
      BY <3>1, <1>1, ProductNat
  <2>2. j * t \in Nat
    BY <1>1, ProductNat
  <2> QED
    BY <1>1, <1>2, <1>3, <2>1, <2>2
<1>6. ASSUME NEW j \in Nat, j * t < a PROVE j < q
  <2>1. j * t < q * t
    <3>1. j * t \in Nat
      BY <1>1, ProductNat
    <3> QED
      BY <3>1, <1>3, <1>4, <1>6
  <2> QED
    BY <2>1, <1>2, ProductLess
<1> QED
  BY <1>2, <1>4, <1>5, <1>6 DEF q

-----------------------------------------------------------------------------
(* The mask *)

\* What a launch is known to be.
Regular(l) ==
  /\ {l.tm, l.tn, l.klen, l.qlen, l.batch, l.heads} \subseteq Positive
  /\ l.causal \in BOOLEAN /\ (l.causal => l.pos \in Nat)
  /\ l.evenK \in BOOLEAN /\ (l.evenK => l.klen % l.tn = 0)

\* The keys row i of tile x of queries may see.
InSight(l, x, i, n) == n < l.klen /\ (l.causal => n <= l.pos + x * l.tm + i)

\* The keys a tile of queries walks over.
KeyBound(l, x) == IF l.causal THEN Min({l.pos + (x + 1) * l.tm, l.klen}) ELSE l.klen

LEMMA KeyBoundIs ==
  ASSUME NEW l, Regular(l), NEW x \in Nat
  PROVE  /\ KeyBound(l, x) \in Positive /\ KeyBound(l, x) <= l.klen
         /\ TileCount(l, x) = CeilDiv(KeyBound(l, x), l.tn)
         /\ \A n \in Nat : n < KeyBound(l, x) <=> n < l.klen /\ (l.causal => n < l.pos + x * l.tm + l.tm)
<1>1. TileCount(l, x) = CeilDiv(KeyBound(l, x), l.tn)
  BY DEF TileCount, KeyBound
<1>2. CASE l.causal
  <2>1. l.pos \in Nat /\ l.tm \in Positive /\ l.klen \in Positive
    BY <1>2 DEF Regular
  <2>2. (x + 1) * l.tm = x * l.tm + l.tm /\ x * l.tm \in Nat
    BY <2>1, ProductNat DEF Positive
  <2> DEFINE a == l.pos + (x + 1) * l.tm
  <2>3. a = l.pos + x * l.tm + l.tm /\ a \in Positive
    BY <2>1, <2>2 DEF Positive
  <2>4. KeyBound(l, x) = IF a <= l.klen THEN a ELSE l.klen
    <3>1. a \in Int /\ l.klen \in Int
      BY <2>1, <2>3 DEF Positive
    <3> QED
      BY <3>1, <1>2, MinIs DEF KeyBound
  <2> HIDE DEF a
  <2> QED
    BY <1>1, <1>2, <2>1, <2>3, <2>4 DEF Positive
<1>3. CASE ~ l.causal
  BY <1>1, <1>3 DEF KeyBound, Regular, Positive
<1> QED
  BY <1>2, <1>3

LEMMA MaskStartIs ==
  ASSUME NEW l, Regular(l), NEW x \in Nat, NEW j \in Nat, j < MaskStart(l, x)
  PROVE  j < l.klen \div l.tn /\ (l.causal => j < (l.pos + x * l.tm) \div l.tn)
<1>1. CASE l.causal
  <2>1. l.pos + x * l.tm \in Nat
    BY <1>1, ProductNat DEF Regular, Positive
  <2> DEFINE a == (l.pos + x * l.tm) \div l.tn
             b == l.klen \div l.tn
  <2>2. a \in Int /\ b \in Int
    <3>1. l.tn \in Positive /\ l.klen \in Nat
      BY DEF Regular, Positive
    <3>2. l.klen \div l.tn \in Nat /\ (l.pos + x * l.tm) \div l.tn \in Nat
      BY <2>1, <3>1, QuotientOf
    <3> QED
      BY <3>2
  <2>3. MaskStart(l, x) = Min({a, b})
    BY <1>1 DEF MaskStart
  <2> HIDE DEF a, b
  <2>4. j < a /\ j < b
    BY <2>2, <2>3, MinIs
  <2> QED
    BY <2>4 DEF a, b
<1>2. CASE ~ l.causal
  BY <1>2 DEF MaskStart
<1> QED
  BY <1>1, <1>2

\* The mask is only built where it is needed, and then it is what it should be.
LEMMA MaskIsExact ==
  ASSUME NEW l, Regular(l), NEW x \in Nat, NEW j \in Nat, j < TileCount(l, x),
         NEW i \in 0 .. l.tm - 1, NEW n \in j * l.tn .. (j + 1) * l.tn - 1
  PROVE  ~ Masked(l, x, j, i, n) <=> InSight(l, x, i, n)
<1>0. l.tm \in Positive /\ l.tn \in Positive /\ l.klen \in Positive /\ x * l.tm \in Nat
  BY ProductNat DEF Regular, Positive
<1>1. n \in Nat /\ j * l.tn <= n /\ n < j * l.tn + l.tn /\ j * l.tn \in Nat
  BY <1>0, ProductNat DEF Positive
<1>2. j * l.tn < KeyBound(l, x) /\ KeyBound(l, x) \in Nat /\ KeyBound(l, x) <= l.klen
  BY <1>0, KeyBoundIs, Tiles DEF Positive
<1>3. ASSUME l.evenK PROVE n < l.klen
  <2>1. l.klen = (l.klen \div l.tn) * l.tn /\ l.klen \div l.tn \in Nat
    <3>1. l.klen % l.tn = 0
      BY <1>3 DEF Regular
    <3>2. /\ l.klen \in Nat /\ l.klen \div l.tn \in Nat
          /\ l.klen = (l.klen \div l.tn) * l.tn + (l.klen % l.tn)
      <4>1. l.klen \in Nat
        BY <1>0 DEF Positive
      <4> QED
        BY <4>1, <1>0, QuotientOf
    <3>3. (l.klen \div l.tn) * l.tn \in Nat
      BY <3>2, <1>0, ProductNat DEF Positive
    <3> QED
      BY <3>1, <3>2, <3>3
  <2>2. j < l.klen \div l.tn
    <3>1. j * l.tn < (l.klen \div l.tn) * l.tn
      BY <1>0, <1>1, <1>2, <2>1 DEF Positive
    <3> QED
      BY <3>1, <2>1, <1>0, ProductLess
  <2>3. j * l.tn + l.tn <= l.klen
    BY <2>1, <2>2, <1>0, BeforeTile DEF Positive
  <2> QED
    BY <2>3, <1>0, <1>1 DEF Positive
<1>4. ASSUME j < MaskStart(l, x) PROVE InSight(l, x, i, n)
  <2>1. l.klen \div l.tn \in Nat /\ j * l.tn + l.tn <= l.klen
    BY <1>0, <1>4, MaskStartIs, QuotientOf, BeforeTile DEF Positive
  <2>2. n < l.klen
    BY <2>1, <1>0, <1>1 DEF Positive
  <2>3. ASSUME l.causal PROVE n <= l.pos + x * l.tm + i
    <3>1. l.pos \in Nat /\ l.pos + x * l.tm \in Nat
      BY <1>0, <2>3 DEF Regular
    <3>2. j * l.tn + l.tn <= l.pos + x * l.tm
      <4>1. (l.pos + x * l.tm) \div l.tn \in Nat /\ j < (l.pos + x * l.tm) \div l.tn
        BY <1>0, <1>4, <2>3, <3>1, MaskStartIs, QuotientOf
      <4> QED
        BY <4>1, <3>1, <1>0, BeforeTile
    <3> QED
      BY <3>1, <3>2, <1>0, <1>1 DEF Positive
  <2> QED
    BY <2>2, <2>3 DEF InSight
<1>5. CASE j < MaskStart(l, x)
  <2>1. ~ (j >= MaskStart(l, x))
    <3>1. MaskStart(l, x) \in Int
      <4>1. l.klen \div l.tn \in Int
        BY <1>0, QuotientOf DEF Positive
      <4>2. ASSUME l.causal PROVE (l.pos + x * l.tm) \div l.tn \in Int
        <5>1. l.pos + x * l.tm \in Nat
          BY <1>0, <4>2 DEF Regular
        <5> QED
          BY <1>0, <5>1, QuotientOf
      <4> QED
        BY <4>1, <4>2, MinIs DEF MaskStart
    <3> QED
      BY <3>1, <1>5
  <2> QED
    BY <1>4, <1>5, <2>1 DEF Masked
<1>6. CASE ~ (j < MaskStart(l, x))
  <2>1. j >= MaskStart(l, x)
    <3>1. MaskStart(l, x) \in Int
      <4>1. l.klen \div l.tn \in Int
        BY <1>0, QuotientOf DEF Positive
      <4>2. ASSUME l.causal PROVE (l.pos + x * l.tm) \div l.tn \in Int
        <5>1. l.pos + x * l.tm \in Nat
          BY <1>0, <4>2 DEF Regular
        <5> QED
          BY <1>0, <5>1, QuotientOf
      <4> QED
        BY <4>1, <4>2, MinIs DEF MaskStart
    <3> QED
      BY <3>1, <1>6
  <2>2. ASSUME l.causal PROVE l.pos + x * l.tm + i >= n <=> n <= l.pos + x * l.tm + i
    OBVIOUS
  <2> QED
    BY <1>3, <2>1, <2>2 DEF Masked, InSight, Regular
<1> QED
  BY <1>5, <1>6

\* Every key in sight is in one of the tiles of the loop.
LEMMA SightEnds ==
  ASSUME NEW l, Regular(l), NEW x \in Nat, NEW i \in 0 .. l.tm - 1, NEW n \in Nat, InSight(l, x, i, n)
  PROVE  n < TileCount(l, x) * l.tn
<1>0. l.tm \in Positive /\ l.tn \in Positive /\ x * l.tm \in Nat
  BY ProductNat DEF Regular, Positive
<1>1. n < KeyBound(l, x)
  <2>1. ASSUME l.causal PROVE n < l.pos + x * l.tm + l.tm
    <3>1. l.pos \in Nat /\ n <= l.pos + x * l.tm + i
      BY <2>1 DEF Regular, InSight
    <3> QED
      BY <3>1, <1>0 DEF Positive
  <2> QED
    BY <2>1, KeyBoundIs DEF InSight
<1>2. KeyBound(l, x) \in Nat /\ KeyBound(l, x) <= TileCount(l, x) * l.tn /\ TileCount(l, x) \in Nat
  <2>1. KeyBound(l, x) \in Nat /\ TileCount(l, x) = CeilDiv(KeyBound(l, x), l.tn)
    BY KeyBoundIs DEF Positive
  <2> QED
    BY <2>1, <1>0, Tiles
<1>3. TileCount(l, x) * l.tn \in Nat
  BY <1>0, <1>2, ProductNat DEF Positive
<1> QED
  BY <1>1, <1>2, <1>3

-----------------------------------------------------------------------------
(* The launches of a call *)

LEMMA RankOfRow ==
  ASSUME NEW p \in Nat, NEW s \in Positive, NEW h \in 0 .. p * s - 1
  PROVE  h \div s \in 0 .. p - 1 /\ h % s \in 0 .. s - 1 /\ h = (h \div s) * s + (h % s)
<1>1. p * s \in Nat /\ h \in Nat /\ h < p * s
  BY ProductNat DEF Positive
<1>2. h \div s \in Nat /\ h % s \in 0 .. s - 1 /\ h = (h \div s) * s + (h % s)
  BY <1>1, QuotientOf
<1>3. (h \div s) * s <= h
  BY <1>1, <1>2, ProductNat DEF Positive
<1>4. h \div s < p
  <2>1. (h \div s) * s \in Nat
    BY <1>2, ProductNat DEF Positive
  <2>2. (h \div s) * s < p * s
    BY <1>1, <1>3, <2>1
  <2> QED
    BY <1>2, <2>2, ProductLess
<1> QED
  BY <1>2, <1>4

LEMMA RowOfRank ==
  ASSUME NEW p \in Nat, NEW s \in Positive, NEW r \in 0 .. p - 1, NEW j \in 0 .. s - 1
  PROVE  r * s + j \in 0 .. p * s - 1 /\ (r * s + j) \div s = r /\ (r * s + j) % s = j
<1>1. r * s \in Nat /\ p * s \in Nat /\ (r + 1) * s <= p * s /\ (r + 1) * s = r * s + s
  BY ProductNat, ProductMonotone DEF Positive
<1>2. r * s + j \in Nat /\ r \in Nat
  BY <1>1 DEF Positive
<1> QED
  BY <1>1, <1>2, QuotientIs DEF Positive

LEMMA DividesThrough ==
  ASSUME NEW a \in Nat, NEW b \in Positive, NEW t \in Positive, a % b = 0, b % t = 0
  PROVE  a % t = 0
<1>1. a \div b \in Nat /\ b \div t \in Nat /\ b \in Nat /\ t \in Nat
  BY QuotientOf DEF Positive
<1>2. a = (a \div b) * b + (a % b)
  BY QuotientOf
<1>3. b = (b \div t) * t + (b % t)
  BY <1>1, QuotientOf
<1>4. a = (a \div b) * b
  <2>1. (a \div b) * b \in Nat
    BY <1>1, ProductNat
  <2> QED
    BY <1>2, <2>1
<1>5. b = (b \div t) * t
  <2>1. (b \div t) * t \in Nat
    BY <1>1, ProductNat
  <2> QED
    BY <1>3, <2>1
<1> DEFINE x == a \div b
           y == b \div t
<1>6. a = (x * y) * t
  <2>1. a = x * b /\ b = y * t /\ x \in Nat /\ y \in Nat
    BY <1>1, <1>4, <1>5
  <2> HIDE DEF x, y
  <2>2. x * (y * t) = (x * y) * t
    BY <2>1, <1>1
  <2> QED
    BY <2>1, <2>2
<1>7. x * y \in Nat
  BY <1>1, ProductNat
<1>8. a = (x * y) * t + 0 /\ 0 \in 0 .. t - 1
  <2>1. (x * y) * t \in Nat
    BY <1>1, <1>7, ProductNat
  <2> QED
    BY <1>6, <2>1 DEF Positive
<1> HIDE DEF x, y
<1> QED
  BY <1>7, <1>8, QuotientIs

LEMMA ConfigFacts ==
  ASSUME NEW s, TilePairs(s)
  PROVE  /\ \A cfg \in ConfigsOf(s) : cfg[1] \in Positive /\ cfg[2] \in Positive
         /\ s[1] \in ConfigsOf(s)
         /\ \A i \in DOMAIN s : s[i] \in ConfigsOf(s)
BY DEF TilePairs, ConfigsOf

LEMMA MaxTileNPositive == MaxTileN \in Positive
<1>1. TilePairs(FwdConfigs)
  BY DeviceAssumption
<1> DEFINE f == [i \in 1 .. Len(FwdConfigs) |-> FwdConfigs[i][2]]
           m == FwdConfigs[1][2]
           S == {c[2] : c \in ConfigsOf(FwdConfigs)}
<1>2. Len(FwdConfigs) \in Nat /\ DOMAIN FwdConfigs = 1 .. Len(FwdConfigs) /\ 1 \in DOMAIN FwdConfigs
  BY <1>1 DEF TilePairs
<1>3. Values(m, f, 1, Len(FwdConfigs)) = S
  <2>1. \A i \in DOMAIN FwdConfigs : FwdConfigs[i] \in ConfigsOf(FwdConfigs)
    BY DEF ConfigsOf
  <2>2. \A c \in ConfigsOf(FwdConfigs) : \E i \in DOMAIN FwdConfigs : c = FwdConfigs[i]
    BY DEF ConfigsOf
  <2> QED
    BY <1>2, <2>1, <2>2 DEF Values
<1>4. m \in Int /\ \A i \in 1 .. Len(FwdConfigs) : f[i] \in Int
  BY <1>1, <1>2 DEF TilePairs, Positive
<1> HIDE DEF f, m, S
<1>5. \E x : IsMax(x, Values(m, f, 1, Len(FwdConfigs)))
  BY <1>2, <1>4, MaxExists
<1>6. S \subseteq Positive
  BY <1>1, ConfigFacts DEF S
<1>7. PICK x : IsMax(x, S)
  BY <1>3, <1>5
<1>8. Max(S) = x
  <2>1. S \subseteq Int
    BY <1>6 DEF Positive
  <2> QED
    BY <1>7, <2>1, MaxIs
<1> QED
  BY <1>6, <1>7, <1>8 DEF MaxTileN, IsMax, S

Attending == {"infer", "train", "study", "gpt"}
StudyKernels == {"v1", "v2", "v3", "cutile", "compared"}

\* What a call launches, until its backward pass.
LaunchesOf(c) ==
  CASE c.kind = "infer" -> {InferLaunch(c, cfg) : cfg \in ConfigsOf(FwdConfigs)}
    [] c.kind = "train" -> {ForwardLaunch(c)}
    [] c.kind = "study" -> {StudyLaunch(c, kernel, cfg) : kernel \in StudyKernels, cfg \in ConfigsOf(StudyConfigs)}
    [] c.kind = "gpt" -> {GptLaunch(c)}

\* Where the first query stands among the keys.
Origin(c) ==
  CASE c.kind = "infer" -> c.klen - c.qlen
    [] c.kind = "train" -> 0
    [] c.kind = "study" -> c.pos
    [] c.kind = "gpt" -> IF c.causal THEN 0 ELSE c.klen - 1

\* A launch for a call: its blocks are rows and heads of the call's tensors.
For(l, c) ==
  /\ Regular(l)
  /\ l.batch = c.batch /\ l.heads = c.heads /\ l.group = c.heads \div c.kvHeads /\ l.causal = c.causal
  /\ l.causal => l.pos = Origin(c)
  /\ c.qlen <= l.qlen /\ c.klen <= l.klen
  /\ (c.kind = "gpt" /\ c.causal) \/ l.klen = c.klen
  /\ CASE c.kind = "infer" -> l.kernel = "fmha"
       [] c.kind = "train" -> l.kernel = "fmha_lse"
       [] c.kind = "study" -> l.kernel \in StudyKernels
       [] c.kind = "gpt" -> l.kernel = "gpt"

LEMMA CallFacts ==
  ASSUME NEW c \in Calls, c.kind \in Attending
  PROVE  /\ {c.batch, c.heads, c.kvHeads, c.qlen, c.klen} \subseteq Positive /\ c.causal \in BOOLEAN
         /\ \A q \in RowsOf(c), n \in 0 .. c.klen - 1 : Finite(q, <<q[1], Kv(c, q), n>>)
         /\ c.causal => Origin(c) \in Nat
         /\ c.kind = "gpt" => c.qlen = IF c.causal THEN c.klen ELSE 1
<1>1. WellFormed(c)
  BY DeviceAssumption
<1>2. c.kind \in {"infer", "train", "study", "gpt", "generate"}
  BY DEF Attending
<1>3. /\ {c.batch, c.heads, c.kvHeads, c.qlen, c.klen} \subseteq Positive /\ c.causal \in BOOLEAN
      /\ \A q \in RowsOf(c), n \in 0 .. c.klen - 1 : Finite(q, <<q[1], Kv(c, q), n>>)
  BY <1>1, <1>2 DEF WellFormed
<1>4. (c.kind = "infer" /\ c.causal => c.qlen <= c.klen) /\ (c.kind = "study" => c.pos \in Nat)
      /\ (c.kind = "gpt" => c.qlen = IF c.causal THEN c.klen ELSE 1)
  BY <1>1 DEF WellFormed
<1>5. c.causal => Origin(c) \in Nat
  BY <1>3, <1>4 DEF Origin, Attending, Positive
<1> QED
  BY <1>3, <1>4, <1>5

LEMMA InferLaunchFor ==
  ASSUME NEW c \in Calls, c.kind = "infer", NEW cfg \in ConfigsOf(FwdConfigs)
  PROVE  For(InferLaunch(c, cfg), c)
<1> DEFINE l == InferLaunch(c, cfg)
<1>1. /\ l.kernel = "fmha" /\ l.pos = c.klen - c.qlen /\ l.tm = cfg[1] /\ l.tn = cfg[2]
      /\ l.evenK = (c.klen % MaxTileN = 0)
      /\ l.batch = c.batch /\ l.heads = c.heads /\ l.group = c.heads \div c.kvHeads
      /\ l.qlen = c.qlen /\ l.klen = c.klen /\ l.causal = c.causal
  BY DEF InferLaunch, Shape, ++
<1> HIDE DEF l
<1>2. cfg[1] \in Positive /\ cfg[2] \in Positive
  BY ConfigFacts, DeviceAssumption
<1>3. /\ {c.batch, c.heads, c.kvHeads, c.qlen, c.klen} \subseteq Positive /\ c.causal \in BOOLEAN
      /\ c.causal => Origin(c) \in Nat
  BY CallFacts DEF Attending
<1>4. l.evenK => c.klen % cfg[2] = 0
  <2>1. c.klen \in Nat /\ MaxTileN % cfg[2] = 0
    BY <1>2, <1>3, DeviceAssumption DEF Positive
  <2> QED
    BY <1>1, <1>2, <2>1, MaxTileNPositive, DividesThrough
<1>5. Origin(c) = c.klen - c.qlen
  BY DEF Origin
<1>6. Regular(l)
  BY <1>1, <1>2, <1>3, <1>4, <1>5 DEF Regular
<1> QED
  BY <1>1, <1>3, <1>5, <1>6 DEF For, l, Positive

LEMMA ForwardLaunchFor ==
  ASSUME NEW c \in Calls, c.kind = "train"
  PROVE  For(ForwardLaunch(c), c)
<1> DEFINE l == ForwardLaunch(c)
           cfg == FwdConfigs[1]
<1>1. /\ l.kernel = "fmha_lse" /\ l.pos = 0 /\ l.tm = cfg[1] /\ l.tn = cfg[2]
      /\ l.evenK = (c.klen % MaxTileN = 0)
      /\ l.batch = c.batch /\ l.heads = c.heads /\ l.group = c.heads \div c.kvHeads
      /\ l.qlen = c.qlen /\ l.klen = c.klen /\ l.causal = c.causal
  BY DEF ForwardLaunch, Shape, ++
<1>2. cfg[1] \in Positive /\ cfg[2] \in Positive /\ cfg \in ConfigsOf(FwdConfigs)
  BY ConfigFacts, DeviceAssumption
<1> HIDE DEF l, cfg
<1>3. /\ {c.batch, c.heads, c.kvHeads, c.qlen, c.klen} \subseteq Positive /\ c.causal \in BOOLEAN
      /\ c.causal => Origin(c) \in Nat
  BY CallFacts DEF Attending
<1>4. l.evenK => c.klen % cfg[2] = 0
  <2>1. c.klen \in Nat /\ MaxTileN % cfg[2] = 0
    BY <1>2, <1>3, DeviceAssumption DEF Positive
  <2> QED
    BY <1>1, <1>2, <2>1, MaxTileNPositive, DividesThrough
<1>5. Origin(c) = 0
  BY DEF Origin
<1>6. Regular(l)
  BY <1>1, <1>2, <1>3, <1>4, <1>5 DEF Regular
<1> QED
  BY <1>1, <1>3, <1>5, <1>6 DEF For, l, Positive

LEMMA StudyLaunchFor ==
  ASSUME NEW c \in Calls, c.kind = "study", NEW kernel \in StudyKernels, NEW cfg \in ConfigsOf(StudyConfigs)
  PROVE  For(StudyLaunch(c, kernel, cfg), c)
<1> DEFINE l == StudyLaunch(c, kernel, cfg)
<1>1. /\ l.kernel = kernel /\ l.pos = c.pos /\ l.tm = cfg[1] /\ l.tn = cfg[2]
      /\ l.evenK = (c.klen % cfg[2] = 0)
      /\ l.batch = c.batch /\ l.heads = c.heads /\ l.group = c.heads \div c.kvHeads
      /\ l.qlen = c.qlen /\ l.klen = c.klen /\ l.causal = c.causal
  BY DEF StudyLaunch
<1> HIDE DEF l
<1>2. cfg[1] \in Positive /\ cfg[2] \in Positive
  BY ConfigFacts, DeviceAssumption
<1>3. /\ {c.batch, c.heads, c.kvHeads, c.qlen, c.klen} \subseteq Positive /\ c.causal \in BOOLEAN
      /\ c.causal => Origin(c) \in Nat
  BY CallFacts DEF Attending
<1>5. Origin(c) = c.pos
  BY DEF Origin
<1>6. Regular(l)
  BY <1>1, <1>2, <1>3, <1>5 DEF Regular
<1> QED
  BY <1>1, <1>3, <1>5, <1>6 DEF For, l, Positive

LEMMA GptLaunchFor ==
  ASSUME NEW c \in Calls, c.kind = "gpt"
  PROVE  For(GptLaunch(c), c)
<1> DEFINE l == GptLaunch(c)
           width == IF Padded(c) THEN ModelTile ELSE c.klen
<1>1. /\ l.kernel = "gpt" /\ l.pos = (IF c.causal THEN 0 ELSE c.klen - 1) /\ l.tm = ModelTile /\ l.tn = ModelTile
      /\ l.evenK = (width % ModelTile = 0)
      /\ l.batch = c.batch /\ l.heads = c.heads /\ l.group = c.heads \div c.kvHeads
      /\ l.qlen = (IF Padded(c) THEN width ELSE c.qlen) /\ l.klen = width /\ l.causal = c.causal
  <2> DEFINE g == GptCall(c)
  <2>1. /\ g.pos = (IF c.causal THEN 0 ELSE c.klen - 1) /\ g.width = width
        /\ g.batch = c.batch /\ g.heads = c.heads /\ g.kvHeads = c.kvHeads
        /\ g.qlen = c.qlen /\ g.klen = c.klen /\ g.causal = c.causal
    BY DEF GptCall
  <2> HIDE DEF g
  <2> QED
    BY <2>1 DEF GptLaunch, StudyLaunch, g
<1> HIDE DEF l
<1>2. ModelTile \in Positive
  BY DeviceAssumption
<1>3. /\ {c.batch, c.heads, c.kvHeads, c.qlen, c.klen} \subseteq Positive /\ c.causal \in BOOLEAN
      /\ c.causal => Origin(c) \in Nat
      /\ c.qlen = IF c.causal THEN c.klen ELSE 1
  BY CallFacts DEF Attending
<1>4. c.klen <= width /\ width \in Positive /\ (~ c.causal => width = c.klen)
  BY <1>2, <1>3 DEF Padded, Positive
<1>5. Origin(c) = (IF c.causal THEN 0 ELSE c.klen - 1)
  BY DEF Origin
<1>6. Regular(l)
  BY <1>1, <1>2, <1>3, <1>4, <1>5 DEF Regular, Padded
<1>7. c.qlen <= l.qlen
  BY <1>1, <1>3, <1>4 DEF Padded, Positive
<1> QED
  BY <1>1, <1>3, <1>4, <1>5, <1>6, <1>7 DEF For, l, Positive

LEMMA LaunchesFor ==
  ASSUME NEW c \in Calls, c.kind \in Attending, NEW l \in LaunchesOf(c)
  PROVE  For(l, c)
BY InferLaunchFor, ForwardLaunchFor, StudyLaunchFor, GptLaunchFor DEF LaunchesOf, Attending

-----------------------------------------------------------------------------
(* A tile of keys *)

QueryAt(l, b, i) == <<BatchOf(l, b), HeadOf(l, b), b[1] * l.tm + i>>
KeysOf(l, b) == [n \in Nat |-> <<BatchOf(l, b), KvHead(l, b), n>>]
ScoresOf(l, b, i) == [n \in Nat |-> Score(QueryAt(l, b, i), KeysOf(l, b)[n])]

\* Tile j as row i has to meet it.
TileIs(tile, l, b, i, j) ==
  /\ DOMAIN tile = j * l.tn .. (j + 1) * l.tn - 1
  /\ \A n \in j * l.tn .. (j + 1) * l.tn - 1 :
       IF InSight(l, b[1], i, n)
       THEN tile[n].k = KeysOf(l, b)[n] /\ tile[n].v = KeysOf(l, b)[n] /\ tile[n].s = ScoresOf(l, b, i)[n]
       ELSE tile[n].s = NegInf

\* The rows of a block, which version 2 keeps beside what it has staged.
RowOf(l, st, i) == IF l.kernel = "v2" THEN st.rows[i] ELSE st[i]
Staged(l, b, st) ==
  l.kernel = "v2" => /\ DOMAIN st = {"rows", "q", "k", "v"}
                     /\ st.q = [i \in 0 .. l.tm - 1 |-> Query(l, b, i, UndefRow)]

\* Row i of block b is a row of the call.
IsRow(l, c, b, i) == b \in Grid(l) /\ i \in 0 .. l.tm - 1 /\ b[1] * l.tm + i < c.qlen

LEMMA NoPadding == ASSUME NEW x, NEW y, NEW z PROVE <<x, y, z>> \notin Padding
BY DEF Padding, ZeroRow, UndefRow, StaleRow

LEMMA BlockFacts ==
  ASSUME NEW l, Regular(l), NEW b \in Grid(l)
  PROVE  /\ b[1] \in Nat /\ b[2] \in Nat /\ b = <<b[1], b[2]>>
         /\ BatchOf(l, b) \in 0 .. l.batch - 1 /\ HeadOf(l, b) \in 0 .. l.heads - 1
<1>1. {l.tm, l.qlen, l.batch, l.heads} \subseteq Positive
  BY DEF Regular
<1>2. CeilDiv(l.qlen, l.tm) \in Nat
  BY <1>1, Tiles DEF Positive
<1>3. b[1] \in 0 .. CeilDiv(l.qlen, l.tm) - 1 /\ b[2] \in 0 .. l.batch * l.heads - 1 /\ b = <<b[1], b[2]>>
  BY DEF Grid
<1>4. b[1] \in Nat /\ b[2] \in Nat
  BY <1>2, <1>3, <1>1, ProductNat DEF Positive
<1>5. b[2] \div l.heads \in 0 .. l.batch - 1 /\ b[2] % l.heads \in 0 .. l.heads - 1
  <2>1. l.batch \in Nat /\ l.heads \in Positive
    BY <1>1 DEF Positive
  <2> QED
    BY <1>3, <2>1, RankOfRow
<1> QED
  BY <1>3, <1>4, <1>5 DEF BatchOf, HeadOf

LEMMA RowFacts ==
  ASSUME NEW c \in Calls, c.kind \in Attending, NEW l, For(l, c), NEW b, NEW i, IsRow(l, c, b, i)
  PROVE  /\ QueryAt(l, b, i) \in RowsOf(c)
         /\ \A pad : Query(l, b, i, pad) = QueryAt(l, b, i)
         /\ \A n \in Nat : KeysOf(l, b)[n] = <<QueryAt(l, b, i)[1], Kv(c, QueryAt(l, b, i)), n>>
<1>1. /\ b[1] \in Nat /\ BatchOf(l, b) \in 0 .. c.batch - 1 /\ HeadOf(l, b) \in 0 .. c.heads - 1
      /\ l.tm \in Positive /\ c.qlen \in Positive /\ c.qlen <= l.qlen /\ l.qlen \in Positive
      /\ l.group = c.heads \div c.kvHeads
  BY BlockFacts, CallFacts DEF For, IsRow, Regular
<1>2. b[1] * l.tm + i \in 0 .. c.qlen - 1 /\ b[1] * l.tm + i < l.qlen
  BY <1>1, ProductNat DEF IsRow, Positive
<1>3. QueryAt(l, b, i) \in RowsOf(c)
  BY <1>1, <1>2 DEF QueryAt, RowsOf
<1>4. \A n \in Nat : KeysOf(l, b)[n] = <<BatchOf(l, b), HeadOf(l, b) \div l.group, n>>
  BY DEF KeysOf, KvHead
<1>5. \A n \in Nat : KeysOf(l, b)[n] = <<QueryAt(l, b, i)[1], Kv(c, QueryAt(l, b, i)), n>>
  BY <1>1, <1>4 DEF QueryAt, Kv
<1>6. \A pad : Query(l, b, i, pad) = QueryAt(l, b, i)
  BY <1>2 DEF Query, QueryAt
<1> QED
  BY <1>3, <1>5, <1>6

\* What is in sight of a row of the call is what the row may see.
LEMMA SightIs ==
  ASSUME NEW c \in Calls, c.kind \in Attending, NEW l, For(l, c), NEW b, NEW i, IsRow(l, c, b, i)
  PROVE  \A n \in Nat : InSight(l, b[1], i, n) <=> n \in Sees(c, Origin(c), b[1] * l.tm + i)
<1>1. /\ c.klen \in Positive /\ l.klen \in Positive /\ c.klen <= l.klen /\ l.causal = c.causal /\ c.causal \in BOOLEAN
      /\ (l.causal => l.pos = Origin(c)) /\ (c.causal => Origin(c) \in Nat)
      /\ (c.kind = "gpt" => c.qlen = IF c.causal THEN c.klen ELSE 1)
      /\ ((c.kind = "gpt" /\ c.causal) \/ l.klen = c.klen)
  BY CallFacts DEF For, Regular
<1>2. b[1] * l.tm + i \in Nat /\ b[1] * l.tm + i < c.qlen /\ b[1] * l.tm \in Nat /\ i \in Nat
  BY BlockFacts, ProductNat DEF IsRow, For, Regular, Positive
<1> SUFFICES ASSUME NEW n \in Nat PROVE InSight(l, b[1], i, n) <=> n \in Sees(c, Origin(c), b[1] * l.tm + i)
  OBVIOUS
<1>3. n \in Sees(c, Origin(c), b[1] * l.tm + i) <=> n < c.klen /\ (c.causal => n <= Origin(c) + (b[1] * l.tm + i))
  BY <1>1 DEF Sees, Positive
<1>4. l.causal => l.pos + b[1] * l.tm + i = Origin(c) + (b[1] * l.tm + i)
  BY <1>1, <1>2
<1>5. CASE l.klen = c.klen
  BY <1>1, <1>3, <1>4, <1>5 DEF InSight
<1>6. CASE c.kind = "gpt" /\ c.causal
  <2>1. Origin(c) = 0
    BY <1>6 DEF Origin
  <2>2. n <= Origin(c) + (b[1] * l.tm + i) => n < c.klen /\ n < l.klen
    BY <1>1, <1>2, <1>6, <2>1 DEF Positive
  <2> QED
    BY <1>1, <1>3, <1>4, <1>6, <2>2 DEF InSight
<1> QED
  BY <1>1, <1>5, <1>6

LEMMA TileFacts ==
  ASSUME NEW c \in Calls, c.kind \in Attending, NEW l, For(l, c), NEW b, NEW i, IsRow(l, c, b, i),
         NEW j \in Nat, j < TileCount(l, b[1]), NEW n \in j * l.tn .. (j + 1) * l.tn - 1
  PROVE  /\ n \in Nat
         /\ ~ Masked(l, b[1], j, i, n) <=> InSight(l, b[1], i, n)
         /\ InSight(l, b[1], i, n) =>
              /\ \A pad : KeyRow(l, b, n, pad) = KeysOf(l, b)[n]
              /\ GptRow(c, KeysOf(l, b)[n]) = KeysOf(l, b)[n]
              /\ Product(QueryAt(l, b, i), KeysOf(l, b)[n]) = ScoresOf(l, b, i)[n]
<1>1. Regular(l) /\ b[1] \in Nat /\ i \in 0 .. l.tm - 1 /\ l.tn \in Positive
  BY BlockFacts DEF For, IsRow, Regular
<1>2. n \in Nat
  BY <1>1, ProductNat DEF Positive
<1>3. ~ Masked(l, b[1], j, i, n) <=> InSight(l, b[1], i, n)
  BY <1>1, MaskIsExact
<1>4. KeysOf(l, b)[n] = <<BatchOf(l, b), KvHead(l, b), n>>
  BY <1>2 DEF KeysOf
<1>5. ASSUME InSight(l, b[1], i, n)
      PROVE  /\ \A pad : KeyRow(l, b, n, pad) = KeysOf(l, b)[n]
             /\ GptRow(c, KeysOf(l, b)[n]) = KeysOf(l, b)[n]
             /\ Product(QueryAt(l, b, i), KeysOf(l, b)[n]) = ScoresOf(l, b, i)[n]
  <2>1. n < l.klen
    BY <1>5 DEF InSight
  <2>2. \A pad : KeyRow(l, b, n, pad) = KeysOf(l, b)[n]
    BY <1>4, <2>1 DEF KeyRow
  <2>3. n \in Sees(c, Origin(c), b[1] * l.tm + i)
    BY <1>2, <1>5, SightIs
  <2>4. n \in 0 .. c.klen - 1
    BY <2>3 DEF Sees
  <2>7. ~ (n >= c.klen)
    <3>1. c.klen \in Positive
      BY CallFacts
    <3> QED
      BY <2>4, <3>1, <1>2 DEF Positive
  <2>5. GptRow(c, KeysOf(l, b)[n]) = KeysOf(l, b)[n]
    BY <1>4, <2>7 DEF GptRow
  <2>6. KeysOf(l, b)[n] \notin Padding /\ QueryAt(l, b, i) \notin Padding
    BY <1>4, NoPadding DEF QueryAt
  <2> QED
    BY <2>2, <2>5, <2>6, <1>2 DEF Product, ScoresOf
<1> QED
  BY <1>2, <1>3, <1>5

LEMMA RoundStep ==
  ASSUME call \in Calls, call.kind \in Attending, NEW l, For(l, call), NEW b, NEW i, IsRow(l, call, b, i),
         NEW j \in Nat, j < TileCount(l, b[1]), NEW st, Staged(l, b, st)
  PROVE  \E tile : /\ TileIs(tile, l, b, i, j)
                   /\ RowOf(l, Round(l, b, st, j), i) = OnlineSoftmax(RowOf(l, st, i), tile)
<1> DEFINE dom == j * l.tn .. (j + 1) * l.tn - 1
           k(n) == KeysOf(l, b)[n]
<1>1. /\ \A n \in dom : /\ n \in Nat
                        /\ ~ Masked(l, b[1], j, i, n) <=> InSight(l, b[1], i, n)
                        /\ InSight(l, b[1], i, n) =>
                              /\ \A pad : KeyRow(l, b, n, pad) = k(n)
                              /\ GptRow(call, k(n)) = k(n)
                              /\ Product(QueryAt(l, b, i), k(n)) = ScoresOf(l, b, i)[n]
  BY TileFacts
<1>2. \A pad : Query(l, b, i, pad) = QueryAt(l, b, i)
  BY RowFacts
<1>3. i \in 0 .. l.tm - 1
  BY DEF IsRow
<1>4. l.kernel \in {"fmha", "fmha_lse", "gpt"} \cup StudyKernels
  BY DEF For, Attending
<1>5. CASE l.kernel = "fmha"
  <2> DEFINE tile == [n \in dom |-> [k |-> KeyRow(l, b, n, UndefRow), v |-> KeyRow(l, b, n, UndefRow),
                        s |-> IF ~ Masked(l, b[1], j, i, n) THEN Product(Query(l, b, i, ZeroRow), KeyRow(l, b, n, UndefRow)) ELSE NegInf]]
  <2>1. Round(l, b, st, j)[i] = OnlineSoftmax(st[i], tile)
    BY <1>3, <1>5 DEF Round, FmhaRound, Meet
  <2>2. TileIs(tile, l, b, i, j)
    BY <1>1, <1>2 DEF TileIs
  <2> QED
    BY <1>5, <2>1, <2>2 DEF RowOf
<1>6. CASE l.kernel = "fmha_lse"
  <2> DEFINE tile == [n \in dom |-> [k |-> KeyRow(l, b, n, UndefRow), v |-> KeyRow(l, b, n, UndefRow),
                        s |-> IF ~ Masked(l, b[1], j, i, n) THEN Product(Query(l, b, i, UndefRow), KeyRow(l, b, n, UndefRow)) ELSE NegInf]]
  <2>1. Round(l, b, st, j)[i] = OnlineSoftmax(st[i], tile)
    BY <1>3, <1>6 DEF Round, FmhaLseRound, Meet
  <2>2. TileIs(tile, l, b, i, j)
    BY <1>1, <1>2 DEF TileIs
  <2> QED
    BY <1>6, <2>1, <2>2 DEF RowOf
<1>7. CASE l.kernel \in {"v1", "v3"}
  <2> DEFINE tile == [n \in dom |-> [k |-> KeyRow(l, b, n, UndefRow), v |-> KeyRow(l, b, n, UndefRow),
                        s |-> IF ~ Masked(l, b[1], j, i, n) THEN Product(Query(l, b, i, UndefRow), KeyRow(l, b, n, UndefRow)) ELSE NegInf]]
  <2>1. Round(l, b, st, j) = Bare(l, b, st, j)
    BY <1>7 DEF Round, FmhaV1Round, FmhaV3Round
  <2>2. Round(l, b, st, j)[i] = OnlineSoftmax(st[i], tile)
    BY <1>3, <2>1 DEF Bare, Meet
  <2>3. TileIs(tile, l, b, i, j)
    BY <1>1, <1>2 DEF TileIs
  <2> QED
    BY <1>7, <2>2, <2>3 DEF RowOf
<1>8. CASE l.kernel = "v2"
  <2> DEFINE staged == [n \in dom |-> KeyRow(l, b, n, UndefRow)]
             tile == [n \in dom |-> [k |-> staged[n], v |-> staged[n],
                        s |-> IF ~ Masked(l, b[1], j, i, n) THEN Product(st.q[i], staged[n]) ELSE NegInf]]
  <2>1. st.q[i] = Query(l, b, i, UndefRow) /\ "rows" \in DOMAIN st
    BY <1>3, <1>8 DEF Staged
  <2>2. Round(l, b, st, j) = StagedRound(l, b, st, j)
    BY <1>8 DEF Round
  <2>3. StagedRound(l, b, st, j).rows[i] = OnlineSoftmax(st.rows[i], tile)
    BY <1>3, <1>8, <2>1 DEF StagedRound, Meet, Staged
  <2>4. TileIs(tile, l, b, i, j)
    BY <1>1, <1>2, <2>1 DEF TileIs
  <2> QED
    BY <1>8, <2>2, <2>3, <2>4 DEF RowOf
<1>9. CASE l.kernel \in {"cutile", "compared"}
  <2> DEFINE tile == [n \in dom |-> [k |-> KeyRow(l, b, n, ZeroRow), v |-> KeyRow(l, b, n, ZeroRow),
                        s |-> IF ~ Masked(l, b[1], j, i, n) THEN Product(Query(l, b, i, ZeroRow), KeyRow(l, b, n, ZeroRow)) ELSE NegInf]]
  <2>1. Round(l, b, st, j) = PaddedRound(l, b, st, j)
    BY <1>9 DEF Round, ComparedRound
  <2>2. Round(l, b, st, j)[i] = OnlineSoftmax(st[i], tile)
    BY <1>3, <2>1 DEF PaddedRound, Meet
  <2>3. TileIs(tile, l, b, i, j)
    BY <1>1, <1>2 DEF TileIs
  <2> QED
    BY <1>9, <2>2, <2>3 DEF RowOf
<1>10. CASE l.kernel = "gpt"
  <2> DEFINE query == IF b[1] * l.tm + i >= call.qlen THEN ZeroRow ELSE Query(l, b, i, ZeroRow)
             tile == [n \in dom |-> [k |-> GptRow(call, KeyRow(l, b, n, ZeroRow)), v |-> GptRow(call, KeyRow(l, b, n, ZeroRow)),
                        s |-> IF ~ Masked(l, b[1], j, i, n) THEN Product(query, GptRow(call, KeyRow(l, b, n, ZeroRow))) ELSE NegInf]]
  <2>1. Round(l, b, st, j) = GptRound(l, b, st, j, call)
    BY <1>10 DEF Round
  <2>2. Round(l, b, st, j)[i] = OnlineSoftmax(st[i], tile)
    BY <1>3, <2>1 DEF GptRound, Meet
  <2>3. query = QueryAt(l, b, i)
    <3>1. b[1] * l.tm + i < call.qlen /\ b[1] * l.tm + i \in Nat /\ call.qlen \in Nat
      BY BlockFacts, ProductNat, CallFacts DEF IsRow, For, Regular, Positive
    <3> QED
      BY <3>1, <1>2
  <2> HIDE DEF query
  <2>4. TileIs(tile, l, b, i, j)
    BY <1>1, <2>3 DEF TileIs
  <2> QED
    BY <1>10, <2>2, <2>4 DEF RowOf
<1> QED
  BY <1>4, <1>5, <1>6, <1>7, <1>8, <1>9, <1>10 DEF StudyKernels

-----------------------------------------------------------------------------
(* A block of an attention kernel *)

Before(A, m) == {n \in A : n < m}

\* A tile adds the keys it holds to those a row has taken in.
LEMMA TileGathered ==
  ASSUME NEW A, A \subseteq Nat, 0 \in A, NEW K, NEW S, \A n \in A : S[n] \in Int /\ NegInf < S[n],
         NEW t \in Positive, NEW j \in Nat,
         NEW tile, DOMAIN tile = j * t .. (j + 1) * t - 1,
         \A n \in j * t .. (j + 1) * t - 1 :
           IF n \in A THEN tile[n].k = K[n] /\ tile[n].v = K[n] /\ tile[n].s = S[n] ELSE tile[n].s = NegInf,
         NEW row, Gathered(row, Before(A, j * t), K, S)
  PROVE  Gathered(OnlineSoftmax(row, tile), Before(A, (j + 1) * t), K, S)
<1> DEFINE lo == j * t
           hi == (j + 1) * t - 1
           V == {n \in A : n \in lo .. hi}
<1>1. lo \in Nat /\ (j + 1) * t = lo + t /\ t \in Nat /\ t > 0
  BY ProductNat DEF Positive
<1>2. hi \in Int /\ hi = lo + t - 1 /\ DOMAIN tile = lo .. hi
  BY <1>1
<1>3. \A n \in lo .. hi :
        IF n \in A THEN tile[n].k = K[n] /\ tile[n].v = K[n] /\ tile[n].s = S[n] ELSE tile[n].s = NegInf
  OBVIOUS
<1>4. Before(A, (j + 1) * t) = Before(A, lo) \cup V
  <2> DEFINE m == (j + 1) * t
  <2>1. m = hi + 1 /\ m \in Nat
    BY <1>1, <1>2
  <2> HIDE DEF m, lo, hi
  <2>2. \A n \in A : n < m <=> n < lo \/ n \in lo .. hi
    BY <2>1, <1>1, <1>2
  <2> QED
    BY <2>2 DEF Before, m
<1>5. Before(A, lo) \cap V = {} /\ V \subseteq lo .. hi
  <2> HIDE DEF lo, hi
  <2>1. \A n \in A : ~ (n < lo /\ n \in lo .. hi)
    BY <1>1, <1>2
  <2> QED
    BY <2>1 DEF Before
<1>6. 0 \in Before(A, (j + 1) * t)
  BY <1>1 DEF Before
<1>7. \A n \in Before(A, lo) \cup V : S[n] \in Int /\ NegInf < S[n]
  BY DEF Before
<1>8. \A n \in V : tile[n].k = K[n] /\ tile[n].v = K[n] /\ tile[n].s = S[n]
  BY <1>3
<1>9. \A n \in (lo .. hi) \ V : tile[n].s = NegInf
  BY <1>3
<1>10. Gathered(row, Before(A, lo), K, S)
  OBVIOUS
<1> DEFINE B == Before(A, lo)
<1>11. B \cup V # {}
  BY <1>4, <1>6
<1>12. lo \in Int
  BY <1>1
<1> HIDE DEF lo, hi, V, B
<1>13. B \cap V = {} /\ \A n \in B \cup V : S[n] \in Int /\ NegInf < S[n]
  BY <1>5, <1>7 DEF B
<1>14. Gathered(row, B, K, S)
  BY <1>10 DEF B
<1>15. Gathered(OnlineSoftmax(row, tile), B \cup V, K, S)
  BY <1>2, <1>5, <1>8, <1>9, <1>11, <1>12, <1>13, <1>14, Gathers
<1> QED
  BY <1>4, <1>15 DEF B

\* The keys a row of a block may see.
Sight(l, c, b, i) == Sees(c, Origin(c), b[1] * l.tm + i)

LEMMA SightFacts ==
  ASSUME NEW c \in Calls, c.kind \in Attending, NEW l, For(l, c), NEW b, NEW i, IsRow(l, c, b, i)
  PROVE  /\ Sight(l, c, b, i) \subseteq 0 .. c.klen - 1 /\ Sight(l, c, b, i) \subseteq Nat /\ 0 \in Sight(l, c, b, i)
         /\ \A n \in Sight(l, c, b, i) : ScoresOf(l, b, i)[n] \in Int /\ NegInf < ScoresOf(l, b, i)[n]
<1>1. c.klen \in Positive /\ (c.causal => Origin(c) \in Nat)
      /\ \A q \in RowsOf(c), n \in 0 .. c.klen - 1 : Finite(q, <<q[1], Kv(c, q), n>>)
  BY CallFacts
<1>2. /\ QueryAt(l, b, i) \in RowsOf(c)
      /\ \A n \in Nat : KeysOf(l, b)[n] = <<QueryAt(l, b, i)[1], Kv(c, QueryAt(l, b, i)), n>>
  BY RowFacts
<1>3. b[1] * l.tm + i \in Nat
  BY BlockFacts, ProductNat DEF IsRow, For, Regular, Positive
<1>4. 0 \in Sight(l, c, b, i) /\ Sight(l, c, b, i) \subseteq 0 .. c.klen - 1 /\ 0 .. c.klen - 1 \subseteq Nat
  BY <1>1, <1>3 DEF Sight, Sees, Positive
<1>5. ASSUME NEW n \in 0 .. c.klen - 1
      PROVE  ScoresOf(l, b, i)[n] \in Int /\ NegInf < ScoresOf(l, b, i)[n]
  <2>1. Finite(QueryAt(l, b, i), <<QueryAt(l, b, i)[1], Kv(c, QueryAt(l, b, i)), n>>)
    BY <1>1, <1>2
  <2>2. n \in Nat
    BY <1>4
  <2>3. Finite(QueryAt(l, b, i), KeysOf(l, b)[n])
    BY <1>2, <2>1, <2>2
  <2> QED
    BY <2>2, <2>3 DEF Finite, ScoresOf
<1> QED
  BY <1>4, <1>5

\* A block in its loop: every row of the call has met the keys it may see of
\* the tiles so far.
Progress(l, c, b, e) ==
  /\ e.j \in 0 .. TileCount(l, b[1])
  /\ Staged(l, b, e.st)
  /\ \A i : IsRow(l, c, b, i) =>
       Gathered(RowOf(l, e.st, i), Before(Sight(l, c, b, i), e.j * l.tn), KeysOf(l, b), ScoresOf(l, b, i))

LEMMA BlockTiles ==
  ASSUME NEW c, NEW l, For(l, c), NEW b \in Grid(l)
  PROVE  TileCount(l, b[1]) \in Nat /\ l.tn \in Positive
<1>1. Regular(l) /\ b[1] \in Nat /\ l.tn \in Positive
  BY BlockFacts DEF For, Regular
<1>2. KeyBound(l, b[1]) \in Nat /\ TileCount(l, b[1]) = CeilDiv(KeyBound(l, b[1]), l.tn)
  BY <1>1, KeyBoundIs DEF Positive
<1> QED
  BY <1>1, <1>2, Tiles

LEMMA KernelsOf ==
  ASSUME NEW c, c.kind \in Attending, NEW l, For(l, c)
  PROVE  l.kernel \in {"fmha", "fmha_lse", "gpt"} \cup StudyKernels
BY DEF For, Attending

LEMMA BeginProgress ==
  ASSUME NEW c \in Calls, c.kind \in Attending, NEW l, For(l, c), NEW b \in Grid(l)
  PROVE  Progress(l, c, b, [j |-> 0, st |-> Begin(l, b)])
<1> DEFINE e == [j |-> 0, st |-> Begin(l, b)]
<1>1. l.kernel \in {"fmha", "fmha_lse", "gpt", "v1", "v2", "v3", "cutile", "compared"}
  BY KernelsOf DEF StudyKernels
<1>2. Begin(l, b) = IF l.kernel = "v2" THEN StagedBegin(l, b) ELSE FmhaBegin(l)
  <2>1. l.kernel # "dq" /\ l.kernel # "dkdv" /\ l.kernel \in Flash
    BY <1>1 DEF Flash
  <2>2. CASE l.kernel = "v2"
    BY <2>1, <2>2 DEF Begin
  <2>3. CASE l.kernel # "v2"
    BY <2>1, <2>3 DEF Begin
  <2> QED
    BY <2>2, <2>3
<1>3. TileCount(l, b[1]) \in Nat /\ l.tn \in Positive
  BY BlockTiles
<1>4. Staged(l, b, Begin(l, b))
  BY <1>2 DEF Staged, StagedBegin
<1>5. ASSUME NEW i, IsRow(l, c, b, i)
      PROVE  Gathered(RowOf(l, Begin(l, b), i), Before(Sight(l, c, b, i), 0 * l.tn), KeysOf(l, b), ScoresOf(l, b, i))
  <2>1. RowOf(l, Begin(l, b), i) = FreshRow
    BY <1>2, <1>5 DEF RowOf, StagedBegin, FmhaBegin, IsRow
  <2>2. Before(Sight(l, c, b, i), 0 * l.tn) = {}
    <3>1. Sight(l, c, b, i) \subseteq Nat
      BY <1>5, SightFacts
    <3>2. 0 * l.tn = 0
      BY <1>3 DEF Positive
    <3> QED
      BY <3>1, <3>2 DEF Before
  <2> QED
    BY <2>1, <2>2, FreshGathered
<1> QED
  BY <1>3, <1>4, <1>5 DEF Progress

LEMMA RoundProgress ==
  ASSUME call \in Calls, call.kind \in Attending, NEW l, For(l, call), NEW b \in Grid(l), NEW e,
         Progress(l, call, b, e), e.j < TileCount(l, b[1])
  PROVE  Progress(l, call, b, [j |-> e.j + 1, st |-> Round(l, b, e.st, e.j)])
<1> DEFINE st == Round(l, b, e.st, e.j)
<1>1. TileCount(l, b[1]) \in Nat /\ l.tn \in Positive /\ e.j \in Nat /\ e.j + 1 \in 0 .. TileCount(l, b[1])
  BY BlockTiles DEF Progress
<1>2. Staged(l, b, e.st)
  BY DEF Progress
<1>3. Staged(l, b, st)
  <2> SUFFICES ASSUME l.kernel = "v2" PROVE Staged(l, b, st)
    BY DEF Staged
  <2>1. st = StagedRound(l, b, e.st, e.j)
    BY DEF Round
  <2>2. DOMAIN e.st = {"rows", "q", "k", "v"}
    BY <1>2 DEF Staged
  <2>3. DOMAIN StagedRound(l, b, e.st, e.j) = DOMAIN e.st /\ StagedRound(l, b, e.st, e.j).q = e.st.q
    BY <2>2 DEF StagedRound
  <2> QED
    BY <1>2, <2>1, <2>3 DEF Staged
<1>4. ASSUME NEW i, IsRow(l, call, b, i)
      PROVE  Gathered(RowOf(l, st, i), Before(Sight(l, call, b, i), (e.j + 1) * l.tn), KeysOf(l, b), ScoresOf(l, b, i))
  <2> DEFINE A == Sight(l, call, b, i)
             K == KeysOf(l, b)
             S == ScoresOf(l, b, i)
             row == RowOf(l, e.st, i)
             t == l.tn
             j == e.j
  <2>1. PICK tile : TileIs(tile, l, b, i, j) /\ RowOf(l, st, i) = OnlineSoftmax(row, tile)
    BY <1>1, <1>2, <1>4, RoundStep
  <2>2. A \subseteq Nat /\ 0 \in A /\ \A n \in A : S[n] \in Int /\ NegInf < S[n]
    BY <1>4, SightFacts
  <2>3. Gathered(row, Before(A, j * t), K, S)
    BY <1>4 DEF Progress
  <2>4. ASSUME NEW n \in j * t .. (j + 1) * t - 1
        PROVE  IF n \in A THEN tile[n].k = K[n] /\ tile[n].v = K[n] /\ tile[n].s = S[n] ELSE tile[n].s = NegInf
    <3>1. n \in Nat
      BY <1>1, <2>4, ProductNat DEF Positive
    <3>2. InSight(l, b[1], i, n) <=> n \in A
      BY <1>4, <3>1, SightIs DEF Sight
    <3> QED
      BY <2>1, <2>4, <3>2 DEF TileIs
  <2>5. DOMAIN tile = j * t .. (j + 1) * t - 1
    BY <2>1 DEF TileIs
  <2>6. t \in Positive /\ j \in Nat
    BY <1>1
  <2>7. RowOf(l, st, i) = OnlineSoftmax(row, tile)
    BY <2>1
  <2> HIDE DEF A, K, S, row, t, j
  <2>8. Gathered(OnlineSoftmax(row, tile), Before(A, (j + 1) * t), K, S)
    BY <2>2, <2>3, <2>4, <2>5, <2>6, TileGathered
  <2> QED
    BY <2>7, <2>8 DEF A, K, S, row, t, j
<1> HIDE DEF st
<1> QED
  BY <1>1, <1>3, <1>4 DEF Progress, st

\* When a block's loop has ended its rows have met all they may see.
LEMMA EndedGathered ==
  ASSUME NEW c \in Calls, c.kind \in Attending, NEW l, For(l, c), NEW b, NEW i, IsRow(l, c, b, i),
         NEW e, Progress(l, c, b, e), e.j = TileCount(l, b[1])
  PROVE  Gathered(RowOf(l, e.st, i), Sight(l, c, b, i), KeysOf(l, b), ScoresOf(l, b, i))
<1> DEFINE A == Sight(l, c, b, i)
<1>1. A \subseteq Nat
  BY SightFacts
<1>2. Before(A, e.j * l.tn) = A
  <2> SUFFICES ASSUME NEW n \in A PROVE n < e.j * l.tn
    BY DEF Before
  <2>1. n \in Nat
    BY <1>1
  <2>2. InSight(l, b[1], i, n)
    BY <2>1, SightIs DEF Sight
  <2>3. Regular(l) /\ b[1] \in Nat /\ i \in 0 .. l.tm - 1
    BY BlockFacts DEF For, IsRow
  <2> QED
    BY <2>1, <2>2, <2>3, SightEnds
<1> QED
  BY <1>2 DEF Progress

Expect(c, q) == Attention(c, Origin(c), q)

LEMMA EndedRow ==
  ASSUME NEW c \in Calls, c.kind \in Attending, NEW l, For(l, c), NEW b, NEW i, IsRow(l, c, b, i),
         NEW e, Progress(l, c, b, e), e.j = TileCount(l, b[1])
  PROVE  Normalised(RowOf(l, e.st, i)) = Expect(c, QueryAt(l, b, i))
<1> DEFINE q == QueryAt(l, b, i)
           A == Sight(l, c, b, i)
           K == KeysOf(l, b)
           S == ScoresOf(l, b, i)
           row == RowOf(l, e.st, i)
<1>1. A \subseteq Nat /\ 0 \in A /\ \A n \in A : S[n] \in Int /\ NegInf < S[n]
  BY SightFacts
<1>3. Gathered(row, A, K, S)
  BY EndedGathered
<1>4. \A n \in Nat : K[n] = <<q[1], Kv(c, q), n>>
  BY RowFacts
<1>5. \A n \in Nat : S[n] = Product(q, K[n])
  <2>1. \A n \in Nat : K[n] \notin Padding
    BY <1>4, NoPadding
  <2>2. q \notin Padding
    BY NoPadding DEF QueryAt
  <2> QED
    BY <2>1, <2>2 DEF Product, ScoresOf
<1>6. A = Sees(c, Origin(c), q[3])
  BY DEF Sight, QueryAt
<1> HIDE DEF q, A, K, S, row
<1>7. Normalised(row) = [n \in A |-> [k |-> K[n], v |-> K[n], e |-> S[n] - Max({S[x] : x \in A})]]
  <2>1. A # {} /\ \A n \in A : S[n] \in Int /\ NegInf < S[n]
    BY <1>1
  <2>2. Normalised(row) = Terms(A, K, S)
    BY <2>1, <1>3, GatheredIsSoftmax
  <2> QED
    BY <2>2 DEF Terms
<1> DEFINE kv(n) == <<q[1], Kv(c, q), n>>
           top == Max({Product(q, kv(n)) : n \in A})
<1>8. Expect(c, q) = [n \in A |-> [k |-> kv(n), v |-> kv(n), e |-> Product(q, kv(n)) - top]]
  BY <1>6 DEF Expect, Attention, Softmax
<1>9. {S[x] : x \in A} = {Product(q, kv(n)) : n \in A}
  <2>1. \A n \in A : S[n] = Product(q, kv(n))
    BY <1>1, <1>4, <1>5
  <2> QED
    BY <2>1
<1>10. \A n \in A : K[n] = kv(n) /\ S[n] = Product(q, kv(n))
  BY <1>1, <1>4, <1>5
<1>11. Normalised(row) = [n \in A |-> [k |-> K[n], v |-> K[n], e |-> S[n] - top]]
  BY <1>7, <1>9
<1> HIDE DEF top, kv
<1>12. Normalised(row) = Expect(c, q)
  BY <1>8, <1>10, <1>11
<1> QED
  BY <1>12 DEF row, q

-----------------------------------------------------------------------------
(* What the blocks of a launch store *)

LEMMA Prefixed ==
  ASSUME NEW name, NEW x, NEW y, NEW z
  PROVE  <<name>> \o <<x, y, z>> = <<name, x, y, z>>
<1> DEFINE p == <<name>>
           q == <<x, y, z>>
           a == p \o q
           o == <<name, x, y, z>>
           U == {name, x, y, z}
<1>1. p \in Seq(U) /\ q \in Seq(U) /\ o \in Seq(U)
  OBVIOUS
<1>2. Len(p) = 1 /\ Len(q) = 3 /\ Len(o) = 4
  OBVIOUS
<1>3. a \in Seq(U) /\ Len(a) = 4
  BY <1>1, <1>2
<1>4. \A i \in 1 .. 4 : a[i] = o[i]
  <2>1. a[1] = name
    BY <1>1, <1>2
  <2>2. a[2] = x
    BY <1>1, <1>2
  <2>3. a[3] = y
    BY <1>1, <1>2
  <2>4. a[4] = z
    BY <1>1, <1>2
  <2> QED
    BY <2>1, <2>2, <2>3, <2>4
<1> HIDE DEF a, o, U
<1>5. a = o
  BY <1>1, <1>2, <1>3, <1>4, SeqEqual
<1> QED
  BY <1>5 DEF a, p, q, o

OutAt(q) == <<"O">> \o q

LEMMA Out == ASSUME NEW x, NEW y, NEW z PROVE OutAt(<<x, y, z>>) = <<"O", x, y, z>>
  BY Prefixed DEF OutAt

\* Every row of the call is a row of a block.
LEMMA RowHasBlock ==
  ASSUME NEW c \in Calls, c.kind \in Attending, NEW l, For(l, c), NEW q \in RowsOf(c)
  PROVE  \E b \in Grid(l) : \E i : IsRow(l, c, b, i) /\ QueryAt(l, b, i) = q
<1>1. PICK x \in 0 .. c.batch - 1, h \in 0 .. c.heads - 1, r \in 0 .. c.qlen - 1 : q = <<x, h, r>>
  BY DEF RowsOf
<1>2. {c.batch, c.heads, c.qlen} \subseteq Positive /\ l.tm \in Positive /\ l.qlen \in Positive
      /\ l.batch = c.batch /\ l.heads = c.heads /\ c.qlen <= l.qlen
  BY CallFacts DEF For, Regular
<1> DEFINE b == <<r \div l.tm, x * c.heads + h>>
           i == r % l.tm
<1>3. r \in Nat /\ x \in Nat /\ h \in Nat /\ r < c.qlen
  BY <1>2 DEF Positive
<1>4. i \in 0 .. l.tm - 1 /\ r \div l.tm \in Nat /\ (r \div l.tm) * l.tm + i = r
  BY <1>2, <1>3, QuotientOf
<1>5. b[1] = r \div l.tm /\ b[2] = x * c.heads + h
  OBVIOUS
<1>6. b[1] < CeilDiv(l.qlen, l.tm) /\ CeilDiv(l.qlen, l.tm) \in Nat
  <2> DEFINE j == r \div l.tm
             m == j * l.tm
  <2>1. m \in Nat /\ j \in Nat /\ m + i = r
    BY <1>2, <1>4, ProductNat DEF Positive
  <2>2. l.qlen \in Nat
    BY <1>2 DEF Positive
  <2>3. m < l.qlen
    <3>1. i \in Nat /\ c.qlen \in Nat /\ r < c.qlen /\ c.qlen <= l.qlen
      BY <1>2, <1>3, <1>4 DEF Positive
    <3> HIDE DEF m, j, i
    <3> QED
      BY <2>1, <2>2, <3>1
  <2> HIDE DEF j
  <2>4. j < CeilDiv(l.qlen, l.tm) <=> j * l.tm < l.qlen
    BY <2>1, <2>2, <1>2, Tiles
  <2> QED
    BY <2>2, <2>3, <2>4, <1>2, Tiles DEF j
<1>7. b[2] \in 0 .. c.batch * c.heads - 1 /\ b[2] \div c.heads = x /\ b[2] % c.heads = h
  <2>1. c.batch \in Nat /\ c.heads \in Positive
    BY <1>2 DEF Positive
  <2>2. x * c.heads + h \in 0 .. c.batch * c.heads - 1 /\ (x * c.heads + h) \div c.heads = x /\ (x * c.heads + h) % c.heads = h
    BY <2>1, RowOfRank
  <2> QED
    BY <2>2
<1>8. b \in Grid(l)
  BY <1>2, <1>4, <1>5, <1>6, <1>7 DEF Grid
<1> HIDE DEF b, i
<1>9. b[1] * l.tm + i = r
  BY <1>4, <1>5
<1>10. QueryAt(l, b, i) = q /\ IsRow(l, c, b, i)
  BY <1>1, <1>2, <1>3, <1>4, <1>7, <1>8, <1>9 DEF QueryAt, BatchOf, HeadOf, IsRow
<1> QED
  BY <1>8, <1>10

\* The rows of the call a block has.
BlockRows(l, c, b) == {q \in RowsOf(c) : \E i : IsRow(l, c, b, i) /\ QueryAt(l, b, i) = q}

\* The store of a block's accumulators.
RowStores(l, b, st) == StoreRows(l, b, "O", LAMBDA i : Normalised(RowOf(l, st, i)))

LEMMA StoresOfRows ==
  ASSUME NEW l, NEW b, NEW st, NEW q, NEW x, NEW y, NEW z, q = <<x, y, z>>
  PROVE  /\ OutAt(q) \in DOMAIN RowStores(l, b, st) <=>
              \E i \in 0 .. l.tm - 1 : b[1] * l.tm + i < l.qlen /\ q = QueryAt(l, b, i)
         /\ OutAt(q) \in DOMAIN RowStores(l, b, st) =>
              RowStores(l, b, st)[OutAt(q)] = Normalised(RowOf(l, st, q[3] - b[1] * l.tm))
<1> DEFINE stores == RowStores(l, b, st)
           rows == {i \in 0 .. l.tm - 1 : b[1] * l.tm + i < l.qlen}
           place(i) == <<"O", BatchOf(l, b), HeadOf(l, b), b[1] * l.tm + i>>
<1>1. stores = [a \in {place(i) : i \in rows} |-> Normalised(RowOf(l, st, a[4] - b[1] * l.tm))]
  BY DEF RowStores, StoreRows
<1>2. OutAt(q) = <<"O", x, y, z>>
  BY Out
<1>3. OutAt(q) \in DOMAIN stores <=> \E i \in rows : q = QueryAt(l, b, i)
  BY <1>1, <1>2 DEF QueryAt
<1>4. OutAt(q)[4] = z /\ q[3] = z
  BY <1>2
<1>5. OutAt(q) \in DOMAIN stores => stores[OutAt(q)] = Normalised(RowOf(l, st, q[3] - b[1] * l.tm))
  BY <1>1, <1>4
<1> QED
  BY <1>3, <1>5

LEMMA StoresAre ==
  ASSUME NEW c \in Calls, c.kind \in Attending, NEW l, For(l, c), NEW b \in Grid(l), NEW e,
         Progress(l, c, b, e), e.j = TileCount(l, b[1]), NEW q \in RowsOf(c)
  PROVE  /\ OutAt(q) \in DOMAIN LastStores(l, b, e.st) <=> q \in BlockRows(l, c, b)
         /\ q \in BlockRows(l, c, b) => LastStores(l, b, e.st)[OutAt(q)] = Expect(c, q)
<1> DEFINE st == e.st
           stores == RowStores(l, b, st)
           last == LastStores(l, b, st)
<1>1. PICK x, y, z : q = <<x, y, z>> /\ z < c.qlen
  <2>1. c.qlen \in Nat
    BY CallFacts DEF Positive
  <2> QED
    BY <2>1 DEF RowsOf
<1>2. b[1] * l.tm \in Int /\ l.tm \in Nat /\ c.qlen <= l.qlen /\ b[1] * l.tm \in Nat /\ c.qlen \in Nat /\ l.qlen \in Nat
  BY BlockFacts, ProductNat, CallFacts DEF For, Regular, Positive
<1>3. OutAt(q) \in DOMAIN stores <=> q \in BlockRows(l, c, b)
  <2>1. OutAt(q) \in DOMAIN stores <=>
          \E i \in 0 .. l.tm - 1 : b[1] * l.tm + i < l.qlen /\ q = QueryAt(l, b, i)
    BY <1>1, <1>2, StoresOfRows
  <2>2. ASSUME NEW i \in 0 .. l.tm - 1, q = QueryAt(l, b, i)
        PROVE  IsRow(l, c, b, i) /\ b[1] * l.tm + i < l.qlen
    <3>1. b[1] * l.tm + i = z /\ b[1] * l.tm + i \in Nat
      BY <1>1, <1>2, <2>2 DEF QueryAt
    <3> QED
      BY <3>1, <1>1, <1>2 DEF IsRow
  <2> QED
    BY <2>1, <2>2 DEF BlockRows, IsRow
<1>4. q \in BlockRows(l, c, b) => stores[OutAt(q)] = Expect(c, q)
  <2> SUFFICES ASSUME q \in BlockRows(l, c, b) PROVE stores[OutAt(q)] = Expect(c, q)
    OBVIOUS
  <2>1. PICK i : IsRow(l, c, b, i) /\ QueryAt(l, b, i) = q
    BY DEF BlockRows
  <2>2. q[3] - b[1] * l.tm = i
    BY <2>1, <1>2 DEF QueryAt, IsRow
  <2>3. stores[OutAt(q)] = Normalised(RowOf(l, st, q[3] - b[1] * l.tm))
    BY <1>1, <1>2, <1>3, StoresOfRows
  <2>4. Normalised(RowOf(l, st, i)) = Expect(c, q)
    BY <2>1, EndedRow
  <2> QED
    BY <2>2, <2>3, <2>4
<1>5. l.kernel \in {"fmha", "fmha_lse", "gpt", "v1", "v2", "v3", "cutile", "compared"}
  BY KernelsOf DEF StudyKernels
<1>6. CASE l.kernel = "v2"
  <2>1. last = FmhaStore(l, b, st.rows)
    BY <1>6 DEF LastStores
  <2>2. last = stores
    BY <1>6, <2>1 DEF FmhaStore, RowStores, StoreRows, RowOf
  <2> QED
    BY <2>2, <1>3, <1>4
<1>7. CASE l.kernel \in {"fmha", "gpt", "v1", "v3", "cutile", "compared"}
  <2>1. last = FmhaStore(l, b, st)
    BY <1>7 DEF LastStores
  <2>2. last = stores
    BY <1>7, <2>1 DEF FmhaStore, RowStores, StoreRows, RowOf
  <2> QED
    BY <2>2, <1>3, <1>4
<1>8. CASE l.kernel = "fmha_lse"
  <2>1. last = FmhaLseStore(l, b, st)
    BY <1>8 DEF LastStores
  <2>2. StoreRows(l, b, "O", LAMBDA i : Normalised(st[i])) = stores
    BY <1>8 DEF RowStores, StoreRows, RowOf
  <2> DEFINE lse == [a \in {<<"LSE", Flat(l, b, i)>> : i \in 0 .. l.tm - 1} |->
                       LET i == a[2] - Flat(l, b, 0) IN
                       IF Query(l, b, i, UndefRow) = UndefRow THEN Undefined ELSE LogSum(st[i])]
  <2>3. last = stores ++ lse
    BY <2>1, <2>2 DEF FmhaLseStore
  <2>4. OutAt(q) \notin DOMAIN lse
    <3>1. OutAt(q) = <<"O", x, y, z>>
      BY <1>1, Out
    <3> QED
      BY <3>1
  <2> HIDE DEF stores, lse, last
  <2>5. (OutAt(q) \in DOMAIN last <=> OutAt(q) \in DOMAIN stores)
        /\ (OutAt(q) \in DOMAIN stores => last[OutAt(q)] = stores[OutAt(q)])
    BY <2>3, <2>4 DEF ++
  <2>6. (OutAt(q) \in DOMAIN last <=> q \in BlockRows(l, c, b))
        /\ (q \in BlockRows(l, c, b) => last[OutAt(q)] = Expect(c, q))
    BY <2>5, <1>3, <1>4
  <2> QED
    BY <2>6 DEF last
<1> QED
  BY <1>5, <1>6, <1>7, <1>8

\* These kernels store nothing before their loop has ended.
LEMMA LaunchFacts ==
  ASSUME NEW c, c.kind \in Attending, NEW l, For(l, c)
  PROVE  /\ GridOf(l) = Grid(l)
         /\ \A b : Rounds(l, b) = TileCount(l, b[1])
         /\ \A b, st, j : RoundStores(l, b, st, j) = <<>>
<1>1. l.kernel \in {"fmha", "fmha_lse", "gpt", "v1", "v2", "v3", "cutile", "compared"}
  BY KernelsOf DEF StudyKernels
<1>2. /\ l.kernel # "dq" /\ l.kernel # "dkdv" /\ l.kernel # "paged_decode" /\ l.kernel \in Flash
      /\ l.kernel # "matmul" /\ l.kernel # "tiled" /\ l.kernel # "softmax" /\ l.kernel # "store_kvcache"
  BY <1>1 DEF Flash
<1>3. GridOf(l) = Grid(l)
  BY <1>2 DEF GridOf
<1>4. \A b : Rounds(l, b) = TileCount(l, b[1])
  BY <1>2 DEF Rounds
<1>5. \A b, st, j : RoundStores(l, b, st, j) = <<>>
  BY <1>2 DEF RoundStores
<1> QED
  BY <1>3, <1>4, <1>5

-----------------------------------------------------------------------------
(* The stream *)

\* The blocks on the device are those of the first launch.
StreamInv ==
  IF queue = <<>> THEN DOMAIN resident = {} /\ done = {}
  ELSE /\ DOMAIN resident \subseteq GridOf(queue[1]) /\ done \subseteq GridOf(queue[1])
       /\ DOMAIN resident \cap done = {}

\* The stages that only one kind of call has.
StageInv ==
  /\ stage = "forward" => call.kind = "train"
  /\ stage \in {"prefill", "decode"} => call.kind = "generate"

Written(c, q) == OutAt(q) \in DOMAIN mem /\ mem[OutAt(q)] = Expect(c, q)

\* An attention call whose rows have not been overwritten: its blocks hold what
\* they have met so far, those that ended have stored their rows, and when the
\* stream is empty all rows are stored.
Standing == (stage = "launched" /\ call.kind \in {"infer", "study", "gpt"}) \/ stage = "forward"
RowsStand ==
  /\ call \in Calls /\ call.kind \in Attending
  /\ queue \in Seq(LaunchesOf(call))
  /\ queue # <<>> =>
       /\ \A b \in DOMAIN resident : Progress(queue[1], call, b, resident[b])
       /\ \A b \in done : \A q \in BlockRows(queue[1], call, b) : Written(call, q)
  /\ queue = <<>> => \A q \in RowsOf(call) : Written(call, q)
AttendInv == Standing => RowsStand

LEMMA StreamStep ==
  ASSUME StreamInv, DeviceNext
  PROVE  StreamInv'
<1> USE DEF StreamInv
<1>1. ASSUME NEW b, queue # <<>>, b \in GridOf(queue[1]), Issue(b) PROVE StreamInv'
  <2>1. DOMAIN resident' = {b} \cup DOMAIN resident /\ b \notin done /\ queue' = queue /\ done' = done
    BY <1>1 DEF Issue, ++, Entry
  <2>2. GridOf(queue[1])' = GridOf(queue'[1])
    BY DEF GridOf
  <2> QED
    BY <1>1, <2>1
<1>2. ASSUME NEW b, queue # <<>>, Iterate(b) PROVE StreamInv'
  <2>1. DOMAIN resident' = DOMAIN resident /\ queue' = queue /\ done' = done
    BY <1>2 DEF Iterate
  <2> QED
    BY <1>2, <2>1
<1>3. ASSUME NEW b, queue # <<>>, Retire(b) PROVE StreamInv'
  <2>1. DOMAIN resident' = DOMAIN resident \ {b} /\ queue' = queue /\ done' = done \cup {b} /\ b \in DOMAIN resident
    BY <1>3 DEF Retire
  <2> QED
    BY <1>3, <2>1
<1>4. CASE NextLaunch
  <2>1. DOMAIN resident = {} /\ resident' = resident /\ done' = {}
    BY <1>4 DEF NextLaunch
  <2> QED
    BY <2>1
<1>5. ASSUME queue = <<>>, resident' = resident, done' = done PROVE StreamInv'
  <2>1. DOMAIN resident' = {} /\ done' = {}
    BY <1>5
  <2> QED
    BY <2>1
<1>6. CASE Backward \/ Return \/ BeginDecoding \/ Replay \/ EagerStep \/ EndDecoding
  BY <1>5, <1>6 DEF Backward, Return, BeginDecoding, Replay, EagerStep, EndDecoding, Submit, More, stream
<1>7. ASSUME NEW c, Infer(c) \/ Forward(c) \/ Study(c) \/ Gpt(c) \/ Generate(c) \/ Attend(c) \/ Tune(c) \/ Benchmark(c) \/ Elementwise(c)
      PROVE  StreamInv'
  BY <1>5, <1>7 DEF Infer, Forward, Study, Gpt, Generate, Attend, Tune, Benchmark, Elementwise, Make, Submit
<1> QED
  BY <1>1, <1>2, <1>3, <1>4, <1>6, <1>7 DEF DeviceNext

LEMMA StageStep ==
  ASSUME StageInv, DeviceNext
  PROVE  StageInv'
<1> USE DEF StageInv
<1>1. ASSUME NEW b, Issue(b) \/ Iterate(b) \/ Retire(b) PROVE StageInv'
  BY <1>1 DEF Issue, Iterate, Retire
<1>2. CASE NextLaunch \/ Backward \/ Return \/ BeginDecoding \/ Replay \/ EagerStep \/ EndDecoding
  BY <1>2 DEF NextLaunch, Backward, Return, BeginDecoding, Replay, EagerStep, EndDecoding, More
<1>3. ASSUME NEW c, Infer(c) \/ Forward(c) \/ Study(c) \/ Gpt(c) \/ Generate(c) \/ Attend(c) \/ Tune(c) \/ Benchmark(c) \/ Elementwise(c)
      PROVE  StageInv'
  BY <1>3 DEF Infer, Forward, Study, Gpt, Generate, Attend, Tune, Benchmark, Elementwise, Make
<1> QED
  BY <1>1, <1>2, <1>3 DEF DeviceNext

-----------------------------------------------------------------------------
(* Attention calls *)

\* A launch of a call whose rows stand.
LEMMA Head1 ==
  ASSUME AttendInv, Standing, queue # <<>>
  PROVE  call \in Calls /\ call.kind \in Attending /\ queue[1] \in LaunchesOf(call) /\ For(queue[1], call)
         /\ GridOf(queue[1]) = Grid(queue[1])
<1>1. call \in Calls /\ call.kind \in Attending /\ queue \in Seq(LaunchesOf(call))
  BY DEF AttendInv, RowsStand
<1>2. queue[1] \in LaunchesOf(call)
  BY <1>1
<1>3. For(queue[1], call)
  BY <1>1, <1>2, LaunchesFor
<1> QED
  BY <1>1, <1>2, <1>3, LaunchFacts

\* Stores that are right wherever they meet a row of the call keep what is written.
LEMMA WrittenStays ==
  ASSUME NEW c, NEW q, NEW stores, mem' = stores ++ mem, Written(c, q),
         OutAt(q) \in DOMAIN stores => stores[OutAt(q)] = Expect(c, q)
  PROVE  OutAt(q) \in DOMAIN mem' /\ mem'[OutAt(q)] = Expect(c, q)
BY DEF Written, ++

LEMMA AttendIssue ==
  ASSUME StreamInv, AttendInv, NEW b, Issue(b)
  PROVE  AttendInv'
<1> SUFFICES ASSUME Standing' PROVE RowsStand'
  BY DEF AttendInv
<1>1. call' = call /\ stage' = stage /\ queue' = queue /\ done' = done /\ mem' = mem /\ queue # <<>>
      /\ b \in GridOf(queue[1]) /\ resident' = resident ++ Entry(b, [j |-> 0, st |-> Begin(queue[1], b)]) /\ b \notin DOMAIN resident
  BY DEF Issue
<1>2. Standing
  BY <1>1 DEF Standing
<1>3. call \in Calls /\ call.kind \in Attending /\ For(queue[1], call) /\ b \in Grid(queue[1])
  BY <1>1, <1>2, Head1
<1>4. ASSUME NEW x \in DOMAIN resident' PROVE Progress(queue[1], call, x, resident'[x])
  <2>1. CASE x \in DOMAIN resident
    BY <1>1, <1>2, <2>1 DEF ++, Entry, AttendInv, RowsStand
  <2>2. CASE x \notin DOMAIN resident
    <3>1. x = b /\ resident'[x] = [j |-> 0, st |-> Begin(queue[1], b)]
      BY <1>1, <2>2 DEF ++, Entry
    <3> QED
      BY <1>3, <3>1, BeginProgress
  <2> QED
    BY <2>1, <2>2
<1>5. \A z \in done : \A q \in BlockRows(queue[1], call, z) : Written(call, q)'
  BY <1>1, <1>2 DEF AttendInv, RowsStand, Written
<1> QED
  BY <1>1, <1>2, <1>3, <1>4, <1>5 DEF AttendInv, RowsStand

LEMMA AttendIterate ==
  ASSUME StreamInv, AttendInv, NEW b, Iterate(b), queue # <<>>
  PROVE  AttendInv'
<1> SUFFICES ASSUME Standing' PROVE RowsStand'
  BY DEF AttendInv
<1> DEFINE l == queue[1]
           e == resident[b]
           stores == RoundStores(l, b, Round(l, b, e.st, e.j), e.j)
<1>1. call' = call /\ stage' = stage /\ queue' = queue /\ done' = done /\ b \in DOMAIN resident /\ e.j < Rounds(l, b)
      /\ resident' = [resident EXCEPT ![b] = [j |-> e.j + 1, st |-> Round(l, b, e.st, e.j)]]
      /\ mem' = stores ++ mem
  BY DEF Iterate
<1>2. Standing
  BY <1>1 DEF Standing
<1>3. call \in Calls /\ call.kind \in Attending /\ For(l, call) /\ GridOf(l) = Grid(l)
  BY <1>2, Head1
<1>4. b \in Grid(l)
  BY <1>1, <1>3 DEF StreamInv
<1>5. stores = <<>> /\ Rounds(l, b) = TileCount(l, b[1])
  BY <1>3, LaunchFacts
<1>6. ASSUME NEW x \in DOMAIN resident' PROVE Progress(l, call, x, resident'[x])
  <2>1. DOMAIN resident' = DOMAIN resident
    BY <1>1
  <2>2. CASE x # b
    <3>1. resident'[x] = resident[x]
      BY <1>1, <2>1, <2>2
    <3> QED
      BY <1>2, <2>1, <3>1 DEF AttendInv, RowsStand
  <2>3. CASE x = b
    <3>1. resident'[x] = [j |-> e.j + 1, st |-> Round(l, b, e.st, e.j)]
      BY <1>1, <2>3
    <3>2. Progress(l, call, b, e)
      BY <1>1, <1>2 DEF AttendInv, RowsStand
    <3> HIDE DEF e, l
    <3> QED
      BY <1>1, <1>3, <1>4, <1>5, <2>3, <3>1, <3>2, RoundProgress
  <2> QED
    BY <2>2, <2>3
<1>7. ASSUME NEW z \in done, NEW q \in BlockRows(l, call, z) PROVE Written(call, q)'
  <2>1. Written(call, q)
    BY <1>1, <1>2 DEF AttendInv, RowsStand
  <2>2. OutAt(q) \notin DOMAIN stores
    BY <1>5
  <2> HIDE DEF stores
  <2>3. OutAt(q) \in DOMAIN mem' /\ mem'[OutAt(q)] = Expect(call, q)
    BY <1>1, <2>1, <2>2, WrittenStays
  <2> QED
    BY <1>1, <2>3 DEF Written
<1>8. queue \in Seq(LaunchesOf(call))
  BY <1>2 DEF AttendInv, RowsStand
<1> QED
  BY <1>1, <1>3, <1>6, <1>7, <1>8 DEF RowsStand

LEMMA AttendRetire ==
  ASSUME StreamInv, AttendInv, NEW b, Retire(b), queue # <<>>
  PROVE  AttendInv'
<1> SUFFICES ASSUME Standing' PROVE RowsStand'
  BY DEF AttendInv
<1> DEFINE l == queue[1]
           e == resident[b]
           stores == LastStores(l, b, e.st)
<1>1. call' = call /\ stage' = stage /\ queue' = queue /\ done' = done \cup {b} /\ b \in DOMAIN resident /\ e.j = Rounds(l, b)
      /\ resident' = [c \in DOMAIN resident \ {b} |-> resident[c]]
      /\ mem' = stores ++ mem
  BY DEF Retire
<1>2. Standing
  BY <1>1 DEF Standing
<1>3. call \in Calls /\ call.kind \in Attending /\ For(l, call) /\ GridOf(l) = Grid(l)
  BY <1>2, Head1
<1>4. b \in Grid(l)
  BY <1>1, <1>3 DEF StreamInv
<1>5. Rounds(l, b) = TileCount(l, b[1])
  BY <1>3, LaunchFacts
<1>6. \A x \in DOMAIN resident' : Progress(l, call, x, resident'[x])
  BY <1>1, <1>2 DEF AttendInv, RowsStand
<1>7. Progress(l, call, b, e)
  BY <1>1, <1>2 DEF AttendInv, RowsStand
<1>8. \A q \in RowsOf(call) :
        /\ OutAt(q) \in DOMAIN stores <=> q \in BlockRows(l, call, b)
        /\ q \in BlockRows(l, call, b) => stores[OutAt(q)] = Expect(call, q)
  BY <1>1, <1>3, <1>4, <1>5, <1>7, StoresAre
<1>9. ASSUME NEW z \in done', NEW q \in BlockRows(l, call, z) PROVE Written(call, q)'
  <2>0. q \in RowsOf(call)
    BY DEF BlockRows
  <2>1. CASE z \in done
    <3>1. Written(call, q)
      BY <1>1, <1>2, <2>1 DEF AttendInv, RowsStand
    <3>2. OutAt(q) \in DOMAIN stores => stores[OutAt(q)] = Expect(call, q)
      BY <1>8, <2>0
    <3> HIDE DEF stores
    <3>3. OutAt(q) \in DOMAIN mem' /\ mem'[OutAt(q)] = Expect(call, q)
      BY <1>1, <3>1, <3>2, WrittenStays
    <3> QED
      BY <1>1, <3>3 DEF Written
  <2>2. CASE z = b
    <3>1. OutAt(q) \in DOMAIN stores /\ stores[OutAt(q)] = Expect(call, q)
      BY <1>8, <2>0, <2>2
    <3> HIDE DEF stores
    <3>2. OutAt(q) \in DOMAIN mem' /\ mem'[OutAt(q)] = Expect(call, q)
      BY <1>1, <3>1 DEF ++
    <3> QED
      BY <1>1, <3>2 DEF Written
  <2> QED
    BY <1>1, <2>1, <2>2
<1>10. queue \in Seq(LaunchesOf(call))
  BY <1>2 DEF AttendInv, RowsStand
<1> QED
  BY <1>1, <1>3, <1>6, <1>9, <1>10 DEF RowsStand

LEMMA AttendNextLaunch ==
  ASSUME StreamInv, AttendInv, NextLaunch
  PROVE  AttendInv'
<1> SUFFICES ASSUME Standing' PROVE RowsStand'
  BY DEF AttendInv
<1>1. call' = call /\ stage' = stage /\ mem' = mem /\ resident' = resident /\ queue # <<>> /\ done = GridOf(queue[1])
      /\ queue' = Tail(queue) /\ done' = {}
  BY DEF NextLaunch
<1>2. Standing
  BY <1>1 DEF Standing
<1>3. call \in Calls /\ call.kind \in Attending /\ For(queue[1], call) /\ GridOf(queue[1]) = Grid(queue[1])
  BY <1>1, <1>2, Head1
<1>4. DOMAIN resident' = {}
  BY <1>1 DEF StreamInv
<1>5. queue' \in Seq(LaunchesOf(call))
  BY <1>1, <1>2 DEF AttendInv, RowsStand
<1>6. ASSUME NEW q \in RowsOf(call) PROVE Written(call, q)'
  <2>0. PICK b \in Grid(queue[1]) : \E i : IsRow(queue[1], call, b, i) /\ QueryAt(queue[1], b, i) = q
    BY <1>3, RowHasBlock
  <2>1. PICK i : IsRow(queue[1], call, b, i) /\ QueryAt(queue[1], b, i) = q
    BY <2>0
  <2>2. q \in BlockRows(queue[1], call, b) /\ b \in done
    BY <1>1, <1>3, <2>1 DEF BlockRows
  <2>3. Written(call, q)
    BY <1>1, <1>2, <2>2 DEF AttendInv, RowsStand
  <2> QED
    BY <1>1, <2>3 DEF Written
<1> QED
  BY <1>1, <1>3, <1>4, <1>5, <1>6 DEF RowsStand

\* A call of this kind starts with a launch at least on an idle stream.
LEMMA AttendStarts ==
  ASSUME StreamInv, NEW c \in Calls, call' = c, c.kind \in Attending, queue = <<>>,
         queue' \in Seq(LaunchesOf(c)), queue' # <<>>, resident' = resident, done' = done
  PROVE  AttendInv'
<1>1. DOMAIN resident' = {} /\ done' = {}
  BY DEF StreamInv
<1> QED
  BY <1>1 DEF AttendInv, RowsStand

LEMMA AttendMakes ==
  ASSUME StreamInv, NEW c \in Calls, Infer(c) \/ Forward(c) \/ Study(c) \/ Gpt(c)
  PROVE  AttendInv'
<1>1. ASSUME NEW kind, Make(c, kind) PROVE queue = <<>> /\ call' = c /\ c.kind = kind
  BY <1>1 DEF Make
<1>2. CASE Infer(c)
  <2>1. queue = <<>> /\ call' = c /\ c.kind = "infer" /\ resident' = resident /\ done' = done
    BY <1>1, <1>2 DEF Infer, Submit
  <2>2. LaunchesOf(c) = {InferLaunch(c, cfg) : cfg \in ConfigsOf(FwdConfigs)}
    BY <2>1 DEF LaunchesOf
  <2>3. PICK cfg \in ConfigsOf(FwdConfigs) :
          \/ queue' = <<InferLaunch(c, cfg)>>
          \/ queue' = Append([i \in DOMAIN FwdConfigs |-> InferLaunch(c, FwdConfigs[i])], InferLaunch(c, cfg))
    BY <1>2 DEF Infer, Submit
  <2>4. queue' \in Seq(LaunchesOf(c)) /\ queue' # <<>>
    <3>1. InferLaunch(c, cfg) \in LaunchesOf(c)
      BY <2>2
    <3> DEFINE all == [i \in DOMAIN FwdConfigs |-> InferLaunch(c, FwdConfigs[i])]
    <3>2. Len(FwdConfigs) \in Nat /\ DOMAIN FwdConfigs = 1 .. Len(FwdConfigs)
      BY DeviceAssumption DEF TilePairs
    <3>3. \A i \in DOMAIN FwdConfigs : InferLaunch(c, FwdConfigs[i]) \in LaunchesOf(c)
      BY <2>2 DEF ConfigsOf
    <3>4. all \in Seq(LaunchesOf(c))
      BY <3>2, <3>3
    <3> DEFINE L == LaunchesOf(c)
               x == InferLaunch(c, cfg)
    <3>5. x \in L /\ all \in Seq(L) /\ (queue' = <<x>> \/ queue' = Append(all, x))
      BY <2>3, <3>1, <3>4
    <3> HIDE DEF all, L, x
    <3>6. Append(all, x) \in Seq(L) /\ Len(Append(all, x)) = Len(all) + 1 /\ Len(all) \in Nat
      BY <3>5, AppendProperties
    <3>7. Append(all, x) # <<>>
      <4>1. Len(<<>>) = 0
        OBVIOUS
      <4> QED
        BY <3>6, <4>1
    <3>8. <<x>> \in Seq(L) /\ <<x>> # <<>>
      BY <3>5
    <3> QED
      BY <3>5, <3>6, <3>7, <3>8 DEF L
  <2> QED
    BY <2>1, <2>4, AttendStarts DEF Attending
<1>3. CASE Forward(c)
  <2>1. queue = <<>> /\ call' = c /\ c.kind = "train" /\ resident' = resident /\ done' = done /\ queue' = <<ForwardLaunch(c)>>
    BY <1>1, <1>3 DEF Forward, Submit
  <2>2. LaunchesOf(c) = {ForwardLaunch(c)}
    BY <2>1 DEF LaunchesOf
  <2>3. queue' \in Seq(LaunchesOf(c)) /\ queue' # <<>>
    BY <2>1, <2>2
  <2> QED
    BY <2>1, <2>3, AttendStarts DEF Attending
<1>4. CASE Study(c)
  <2>1. queue = <<>> /\ call' = c /\ c.kind = "study" /\ resident' = resident /\ done' = done
    BY <1>1, <1>4 DEF Study, Submit
  <2>2. PICK cfg \in ConfigsOf(StudyConfigs), kernel \in StudyKernels : queue' = <<StudyLaunch(c, kernel, cfg)>>
    BY <1>4 DEF Study, Submit, StudyKernels
  <2>3. LaunchesOf(c) = {StudyLaunch(c, k, f) : k \in StudyKernels, f \in ConfigsOf(StudyConfigs)}
    BY <2>1 DEF LaunchesOf
  <2>4. StudyLaunch(c, kernel, cfg) \in LaunchesOf(c)
    BY <2>3
  <2>5. queue' \in Seq(LaunchesOf(c)) /\ queue' # <<>>
    BY <2>2, <2>4
  <2> QED
    BY <2>1, <2>5, AttendStarts DEF Attending
<1>5. CASE Gpt(c)
  <2>1. queue = <<>> /\ call' = c /\ c.kind = "gpt" /\ resident' = resident /\ done' = done /\ queue' = <<GptLaunch(c)>>
    BY <1>1, <1>5 DEF Gpt, Submit
  <2>2. LaunchesOf(c) = {GptLaunch(c)}
    BY <2>1 DEF LaunchesOf
  <2>3. queue' \in Seq(LaunchesOf(c)) /\ queue' # <<>>
    BY <2>1, <2>2
  <2> QED
    BY <2>1, <2>3, AttendStarts DEF Attending
<1> QED
  BY <1>2, <1>3, <1>4, <1>5

LEMMA AttendStep ==
  ASSUME StreamInv, StageInv, AttendInv, DeviceNext
  PROVE  AttendInv'
<1>1. ASSUME NEW b, queue # <<>>, Issue(b) \/ Iterate(b) \/ Retire(b) PROVE AttendInv'
  BY <1>1, AttendIssue, AttendIterate, AttendRetire
<1>2. CASE NextLaunch
  BY <1>2, AttendNextLaunch
<1>3. ASSUME ~ Standing' PROVE AttendInv'
  BY <1>3 DEF AttendInv
<1>4. CASE Backward \/ Return \/ BeginDecoding \/ Replay \/ EagerStep \/ EndDecoding
  <2>1. ~ Standing'
    BY <1>4 DEF StageInv, Backward, Return, BeginDecoding, Replay, EagerStep, EndDecoding, More, Standing
  <2> QED
    BY <1>3, <2>1
<1>5. ASSUME NEW c, Generate(c) \/ Attend(c) \/ Tune(c) \/ Benchmark(c) \/ Elementwise(c) PROVE AttendInv'
  <2>1. ~ Standing'
    BY <1>5 DEF Generate, Attend, Tune, Benchmark, Elementwise, Make, Standing
  <2> QED
    BY <1>3, <2>1
<1>6. ASSUME NEW c \in Calls, Infer(c) \/ Forward(c) \/ Study(c) \/ Gpt(c) PROVE AttendInv'
  BY <1>6, AttendMakes
<1> QED
  BY <1>1, <1>2, <1>4, <1>5, <1>6 DEF DeviceNext

AttendAll == StreamInv /\ StageInv /\ AttendInv

LEMMA AttendInit == Init => AttendAll
<1> SUFFICES ASSUME Init PROVE AttendAll
  OBVIOUS
<1>1. stage = "idle" /\ queue = <<>> /\ resident = <<>> /\ done = {}
  BY DEF Init, DeviceInit
<1> QED
  BY <1>1 DEF AttendAll, StreamInv, StageInv, AttendInv, Standing

LEMMA AttendNext == AttendAll /\ [Next]_vars => AttendAll'
<1> SUFFICES ASSUME AttendAll, [Next]_vars PROVE AttendAll'
  OBVIOUS
<1>1. CASE OnDevice
  BY <1>1, StreamStep, StageStep, AttendStep DEF AttendAll, OnDevice
<1>2. CASE OnRanks \/ UNCHANGED vars
  <2>1. UNCHANGED <<call, stage, queue, resident, done, mem>>
    BY <1>2 DEF OnRanks, device, stream, vars
  <2>2. StreamInv' /\ StageInv'
    BY <2>1 DEF AttendAll, StreamInv, StageInv, GridOf
  <2>3. AttendInv'
    BY <2>1 DEF AttendAll, AttendInv, RowsStand, Standing, Written
  <2> QED
    BY <2>2, <2>3 DEF AttendAll
<1> QED
  BY <1>1, <1>2 DEF Next

LEMMA AttendMeans == AttendAll => RowsAttendTheirKeys
<1> SUFFICES ASSUME AttendAll PROVE RowsAttendTheirKeys
  OBVIOUS
<1>1. ASSUME Standing, queue = <<>>, NEW q \in RowsOf(call)
      PROVE  mem[<<"O">> \o q] = Attention(call, Origin(call), q)
  BY <1>1 DEF AttendAll, AttendInv, RowsStand, Written, OutAt, Expect
<1>2. Ended("infer") => \A q \in RowsOf(call) : mem[<<"O">> \o q] = Attention(call, call.klen - call.qlen, q)
  BY <1>1 DEF Ended, Standing, Origin
<1>3. (stage = "forward" /\ queue = <<>>) => \A q \in RowsOf(call) : mem[<<"O">> \o q] = Attention(call, 0, q)
  BY <1>1 DEF Standing, Origin, AttendAll, StageInv
<1>4. \A c, pos, q : StudyAttention(c, pos, q) = Attention(c, pos, q)
  BY DEF StudyAttention, Attention, Softmax, Sees, Kv
<1>5. Ended("study") => \A q \in RowsOf(call) : mem[<<"O">> \o q] = StudyAttention(call, call.pos, q)
  BY <1>1, <1>4 DEF Ended, Standing, Origin
<1>6. GptCall(call).pos = IF call.causal THEN 0 ELSE call.klen - 1
  BY DEF GptCall
<1>7. Ended("gpt") => \A q \in RowsOf(call) : mem[<<"O">> \o q] = StudyAttention(call, GptCall(call).pos, q)
  BY <1>1, <1>4, <1>6 DEF Ended, Standing, Origin
<1> QED
  BY <1>2, <1>3, <1>5, <1>7 DEF RowsAttendTheirKeys

\* Every output row of a flash attention kernel is the softmax over exactly the
\* keys it may see (tile_fmha, fmha_forward_with_lse, cutile_fmha,
\* CausalSelfAttention.forward).
THEOREM AttentionIsExact == Spec => []RowsAttendTheirKeys
<1>1. Init => AttendAll
  BY AttendInit
<1>2. AttendAll /\ [Next]_vars => AttendAll'
  BY AttendNext
<1>3. AttendAll => RowsAttendTheirKeys
  BY AttendMeans
<1> QED
  BY <1>1, <1>2, <1>3, PTL DEF Spec

-----------------------------------------------------------------------------
(* The statistics of a training call *)

\* Where the statistics of a row are in an array padded to s rows per head.
Place(c, s, q) == (q[1] * c.heads + q[2]) * s + q[3]

\* A launch of a training call: it addresses statistics with seq rows per head, no
\* fewer than a head has.
Laid(l, c) ==
  /\ {l.tm, l.tn, l.seq} \subseteq Positive
  /\ l.batch = c.batch /\ l.heads = c.heads /\ l.group = c.heads \div c.kvHeads /\ l.causal = c.causal
  /\ l.qlen = c.qlen /\ l.klen = c.klen
  /\ c.qlen <= l.seq

Training(c) == c \in Calls /\ c.kind = "train"

LEMMA TrainFacts ==
  ASSUME NEW c, Training(c)
  PROVE  /\ {c.batch, c.heads, c.kvHeads, c.qlen, c.klen} \subseteq Positive /\ c.causal \in BOOLEAN
         /\ c.heads \div c.kvHeads \in Positive
         /\ c.heads \div (c.heads \div c.kvHeads) = c.kvHeads
         /\ c.kvHeads * (c.heads \div c.kvHeads) = c.heads
<1>1. c.kind \in Attending /\ c \in Calls
  BY DEF Attending, Training
<1>2. {c.batch, c.heads, c.kvHeads, c.qlen, c.klen} \subseteq Positive /\ c.causal \in BOOLEAN
  BY <1>1, CallFacts
<1>3. c.heads % c.kvHeads = 0
  <2>1. WellFormed(c)
    BY <1>1, DeviceAssumption
  <2> QED
    BY <2>1 DEF WellFormed, Training
<1> DEFINE g == c.heads \div c.kvHeads
<1>4. g \in Nat /\ c.heads = g * c.kvHeads
  <2>1. c.heads \in Nat /\ c.kvHeads \in Positive
    BY <1>2 DEF Positive
  <2>2. g \in Nat /\ c.heads = g * c.kvHeads + (c.heads % c.kvHeads)
    BY <2>1, QuotientOf
  <2> HIDE DEF g
  <2>3. g * c.kvHeads \in Nat
    BY <2>1, <2>2, ProductNat DEF Positive
  <2> QED
    BY <2>2, <2>3, <1>3
<1> HIDE DEF g
<1>5. g # 0
  <2>1. 0 * c.kvHeads = 0
    BY <1>2 DEF Positive
  <2> QED
    BY <1>2, <1>4, <2>1 DEF Positive
<1>6. g \in Positive
  BY <1>4, <1>5 DEF Positive
<1>7. c.kvHeads * g = c.heads
  BY <1>2, <1>4 DEF Positive
<1>8. c.heads = c.kvHeads * g + 0 /\ 0 \in 0 .. g - 1 /\ c.kvHeads \in Nat /\ c.heads \in Nat
  BY <1>2, <1>6, <1>7 DEF Positive
<1>9. c.heads \div g = c.kvHeads
  BY <1>6, <1>8, QuotientIs
<1> QED
  BY <1>2, <1>6, <1>7, <1>9 DEF g

LEMMA RowOfCall ==
  ASSUME NEW c, NEW q \in RowsOf(c)
  PROVE  q = <<q[1], q[2], q[3]>> /\ q[1] \in 0 .. c.batch - 1 /\ q[2] \in 0 .. c.heads - 1 /\ q[3] \in 0 .. c.qlen - 1
BY DEF RowsOf

\* The blocks of a launch over the rows of a call.
LEMMA RowBlock ==
  ASSUME NEW c, Training(c), NEW l, Laid(l, c), NEW b \in Grid(l)
  PROVE  /\ b[1] \in Nat /\ b[1] * l.tm \in Nat /\ b[1] * l.tm < c.qlen /\ b[2] \in 0 .. c.batch * c.heads - 1 /\ b[2] \in Nat
         /\ BatchOf(l, b) \in 0 .. c.batch - 1 /\ HeadOf(l, b) \in 0 .. c.heads - 1
         /\ BatchOf(l, b) * c.heads + HeadOf(l, b) = b[2]
<1>1. {c.batch, c.heads, c.qlen, l.tm} \subseteq Positive /\ l.batch = c.batch /\ l.heads = c.heads /\ l.qlen = c.qlen
  BY TrainFacts DEF Laid
<1>2. c.batch \in Nat /\ c.heads \in Positive /\ c.qlen \in Nat /\ l.tm \in Nat /\ c.heads \in Nat
  BY <1>1 DEF Positive
<1>3. CeilDiv(c.qlen, l.tm) \in Nat /\ \A j \in Nat : j < CeilDiv(c.qlen, l.tm) <=> j * l.tm < c.qlen
  BY <1>1, <1>2, Tiles
<1>4. b[1] \in 0 .. CeilDiv(c.qlen, l.tm) - 1 /\ b[2] \in 0 .. c.batch * c.heads - 1
  BY <1>1 DEF Grid
<1>5. b[1] \in Nat /\ b[1] < CeilDiv(c.qlen, l.tm)
  BY <1>3, <1>4
<1>6. b[1] * l.tm \in Nat /\ b[1] * l.tm < c.qlen
  BY <1>2, <1>3, <1>5, ProductNat
<1>7. b[2] \div c.heads \in 0 .. c.batch - 1 /\ b[2] % c.heads \in 0 .. c.heads - 1
      /\ b[2] = (b[2] \div c.heads) * c.heads + (b[2] % c.heads)
  BY <1>2, <1>4, RankOfRow
<1>8. b[2] \in Nat
  BY <1>2, <1>4, ProductNat
<1> QED
  BY <1>1, <1>4, <1>5, <1>6, <1>7, <1>8 DEF BatchOf, HeadOf

LEMMA FlatIs ==
  ASSUME NEW c, Training(c), NEW l, Laid(l, c), NEW b \in Grid(l), NEW i \in 0 .. l.tm - 1
  PROVE  /\ Flat(l, b, i) = b[2] * l.seq + (b[1] * l.tm + i)
         /\ Flat(l, b, i) = Place(c, l.seq, QueryAt(l, b, i))
         /\ Flat(l, b, i) - Flat(l, b, 0) = i
<1> DEFINE x == BatchOf(l, b)
           y == HeadOf(l, b)
           h == c.heads
           s == l.seq
           r == b[1] * l.tm
<1>1. x \in Nat /\ y \in Nat /\ h \in Nat /\ s \in Nat /\ r \in Nat /\ l.heads = h /\ i \in Nat /\ x * h + y = b[2]
  BY RowBlock, TrainFacts DEF Laid, Positive
<1>2. \A k : Flat(l, b, k) = x * (h * s) + y * s + r + k
  BY <1>1 DEF Flat
<1>3. QueryAt(l, b, i) = <<x, y, r + i>>
  BY DEF QueryAt
<1>4. Place(c, s, <<x, y, r + i>>) = (x * h + y) * s + (r + i)
  BY DEF Place
<1> HIDE DEF x, y, h, s, r
<1>5. (x * h + y) * s = x * (h * s) + y * s
  BY <1>1
<1>6. x * (h * s) \in Nat /\ y * s \in Nat
  BY <1>1, ProductNat
<1>7. Flat(l, b, i) = (x * h + y) * s + (r + i) /\ Flat(l, b, i) - Flat(l, b, 0) = i
  BY <1>1, <1>2, <1>5, <1>6
<1>8. Flat(l, b, i) = Place(c, s, QueryAt(l, b, i))
  BY <1>3, <1>4, <1>7
<1> QED
  BY <1>1, <1>7, <1>8 DEF s, r

LEMMA PlaceOf ==
  ASSUME NEW c, Training(c), NEW s \in Positive, c.qlen <= s, NEW q \in RowsOf(c)
  PROVE  /\ Place(c, s, q) \in Nat /\ q[3] \in 0 .. s - 1
         /\ Place(c, s, q) \div s = q[1] * c.heads + q[2] /\ Place(c, s, q) % s = q[3]
         /\ Place(c, s, q) \in FlatSize(c, s)
<1> DEFINE z == q[1] * c.heads + q[2]
           p == Place(c, s, q)
<1>1. c.batch \in Nat /\ c.heads \in Positive /\ c.qlen \in Nat /\ c.heads \in Nat /\ s \in Nat
  BY TrainFacts DEF Positive
<1>2. q[1] \in 0 .. c.batch - 1 /\ q[2] \in 0 .. c.heads - 1 /\ q[3] \in 0 .. s - 1
  BY <1>1, RowOfCall
<1>3. z \in 0 .. c.batch * c.heads - 1
  BY <1>1, <1>2, RowOfRank
<1>4. p = z * s + q[3]
  BY DEF Place
<1>5. z \in Nat /\ c.batch * c.heads \in Nat
  BY <1>1, <1>3, ProductNat
<1> HIDE DEF z, p
<1>6. p \in 0 .. c.batch * c.heads * s - 1 /\ p \div s = z /\ p % s = q[3]
  BY <1>2, <1>3, <1>4, <1>5, RowOfRank
<1>7. p \in Nat
  BY <1>2, <1>4, <1>5, <1>1, ProductNat
<1> QED
  BY <1>2, <1>6, <1>7 DEF z, p, FlatSize

\* A place tells the row.
LEMMA PlaceIs ==
  ASSUME NEW c, Training(c), NEW s \in Positive, c.qlen <= s, NEW q \in RowsOf(c),
         NEW y \in Nat, NEW r \in 0 .. s - 1, y * s + r = Place(c, s, q)
  PROVE  y = q[1] * c.heads + q[2] /\ r = q[3]
<1> DEFINE p == Place(c, s, q)
<1>1. p \in Nat /\ p \div s = q[1] * c.heads + q[2] /\ p % s = q[3]
  BY PlaceOf
<1>2. p = y * s + r
  OBVIOUS
<1> HIDE DEF p
<1>3. p \div s = y /\ p % s = r
  BY <1>1, <1>2, QuotientIs
<1> QED
  BY <1>1, <1>3

\* The tiles of an array of whole tiles are in it.
LEMMA InArray ==
  ASSUME NEW c, Training(c), NEW l, Laid(l, c), l.seq % l.tm = 0, NEW b \in Grid(l), NEW i \in 0 .. l.tm - 1
  PROVE  b[1] * l.tm + i \in 0 .. l.seq - 1
<1> DEFINE m == l.seq \div l.tm
<1>1. l.seq \in Nat /\ l.tm \in Positive /\ l.tm \in Nat /\ c.qlen \in Nat /\ c.qlen <= l.seq
  BY TrainFacts DEF Laid, Positive
<1>2. m \in Nat /\ l.seq = m * l.tm + (l.seq % l.tm)
  BY <1>1, QuotientOf
<1> HIDE DEF m
<1>3. m * l.tm \in Nat
  BY <1>1, <1>2, ProductNat
<1>4. l.seq = m * l.tm
  BY <1>2, <1>3
<1>5. b[1] \in Nat /\ b[1] * l.tm \in Nat /\ b[1] * l.tm < c.qlen
  BY RowBlock
<1>6. b[1] * l.tm < m * l.tm
  BY <1>1, <1>3, <1>4, <1>5
<1>7. b[1] < m
  BY <1>1, <1>2, <1>5, <1>6, ProductLess
<1>8. (b[1] + 1) * l.tm <= m * l.tm /\ (b[1] + 1) * l.tm = b[1] * l.tm + l.tm
  <2>1. b[1] + 1 \in Nat /\ b[1] + 1 <= m
    BY <1>2, <1>5, <1>7
  <2>2. (b[1] + 1) * l.tm <= m * l.tm
    BY <1>1, <1>2, <2>1, ProductMonotone
  <2>3. (b[1] + 1) * l.tm = b[1] * l.tm + l.tm
    BY <1>1, <1>5, ProductNat
  <2> QED
    BY <2>2, <2>3
<1> QED
  BY <1>1, <1>3, <1>4, <1>5, <1>8

\* A block addresses the place of a row only as the block of that row.
LEMMA StatAt ==
  ASSUME NEW c, Training(c), NEW l, Laid(l, c), l.seq % l.tm = 0, NEW b \in Grid(l), NEW q \in RowsOf(c)
  PROVE  /\ \A i \in 0 .. l.tm - 1 : Flat(l, b, i) = Place(c, l.seq, q) => IsRow(l, c, b, i) /\ QueryAt(l, b, i) = q
         /\ q \in BlockRows(l, c, b) <=> \E i \in 0 .. l.tm - 1 : Flat(l, b, i) = Place(c, l.seq, q)
<1>1. ASSUME NEW i \in 0 .. l.tm - 1, Flat(l, b, i) = Place(c, l.seq, q)
      PROVE  IsRow(l, c, b, i) /\ QueryAt(l, b, i) = q
  <2> DEFINE r == b[1] * l.tm + i
             y == b[2]
  <2>1. r \in 0 .. l.seq - 1 /\ y \in Nat
    BY InArray, RowBlock
  <2>2. y * l.seq + r = Place(c, l.seq, q)
    BY <1>1, FlatIs
  <2>3. l.seq \in Positive /\ c.qlen <= l.seq
    BY DEF Laid
  <2> HIDE DEF r, y
  <2>4. y = q[1] * c.heads + q[2] /\ r = q[3]
    BY <2>1, <2>2, <2>3, PlaceIs
  <2>5. q = <<q[1], q[2], q[3]>> /\ q[1] \in 0 .. c.batch - 1 /\ q[2] \in 0 .. c.heads - 1 /\ q[3] \in 0 .. c.qlen - 1
    BY RowOfCall
  <2>6. y \div c.heads = q[1] /\ y % c.heads = q[2]
    <3>1. c.batch \in Nat /\ c.heads \in Positive
      BY TrainFacts DEF Positive
    <3> QED
      BY <2>4, <2>5, <3>1, RowOfRank
  <2>7. BatchOf(l, b) = q[1] /\ HeadOf(l, b) = q[2]
    BY <2>6 DEF BatchOf, HeadOf, y, Laid
  <2>8. QueryAt(l, b, i) = q
    BY <2>4, <2>5, <2>7 DEF QueryAt, r
  <2>9. b[1] * l.tm + i < c.qlen
    <3>1. c.qlen \in Nat
      BY TrainFacts DEF Positive
    <3> QED
      BY <3>1, <2>4, <2>5 DEF r
  <2> QED
    BY <2>8, <2>9 DEF IsRow
<1>2. ASSUME q \in BlockRows(l, c, b) PROVE \E i \in 0 .. l.tm - 1 : Flat(l, b, i) = Place(c, l.seq, q)
  <2>1. PICK i : IsRow(l, c, b, i) /\ QueryAt(l, b, i) = q
    BY <1>2 DEF BlockRows
  <2>2. i \in 0 .. l.tm - 1
    BY <2>1 DEF IsRow
  <2> QED
    BY <2>1, <2>2, FlatIs
<1>3. ASSUME NEW i \in 0 .. l.tm - 1, Flat(l, b, i) = Place(c, l.seq, q) PROVE q \in BlockRows(l, c, b)
  BY <1>1, <1>3 DEF BlockRows
<1> QED
  BY <1>1, <1>2, <1>3

LEMMA PaddedFacts ==
  ASSUME NEW c, Training(c), NEW t \in Positive
  PROVE  PaddedQ(c, t) \in Positive /\ c.qlen <= PaddedQ(c, t) /\ PaddedQ(c, t) % t = 0
<1> DEFINE m == CeilDiv(c.qlen, t)
<1>1. c.qlen \in Positive /\ c.qlen \in Nat /\ t \in Nat
  BY TrainFacts DEF Positive
<1>2. m \in Nat /\ c.qlen <= m * t /\ PaddedQ(c, t) = m * t
  BY <1>1, Tiles DEF PaddedQ
<1> HIDE DEF m
<1>3. m * t \in Nat
  BY <1>1, <1>2, ProductNat
<1>4. m * t = m * t + 0 /\ 0 \in 0 .. t - 1
  BY <1>3 DEF Positive
<1>5. (m * t) % t = 0
  BY <1>2, <1>3, <1>4, QuotientIs
<1> QED
  BY <1>1, <1>2, <1>3, <1>5 DEF Positive

-----------------------------------------------------------------------------
(* The forward pass leaves each row's LSE *)

LseAt(c, s, q) == <<"LSE", Place(c, s, q)>>
DeltaAt(c, s, q) == <<"Delta", Place(c, s, q)>>
ForwardSeq(c) == PaddedQ(c, FwdConfigs[1][1])

LEMMA ForwardLaid ==
  ASSUME NEW c, Training(c)
  PROVE  /\ Laid(ForwardLaunch(c), c) /\ ForwardLaunch(c).seq = ForwardSeq(c)
         /\ ForwardLaunch(c).seq % ForwardLaunch(c).tm = 0
         /\ ForwardLaunch(c).kernel = "fmha_lse"
<1> DEFINE l == ForwardLaunch(c)
           cfg == FwdConfigs[1]
<1>1. /\ l.kernel = "fmha_lse" /\ l.tm = cfg[1] /\ l.tn = cfg[2] /\ l.seq = PaddedQ(c, cfg[1])
      /\ l.batch = c.batch /\ l.heads = c.heads /\ l.group = c.heads \div c.kvHeads
      /\ l.qlen = c.qlen /\ l.klen = c.klen /\ l.causal = c.causal
  BY DEF ForwardLaunch, Shape, ++
<1>2. cfg[1] \in Positive /\ cfg[2] \in Positive
  BY ConfigFacts, DeviceAssumption
<1> HIDE DEF l, cfg
<1>3. PaddedQ(c, cfg[1]) \in Positive /\ c.qlen <= PaddedQ(c, cfg[1]) /\ PaddedQ(c, cfg[1]) % cfg[1] = 0
  BY <1>2, PaddedFacts
<1> QED
  BY <1>1, <1>2, <1>3 DEF Laid, ForwardSeq, l, cfg

\* The logarithm of the sum over all keys a row may see.
LEMMA EndedSum ==
  ASSUME NEW c, Training(c), NEW l, For(l, c), l.kernel = "fmha_lse", NEW b, NEW i, IsRow(l, c, b, i),
         NEW e, Progress(l, c, b, e), e.j = TileCount(l, b[1])
  PROVE  LogSum(e.st[i]) = Scores(c, QueryAt(l, b, i))
<1> DEFINE q == QueryAt(l, b, i)
           A == Sight(l, c, b, i)
           K == KeysOf(l, b)
           S == ScoresOf(l, b, i)
           row == e.st[i]
<1>0. c \in Calls /\ c.kind \in Attending /\ Origin(c) = 0 /\ RowOf(l, e.st, i) = row
  BY DEF Training, Attending, Origin, RowOf
<1>1. A \subseteq Nat /\ \A n \in A : S[n] \in Int /\ NegInf < S[n]
  BY <1>0, SightFacts
<1>2. Gathered(row, A, K, S)
  BY <1>0, EndedGathered
<1>3. A = Sees(c, 0, q[3])
  BY <1>0 DEF Sight, QueryAt
<1>4. \A n \in Nat : K[n] = <<q[1], Kv(c, q), n>>
  BY <1>0, RowFacts
<1>5. \A n \in Nat : S[n] = Product(q, K[n])
  <2>1. \A n \in Nat : K[n] \notin Padding
    BY <1>4, NoPadding
  <2>2. q \notin Padding
    BY NoPadding DEF QueryAt
  <2> QED
    BY <2>1, <2>2 DEF Product, ScoresOf
<1>6. row.m \in Int
  BY <1>1, <1>2 DEF Gathered, IsMax, NegInf
<1>7. LogSum(row) = [n \in A |-> (S[n] - row.m) + row.m]
  BY <1>2 DEF Gathered, LogSum
<1>8. \A n \in A : (S[n] - row.m) + row.m = Product(q, <<q[1], Kv(c, q), n>>)
  <2> SUFFICES ASSUME NEW n \in A PROVE (S[n] - row.m) + row.m = Product(q, <<q[1], Kv(c, q), n>>)
    OBVIOUS
  <2>1. n \in Nat /\ S[n] \in Int
    BY <1>1
  <2>2. S[n] = Product(q, <<q[1], Kv(c, q), n>>)
    BY <1>4, <1>5, <2>1
  <2> HIDE DEF S, q, row
  <2> QED
    BY <2>1, <2>2, <1>6
<1>9. Scores(c, q) = [n \in A |-> Product(q, <<q[1], Kv(c, q), n>>)]
  BY <1>3 DEF Scores
<1> HIDE DEF q, A, K, S, row
<1>10. LogSum(row) = Scores(c, q)
  BY <1>7, <1>8, <1>9
<1> QED
  BY <1>10 DEF row, q

\* A block stores the LSE of its own rows, and of no other row.
LEMMA LseStores ==
  ASSUME NEW c, Training(c), NEW l, l = ForwardLaunch(c), NEW b \in Grid(l), NEW e,
         Progress(l, c, b, e), e.j = TileCount(l, b[1]), NEW q \in RowsOf(c)
  PROVE  /\ LseAt(c, l.seq, q) \in DOMAIN LastStores(l, b, e.st) <=> q \in BlockRows(l, c, b)
         /\ q \in BlockRows(l, c, b) => LastStores(l, b, e.st)[LseAt(c, l.seq, q)] = Scores(c, q)
<1> DEFINE st == e.st
           a == LseAt(c, l.seq, q)
           out == StoreRows(l, b, "O", LAMBDA i : Normalised(st[i]))
           lse == [x \in {<<"LSE", Flat(l, b, i)>> : i \in 0 .. l.tm - 1} |->
                     LET i == x[2] - Flat(l, b, 0) IN
                     IF Query(l, b, i, UndefRow) = UndefRow THEN Undefined ELSE LogSum(st[i])]
<1>1. Laid(l, c) /\ l.seq % l.tm = 0 /\ l.kernel = "fmha_lse" /\ For(l, c) /\ c \in Calls /\ c.kind \in Attending
  BY ForwardLaid, ForwardLaunchFor DEF Training, Attending
<1>2. LastStores(l, b, st) = out ++ lse
  BY <1>1 DEF LastStores, FmhaLseStore
<1>3. a = <<"LSE", Place(c, l.seq, q)>> /\ a[2] = Place(c, l.seq, q)
  BY DEF LseAt
<1>4. a \notin DOMAIN out
  BY <1>3 DEF StoreRows
<1>5. a \in DOMAIN lse <=> \E i \in 0 .. l.tm - 1 : Flat(l, b, i) = Place(c, l.seq, q)
  BY <1>3
<1>6. a \in DOMAIN lse <=> q \in BlockRows(l, c, b)
  BY <1>1, <1>5, StatAt
<1>7. ASSUME q \in BlockRows(l, c, b) PROVE lse[a] = Scores(c, q)
  <2>1. PICK i : IsRow(l, c, b, i) /\ QueryAt(l, b, i) = q
    BY <1>7 DEF BlockRows
  <2>2. i \in 0 .. l.tm - 1
    BY <2>1 DEF IsRow
  <2>3. a[2] - Flat(l, b, 0) = i
    BY <1>1, <1>3, <2>1, <2>2, FlatIs
  <2>4. Query(l, b, i, UndefRow) = q /\ q \notin Padding
    BY <1>1, <2>1, RowFacts, NoPadding DEF QueryAt
  <2>5. Query(l, b, i, UndefRow) # UndefRow
    BY <2>4 DEF Padding
  <2>6. lse[a] = LogSum(st[i])
    BY <1>6, <1>7, <2>3, <2>5
  <2> QED
    BY <1>1, <2>1, <2>6, EndedSum
<1> HIDE DEF out, lse, a
<1>8. (a \in DOMAIN LastStores(l, b, st) <=> a \in DOMAIN lse) /\ (a \in DOMAIN lse => LastStores(l, b, st)[a] = lse[a])
  BY <1>2, <1>4 DEF ++
<1> QED
  BY <1>6, <1>7, <1>8 DEF a

-----------------------------------------------------------------------------
(* The backward launches *)

BackSeq(c) == PaddedQ(c, MaxTileM)
BackFor(l, c) == Laid(l, c) /\ l.seq = BackSeq(c)

LEMMA TileMs ==
  /\ BwdConfigs # {} /\ \A cfg \in BwdConfigs : cfg[1] \in Positive /\ cfg[2] \in Positive
  /\ MaxTileM \in Positive /\ PreprocessTileM \in Positive
<1>1. TilePairs(DkDvConfigs) /\ TilePairs(DqConfigs)
  BY DeviceAssumption
<1>2. BwdConfigs # {} /\ \A cfg \in BwdConfigs : cfg[1] \in Positive /\ cfg[2] \in Positive
  BY <1>1, ConfigFacts DEF BwdConfigs
<1> DEFINE S == {c[1] : c \in BwdConfigs}
<1>3. S \subseteq Positive /\ S \subseteq Nat /\ S # {}
  BY <1>2 DEF Positive
<1> HIDE DEF S
<1>4. PICK low \in S : \A y \in S : low <= y
  BY <1>3, FirstOf
<1>5. Min(S) \in S
  BY <1>4 DEF Min
<1> DEFINE one == [i \in 1 .. Len(DkDvConfigs) |-> DkDvConfigs[i][1]]
           two == [i \in 1 .. Len(DqConfigs) |-> DqConfigs[i][1]]
           m == DkDvConfigs[1][1]
           A == Values(m, one, 1, Len(DkDvConfigs))
<1>6. /\ Len(DkDvConfigs) \in Nat /\ DOMAIN DkDvConfigs = 1 .. Len(DkDvConfigs) /\ 1 \in DOMAIN DkDvConfigs
      /\ Len(DqConfigs) \in Nat /\ DOMAIN DqConfigs = 1 .. Len(DqConfigs) /\ 1 \in DOMAIN DqConfigs
  BY <1>1 DEF TilePairs
<1>7. /\ m \in Int /\ \A i \in 1 .. Len(DkDvConfigs) : one[i] \in Int
      /\ \A i \in 1 .. Len(DqConfigs) : two[i] \in Int
  BY <1>1, <1>6 DEF TilePairs, Positive
<1>8. A = {c[1] : c \in ConfigsOf(DkDvConfigs)}
  <2>1. \A i \in DOMAIN DkDvConfigs : DkDvConfigs[i] \in ConfigsOf(DkDvConfigs)
    BY DEF ConfigsOf
  <2>2. \A c \in ConfigsOf(DkDvConfigs) : \E i \in DOMAIN DkDvConfigs : c = DkDvConfigs[i]
    BY DEF ConfigsOf
  <2> QED
    BY <1>6, <2>1, <2>2 DEF Values
<1>9. {two[i] : i \in 1 .. Len(DqConfigs)} = {c[1] : c \in ConfigsOf(DqConfigs)}
  <2>1. \A i \in DOMAIN DqConfigs : DqConfigs[i] \in ConfigsOf(DqConfigs)
    BY DEF ConfigsOf
  <2>2. \A c \in ConfigsOf(DqConfigs) : \E i \in DOMAIN DqConfigs : c = DqConfigs[i]
    BY DEF ConfigsOf
  <2> QED
    BY <1>6, <2>1, <2>2
<1> HIDE DEF one, two, m
<1>10. PICK top : IsMax(top, A)
  <2> DEFINE hi == Len(DkDvConfigs)
  <2>1. hi \in Int /\ 1 \in Int /\ m \in Int /\ \A i \in 1 .. hi : one[i] \in Int
    BY <1>6, <1>7
  <2> HIDE DEF hi
  <2>2. \E x : IsMax(x, Values(m, one, 1, hi))
    BY <2>1, MaxExists
  <2> QED
    BY <2>2 DEF hi
<1>11. top \in Int
  BY <1>7, <1>10 DEF IsMax, Values
<1> DEFINE B == Values(top, two, 1, Len(DqConfigs))
<1>12. PICK best : IsMax(best, B)
  <2> DEFINE hi == Len(DqConfigs)
  <2>1. hi \in Int /\ 1 \in Int /\ \A i \in 1 .. hi : two[i] \in Int
    BY <1>6, <1>7
  <2> HIDE DEF hi
  <2>2. \E x : IsMax(x, Values(top, two, 1, hi))
    BY <1>11, <2>1, MaxExists
  <2> QED
    BY <2>2 DEF hi
<1>13. IsMax(best, S)
  <2>1. S = A \cup {two[i] : i \in 1 .. Len(DqConfigs)}
    BY <1>8, <1>9 DEF S, BwdConfigs
  <2>2. B = {top} \cup {two[i] : i \in 1 .. Len(DqConfigs)} /\ top \in A
    BY <1>10 DEF Values, IsMax
  <2>3. best \in S
    BY <1>12, <2>1, <2>2 DEF IsMax
  <2>4. best >= top
    BY <1>12, <2>2 DEF IsMax
  <2>5. \A y \in A : best >= y
    <3> SUFFICES ASSUME NEW y \in A PROVE best >= y
      OBVIOUS
    <3>1. top >= y /\ y \in Int /\ best \in Int
      BY <1>3, <1>10, <2>1, <2>3 DEF IsMax
    <3> HIDE DEF A, B
    <3> QED
      BY <1>11, <2>4, <3>1
  <2>6. \A i \in 1 .. Len(DqConfigs) : best >= two[i]
    BY <1>12, <2>2 DEF IsMax
  <2> HIDE DEF A, B
  <2> QED
    BY <2>1, <2>3, <2>5, <2>6 DEF IsMax
<1>14. Max(S) = best /\ best \in S
  <2>1. S \subseteq Int
    BY <1>3
  <2>2. best \in S
    BY <1>13 DEF IsMax
  <2> QED
    BY <1>13, <2>1, <2>2, MaxIs
<1> QED
  BY <1>2, <1>3, <1>5, <1>14 DEF MaxTileM, PreprocessTileM, S

LEMMA BackSeqFacts ==
  ASSUME NEW c, Training(c)
  PROVE  BackSeq(c) \in Positive /\ c.qlen <= BackSeq(c) /\ BackSeq(c) % PreprocessTileM = 0
<1>1. BackSeq(c) \in Positive /\ c.qlen <= BackSeq(c) /\ BackSeq(c) % MaxTileM = 0
  BY TileMs, PaddedFacts DEF BackSeq
<1>2. BackSeq(c) \in Nat /\ MaxTileM % PreprocessTileM = 0
  BY <1>1, DeviceAssumption DEF Positive
<1> QED
  BY <1>1, <1>2, TileMs, DividesThrough

BackLaunches(c) ==
  {PreprocessLaunch(c)} \cup {DkDvLaunch(c, cfg) : cfg \in ConfigsOf(DkDvConfigs)}
    \cup {DqLaunch(c, cfg) : cfg \in ConfigsOf(DqConfigs)}

LEMMA BackLaid ==
  ASSUME NEW c, Training(c)
  PROVE  /\ BackFor(PreprocessLaunch(c), c) /\ PreprocessLaunch(c).kernel = "preprocess"
         /\ PreprocessLaunch(c).seq % PreprocessLaunch(c).tm = 0
         /\ \A cfg \in ConfigsOf(DkDvConfigs) : BackFor(DkDvLaunch(c, cfg), c) /\ DkDvLaunch(c, cfg).kernel = "dkdv"
         /\ \A cfg \in ConfigsOf(DqConfigs) : BackFor(DqLaunch(c, cfg), c) /\ DqLaunch(c, cfg).kernel = "dq"
<1>1. \A cfg, k : LET l == BackwardShape(c, cfg) ++ [kernel |-> k] IN
        /\ l.kernel = k /\ l.tm = cfg[1] /\ l.tn = cfg[2] /\ l.seq = BackSeq(c)
        /\ l.batch = c.batch /\ l.heads = c.heads /\ l.group = c.heads \div c.kvHeads
        /\ l.qlen = c.qlen /\ l.klen = c.klen /\ l.causal = c.causal
  BY DEF BackwardShape, Shape, ++, BackSeq
<1>2. ASSUME NEW cfg, cfg[1] \in Positive, cfg[2] \in Positive, NEW k
      PROVE  BackFor(BackwardShape(c, cfg) ++ [kernel |-> k], c)
  <2> DEFINE l == BackwardShape(c, cfg) ++ [kernel |-> k]
  <2>1. /\ l.kernel = k /\ l.tm = cfg[1] /\ l.tn = cfg[2] /\ l.seq = BackSeq(c)
        /\ l.batch = c.batch /\ l.heads = c.heads /\ l.group = c.heads \div c.kvHeads
        /\ l.qlen = c.qlen /\ l.klen = c.klen /\ l.causal = c.causal
    BY <1>1
  <2> HIDE DEF l
  <2>2. BackFor(l, c)
    BY <1>2, <2>1, BackSeqFacts DEF BackFor, Laid
  <2> QED
    BY <2>2 DEF l
<1>3. \A cfg \in ConfigsOf(DkDvConfigs) \cup ConfigsOf(DqConfigs) : cfg[1] \in Positive /\ cfg[2] \in Positive
  BY TileMs DEF BwdConfigs
<1>4. \A cfg \in ConfigsOf(DkDvConfigs) : BackFor(DkDvLaunch(c, cfg), c) /\ DkDvLaunch(c, cfg).kernel = "dkdv"
  BY <1>1, <1>2, <1>3 DEF DkDvLaunch
<1>5. \A cfg \in ConfigsOf(DqConfigs) : BackFor(DqLaunch(c, cfg), c) /\ DqLaunch(c, cfg).kernel = "dq"
  BY <1>1, <1>2, <1>3 DEF DqLaunch
<1>6. LET l == PreprocessLaunch(c) IN BackFor(l, c) /\ l.kernel = "preprocess" /\ l.tm = PreprocessTileM /\ l.seq = BackSeq(c)
  <2> DEFINE cfg == <<PreprocessTileM, 1>>
  <2>1. cfg[1] = PreprocessTileM /\ cfg[1] \in Positive /\ cfg[2] \in Positive
    BY TileMs DEF Positive
  <2> QED
    BY <1>1, <1>2, <2>1 DEF PreprocessLaunch
<1> QED
  BY <1>4, <1>5, <1>6, BackSeqFacts

\* A row of the call is a row of a block, whatever the tiles.
LEMMA RowInGrid ==
  ASSUME NEW c, Training(c), NEW l, Laid(l, c), NEW q \in RowsOf(c)
  PROVE  \E b \in Grid(l) : q \in BlockRows(l, c, b)
<1> DEFINE r == q[3]
           b == <<r \div l.tm, q[1] * c.heads + q[2]>>
           i == r % l.tm
<1>1. c.batch \in Nat /\ c.heads \in Positive /\ c.qlen \in Nat /\ l.tm \in Positive /\ l.tm \in Nat
      /\ l.batch = c.batch /\ l.heads = c.heads /\ l.qlen = c.qlen
  BY TrainFacts DEF Laid, Positive
<1>2. q = <<q[1], q[2], q[3]>> /\ q[1] \in 0 .. c.batch - 1 /\ q[2] \in 0 .. c.heads - 1 /\ r \in 0 .. c.qlen - 1
  BY RowOfCall
<1>3. r \in Nat /\ r < c.qlen
  BY <1>1, <1>2
<1>4. i \in 0 .. l.tm - 1 /\ r \div l.tm \in Nat /\ (r \div l.tm) * l.tm + i = r
  BY <1>1, <1>3, QuotientOf
<1>5. r \div l.tm < CeilDiv(c.qlen, l.tm) /\ CeilDiv(c.qlen, l.tm) \in Nat
  <2> DEFINE j == r \div l.tm
  <2>1. j \in Nat /\ j * l.tm \in Nat /\ j * l.tm + i = r /\ i \in Nat
    BY <1>1, <1>4, ProductNat
  <2> HIDE DEF j, i, r
  <2>2. j * l.tm < c.qlen
    BY <1>1, <1>3, <2>1
  <2>3. j < CeilDiv(c.qlen, l.tm) /\ CeilDiv(c.qlen, l.tm) \in Nat
    BY <1>1, <2>1, <2>2, Tiles
  <2> QED
    BY <2>3 DEF j
<1>6. b[1] = r \div l.tm /\ b[2] = q[1] * c.heads + q[2]
  OBVIOUS
<1>7. b[2] \in 0 .. c.batch * c.heads - 1 /\ b[2] \div c.heads = q[1] /\ b[2] % c.heads = q[2]
  BY <1>1, <1>2, <1>6, RowOfRank
<1>8. b \in Grid(l)
  BY <1>1, <1>4, <1>5, <1>7 DEF Grid
<1> HIDE DEF b, i
<1>9. QueryAt(l, b, i) = q /\ IsRow(l, c, b, i)
  BY <1>1, <1>2, <1>3, <1>4, <1>6, <1>7, <1>8 DEF QueryAt, BatchOf, HeadOf, IsRow
<1> QED
  BY <1>8, <1>9 DEF BlockRows

\* The kernel that computes Delta has no loop; it stores the Delta of its rows.
LEMMA DeltaStores ==
  ASSUME NEW c, Training(c), NEW l, l = PreprocessLaunch(c), NEW b \in Grid(l), NEW st, NEW q \in RowsOf(c)
  PROVE  /\ DeltaAt(c, l.seq, q) \in DOMAIN LastStores(l, b, st) <=> q \in BlockRows(l, c, b)
         /\ q \in BlockRows(l, c, b) => LastStores(l, b, st)[DeltaAt(c, l.seq, q)] = q
<1> DEFINE a == DeltaAt(c, l.seq, q)
           stores == PreprocessStore(l, b)
<1>1. Laid(l, c) /\ l.seq % l.tm = 0 /\ l.kernel = "preprocess"
  BY BackLaid DEF BackFor
<1>2. LastStores(l, b, st) = stores
  BY <1>1 DEF LastStores
<1>3. a = <<"Delta", Place(c, l.seq, q)>> /\ a[2] = Place(c, l.seq, q)
  BY DEF DeltaAt
<1>4. a \in DOMAIN stores <=> \E i \in 0 .. l.tm - 1 : Flat(l, b, i) = Place(c, l.seq, q)
  BY <1>3 DEF PreprocessStore
<1>5. a \in DOMAIN stores <=> q \in BlockRows(l, c, b)
  BY <1>1, <1>4, StatAt
<1>6. ASSUME q \in BlockRows(l, c, b) PROVE stores[a] = q
  <2>1. PICK i : IsRow(l, c, b, i) /\ QueryAt(l, b, i) = q
    BY <1>6 DEF BlockRows
  <2>2. i \in 0 .. l.tm - 1 /\ b[1] * l.tm + i < c.qlen /\ l.qlen = c.qlen
    BY <1>1, <2>1 DEF IsRow, Laid
  <2>3. a[2] - Flat(l, b, 0) = i
    BY <1>1, <1>3, <2>1, <2>2, FlatIs
  <2>4. Query(l, b, i, ZeroRow) = q
    BY <2>1, <2>2 DEF Query, QueryAt
  <2>5. stores[a] = Query(l, b, a[2] - Flat(l, b, 0), ZeroRow)
    BY <1>5, <1>6 DEF PreprocessStore
  <2> QED
    BY <2>3, <2>4, <2>5
<1> QED
  BY <1>2, <1>5, <1>6

-----------------------------------------------------------------------------
(* The gradients of keys and values *)

LEMMA SumOfSets ==
  ASSUME NEW A, NEW B, A \cap B = {}
  PROVE  SetToBag(A) (+) SetToBag(B) = SetToBag(A \cup B)
BY DEF SetToBag, (+)

\* What a pair of a row and a key adds, once the row's statistics are there.
StatsHold(M, c) ==
  \A q \in RowsOf(c) :
    /\ LseAt(c, BackSeq(c), q) \in DOMAIN M /\ M[LseAt(c, BackSeq(c), q)] = Scores(c, q)
    /\ DeltaAt(c, BackSeq(c), q) \in DOMAIN M /\ M[DeltaAt(c, BackSeq(c), q)] = q

LEMMA PairIs ==
  ASSUME NEW c, NEW M, StatsHold(M, c), NEW q \in RowsOf(c), NEW n
  PROVE  Pair(q, <<q[1], Kv(c, q), n>>, M, Place(c, BackSeq(c), q)) = TruePair(c, q, n)
BY DEF StatsHold, Pair, TruePair, Gather, LseAt, DeltaAt

\* The rows that see a key.
Seers(c, x, g, n) == {q \in RowsOf(c) : q[1] = x /\ Kv(c, q) = g /\ n \in Sees(c, 0, q[3])}

\* The round of a block in which a row's turn comes.
Turn(l, x, q) == (q[2] % l.group) * DkDvTiles(l, x) + ((q[3] \div l.tm) - StartM(l, x))

KeyTile(l, b) == b[1] * l.tn .. (b[1] + 1) * l.tn - 1
BlockBatch(c, b) == b[2] \div c.kvHeads
BlockKv(c, b) == b[2] % c.kvHeads
BlockSeers(c, b, n) == Seers(c, BlockBatch(c, b), BlockKv(c, b), n)

\* A block in its loop: each of its keys has met the rows whose turn has come.
KeyProgress(l, c, b, e) ==
  /\ e.j \in 0 .. DkDvRounds(l, b)
  /\ DOMAIN e.st = KeyTile(l, b)
  /\ \A n \in KeyTile(l, b) : n < c.klen =>
       e.st[n] = SetToBag({TruePair(c, q, n) : q \in {q \in BlockSeers(c, b, n) : Turn(l, b[1], q) < e.j}})

LEMMA KeyBlock ==
  ASSUME NEW c, Training(c), NEW l, Laid(l, c), NEW b \in DkDvGrid(l)
  PROVE  /\ l.heads \div l.group = c.kvHeads
         /\ b[1] \in Nat /\ b[1] * l.tn \in Nat /\ b[1] * l.tn < c.klen
         /\ b[2] \in 0 .. c.batch * c.kvHeads - 1
         /\ BlockBatch(c, b) \in 0 .. c.batch - 1 /\ BlockKv(c, b) \in 0 .. c.kvHeads - 1
         /\ StartM(l, b[1]) \in Nat /\ DkDvTiles(l, b[1]) \in Nat
         /\ CeilDiv(c.qlen, l.tm) - StartM(l, b[1]) <= DkDvTiles(l, b[1])
         /\ DkDvTiles(l, b[1]) # 0 => DkDvTiles(l, b[1]) = CeilDiv(c.qlen, l.tm) - StartM(l, b[1])
<1>1. /\ c.batch \in Nat /\ c.kvHeads \in Positive /\ c.kvHeads \in Nat /\ c.klen \in Nat /\ c.qlen \in Nat
      /\ l.tn \in Positive /\ l.tn \in Nat /\ l.tm \in Positive /\ l.klen = c.klen /\ l.batch = c.batch /\ l.qlen = c.qlen
      /\ l.causal \in BOOLEAN
  BY TrainFacts DEF Laid, Positive
<1>2. l.heads \div l.group = c.kvHeads
  BY TrainFacts DEF Laid
<1>3. CeilDiv(c.klen, l.tn) \in Nat /\ \A j \in Nat : j < CeilDiv(c.klen, l.tn) <=> j * l.tn < c.klen
  BY <1>1, Tiles
<1>4. b[1] \in 0 .. CeilDiv(c.klen, l.tn) - 1 /\ b[2] \in 0 .. c.batch * c.kvHeads - 1
  BY <1>1, <1>2 DEF DkDvGrid
<1>5. b[1] \in Nat /\ b[1] < CeilDiv(c.klen, l.tn)
  BY <1>3, <1>4
<1>6. b[1] * l.tn \in Nat /\ b[1] * l.tn < c.klen
  BY <1>1, <1>3, <1>5, ProductNat
<1>7. BlockBatch(c, b) \in 0 .. c.batch - 1 /\ BlockKv(c, b) \in 0 .. c.kvHeads - 1
  BY <1>1, <1>4, RankOfRow DEF BlockBatch, BlockKv
<1>8. StartM(l, b[1]) \in Nat
  BY <1>1, <1>6, QuotientOf DEF StartM
<1> DEFINE d == CeilDiv(c.qlen, l.tm) - StartM(l, b[1])
<1>9. CeilDiv(c.qlen, l.tm) \in Nat
  BY <1>1, Tiles
<1>10. d \in Int /\ DkDvTiles(l, b[1]) = Max({0, d})
  BY <1>1, <1>8, <1>9 DEF DkDvTiles
<1> HIDE DEF d
<1>11. IsMax(IF d >= 0 THEN d ELSE 0, {0, d}) /\ {0, d} \subseteq Int
  BY <1>10 DEF IsMax
<1>12. Max({0, d}) = IF d >= 0 THEN d ELSE 0
  BY <1>11, MaxIs
<1>13. DkDvTiles(l, b[1]) \in Nat /\ d <= DkDvTiles(l, b[1]) /\ (DkDvTiles(l, b[1]) # 0 => DkDvTiles(l, b[1]) = d)
  BY <1>10, <1>12
<1> QED
  BY <1>2, <1>4, <1>5, <1>6, <1>7, <1>8, <1>13 DEF d

\* The turn of a row that sees a key of the block comes, and comes once.
LEMMA TurnIs ==
  ASSUME NEW c, Training(c), NEW l, Laid(l, c), NEW b \in DkDvGrid(l), NEW n \in KeyTile(l, b),
         NEW q \in BlockSeers(c, b, n)
  PROVE  /\ DkDvTiles(l, b[1]) \in Positive /\ l.group \in Positive
         /\ q[2] % l.group \in 0 .. l.group - 1
         /\ (q[3] \div l.tm) - StartM(l, b[1]) \in 0 .. DkDvTiles(l, b[1]) - 1
         /\ Turn(l, b[1], q) \in 0 .. DkDvRounds(l, b) - 1
         /\ Turn(l, b[1], q) \div DkDvTiles(l, b[1]) = q[2] % l.group
         /\ Turn(l, b[1], q) % DkDvTiles(l, b[1]) = (q[3] \div l.tm) - StartM(l, b[1])
<1> DEFINE t == DkDvTiles(l, b[1])
           s == StartM(l, b[1])
           r == q[3]
           j == r \div l.tm
           m == CeilDiv(c.qlen, l.tm)
           lo == b[1] * l.tn
<1>1. /\ c.qlen \in Nat /\ l.tm \in Positive /\ l.tm \in Nat /\ l.tn \in Nat /\ l.group \in Positive /\ l.causal = c.causal /\ c.causal \in BOOLEAN
      /\ c.heads \in Nat /\ l.tn > 0
  BY TrainFacts DEF Laid, Positive
<1>2. q \in RowsOf(c) /\ n \in Sees(c, 0, r)
  BY DEF BlockSeers, Seers
<1>3. r \in Nat /\ r < c.qlen /\ q[2] \in Nat
  BY <1>1, <1>2, RowOfCall
<1>4. s \in Nat /\ t \in Nat /\ m - s <= t /\ lo \in Nat /\ b[1] \in Nat
  BY KeyBlock
<1>5. j \in Nat /\ j * l.tm <= r /\ j * l.tm \in Nat
  <2> DEFINE i == r % l.tm
  <2>1. j \in Nat /\ i \in 0 .. l.tm - 1 /\ r = j * l.tm + i
    BY <1>1, <1>3, QuotientOf
  <2>2. j * l.tm \in Nat
    BY <1>1, <2>1, ProductNat
  <2> HIDE DEF j, r, i
  <2> QED
    BY <1>1, <2>1, <2>2, <1>3
<1>6. j < m /\ m \in Nat
  <2>1. j * l.tm < c.qlen
    BY <1>1, <1>3, <1>5
  <2> HIDE DEF j, m
  <2> QED
    BY <1>1, <1>5, <2>1, Tiles DEF m
<1>7. s <= j
  <2>1. CASE l.causal
    <3>1. s = lo \div l.tm
      BY <2>1 DEF StartM
    <3>2. n <= r /\ n \in Nat
      BY <1>1, <1>2, <1>3, <2>1 DEF Sees
    <3>3. lo <= n
      BY <1>4, <1>1, <3>2, ProductNat DEF KeyTile
    <3>4. lo <= r
      BY <1>3, <1>4, <3>2, <3>3
    <3>5. ASSUME j < s PROVE FALSE
      <4>1. j * l.tm + l.tm <= lo
        BY <1>1, <1>4, <1>5, <3>1, <3>5, BeforeTile
      <4>2. r < j * l.tm + l.tm
        <5>1. r % l.tm \in 0 .. l.tm - 1 /\ r = j * l.tm + (r % l.tm)
          BY <1>1, <1>3, QuotientOf
        <5> HIDE DEF j, r
        <5> QED
          BY <1>1, <1>5, <5>1
      <4> HIDE DEF lo, r, j
      <4> QED
        BY <1>1, <1>3, <1>4, <1>5, <3>4, <4>1, <4>2
    <3> HIDE DEF s, j
    <3> QED
      BY <1>4, <1>5, <3>5
  <2>2. CASE ~ l.causal
    <3>1. s = 0
      BY <2>2 DEF StartM
    <3> QED
      BY <1>5, <3>1
  <2> QED
    BY <1>1, <2>1, <2>2
<1> DEFINE u == q[2] % l.group
           o == j - s
<1>8. u \in 0 .. l.group - 1
  BY <1>1, <1>3, QuotientOf
<1>9. Turn(l, b[1], q) = u * t + o /\ DkDvRounds(l, b) = l.group * t
  BY DEF Turn, DkDvRounds
<1> HIDE DEF t, s, j, r, m, u, lo
<1>10. o \in 0 .. t - 1 /\ t \in Positive /\ l.group \in Nat
  BY <1>1, <1>4, <1>5, <1>6, <1>7 DEF Positive
<1>11. u * t + o \in 0 .. l.group * t - 1 /\ (u * t + o) \div t = u /\ (u * t + o) % t = o
  BY <1>8, <1>10, RowOfRank
<1> QED
  BY <1>1, <1>8, <1>9, <1>10, <1>11 DEF t, s, j, r, u

LEMMA KeyBegins ==
  ASSUME NEW c, Training(c), NEW l, Laid(l, c), NEW b \in DkDvGrid(l)
  PROVE  KeyProgress(l, c, b, [j |-> 0, st |-> DkDvBegin(l, b)])
<1>1. DkDvRounds(l, b) \in Nat
  <2>1. l.group \in Nat /\ DkDvTiles(l, b[1]) \in Nat
    BY TrainFacts, KeyBlock DEF Laid, Positive
  <2> QED
    BY <2>1, ProductNat DEF DkDvRounds
<1>2. ASSUME NEW n \in KeyTile(l, b)
      PROVE  DkDvBegin(l, b)[n] = SetToBag({TruePair(c, q, n) : q \in {q \in BlockSeers(c, b, n) : Turn(l, b[1], q) < 0}})
  <2>1. \A q \in BlockSeers(c, b, n) : Turn(l, b[1], q) \in Nat
    <3>1. SUFFICES ASSUME NEW q \in BlockSeers(c, b, n) PROVE Turn(l, b[1], q) \in Nat
      OBVIOUS
    <3>2. Turn(l, b[1], q) \in 0 .. DkDvRounds(l, b) - 1
      BY TurnIs
    <3> QED
      BY <3>2, <1>1
  <2>2. {q \in BlockSeers(c, b, n) : Turn(l, b[1], q) < 0} = {}
    BY <2>1
  <2>3. {TruePair(c, q, n) : q \in {q \in BlockSeers(c, b, n) : Turn(l, b[1], q) < 0}} = {}
    BY <2>2
  <2> QED
    BY <2>3 DEF DkDvBegin, KeyTile, EmptyBag
<1>3. DOMAIN DkDvBegin(l, b) = KeyTile(l, b)
  BY DEF DkDvBegin, KeyTile
<1> QED
  BY <1>1, <1>2, <1>3 DEF KeyProgress

\* The rows a round meets are those whose turn it is.
LEMMA RoundMeets ==
  ASSUME NEW c, Training(c), NEW l, BackFor(l, c), NEW b \in DkDvGrid(l), NEW n \in KeyTile(l, b), n < c.klen,
         NEW j \in Nat, j < DkDvRounds(l, b), NEW M, StatsHold(M, c), NEW st, n \in DOMAIN st
  PROVE  DkDvRound(l, b, st, j, M)[n] =
           st[n] (+) SetToBag({TruePair(c, q, n) : q \in {q \in BlockSeers(c, b, n) : Turn(l, b[1], q) = j}})
<1> DEFINE t == DkDvTiles(l, b[1])
           s == StartM(l, b[1])
           g == BlockKv(c, b)
           x == BlockBatch(c, b)
           u == j \div t
           o == j % t
           h == g * l.group + u
           there == <<s + o, x * c.heads + h>>
           rows == {i \in 0 .. l.tm - 1 : /\ Query(l, there, i, ZeroRow) # ZeroRow
                                          /\ l.causal => n <= there[1] * l.tm + i}
           pair(i) == Pair(Query(l, there, i, ZeroRow), <<BatchOf(l, there), g, n>>, M, Flat(l, there, i))
           due == {q \in BlockSeers(c, b, n) : Turn(l, b[1], q) = j}
<1>1. Laid(l, c) /\ l.seq = BackSeq(c) /\ l.heads = c.heads /\ l.qlen = c.qlen /\ l.batch = c.batch /\ l.causal = c.causal
      /\ c.causal \in BOOLEAN /\ l.group = c.heads \div c.kvHeads
  BY TrainFacts DEF BackFor, Laid
<1>2. /\ c.batch \in Nat /\ c.heads \in Positive /\ c.heads \in Nat /\ c.kvHeads \in Nat /\ c.qlen \in Nat /\ c.klen \in Nat
      /\ l.group \in Positive /\ l.group \in Nat /\ l.tm \in Positive /\ l.tm \in Nat
      /\ c.kvHeads * l.group = c.heads
  BY <1>1, TrainFacts DEF Laid, Positive
<1>3. /\ s \in Nat /\ t \in Nat /\ g \in 0 .. c.kvHeads - 1 /\ x \in 0 .. c.batch - 1 /\ b[1] \in Nat
      /\ l.heads \div l.group = c.kvHeads /\ (t # 0 => t = CeilDiv(c.qlen, l.tm) - s)
  BY <1>1, KeyBlock
<1>4. j < l.group * t
  BY DEF DkDvRounds
<1>5. t \in Positive
  <2>1. t # 0
    BY <1>2, <1>4
  <2> QED
    BY <1>3, <2>1 DEF Positive
<1>6. u \in 0 .. l.group - 1 /\ o \in 0 .. t - 1 /\ j = u * t + o
  <2>1. j \in 0 .. l.group * t - 1
    BY <1>2, <1>3, <1>4, ProductNat
  <2> HIDE DEF t
  <2> QED
    BY <2>1, <1>2, <1>5, RankOfRow
<1>7. h \in 0 .. c.heads - 1 /\ h \div l.group = g /\ h % l.group = u
  <2>0. g \in 0 .. c.kvHeads - 1 /\ u \in 0 .. l.group - 1
    BY <1>3, <1>6
  <2>a. c.kvHeads \in Nat /\ l.group \in Positive
    BY <1>2
  <2> HIDE DEF u, g
  <2>1. h \in 0 .. c.kvHeads * l.group - 1 /\ h \div l.group = g /\ h % l.group = u
    BY <2>0, <2>a, RowOfRank
  <2> QED
    BY <1>2, <2>1
<1>8. there[1] = s + o /\ there[2] = x * c.heads + h
  OBVIOUS
<1>9. there[2] \div c.heads = x /\ there[2] % c.heads = h /\ there[2] \in 0 .. c.batch * c.heads - 1
  <2>0. x \in 0 .. c.batch - 1 /\ h \in 0 .. c.heads - 1 /\ there[2] = x * c.heads + h
    BY <1>3, <1>7, <1>8
  <2>a. c.batch \in Nat /\ c.heads \in Positive
    BY <1>2
  <2> HIDE DEF x, h, there
  <2>1. /\ x * c.heads + h \in 0 .. c.batch * c.heads - 1
        /\ (x * c.heads + h) \div c.heads = x /\ (x * c.heads + h) % c.heads = h
    BY <2>0, <2>a, RowOfRank
  <2> QED
    BY <2>0, <2>1
<1>10. BatchOf(l, there) = x /\ HeadOf(l, there) = h
  BY <1>1, <1>9 DEF BatchOf, HeadOf
<1>11. there \in Grid(l) /\ there[1] \in Nat
  <2>1. t = CeilDiv(c.qlen, l.tm) - s
    BY <1>3, <1>5 DEF Positive
  <2>2. s + o \in Nat /\ s + o < CeilDiv(c.qlen, l.tm) /\ CeilDiv(c.qlen, l.tm) \in Nat
    <3>1. CeilDiv(c.qlen, l.tm) \in Nat
      BY <1>2, Tiles
    <3> HIDE DEF t, s, o
    <3> QED
      BY <1>3, <1>6, <2>1, <3>1
  <2>3. there[1] \in 0 .. CeilDiv(l.qlen, l.tm) - 1 /\ there[2] \in 0 .. l.batch * l.heads - 1
    BY <1>1, <1>8, <1>9, <2>2
  <2> QED
    BY <2>2, <2>3, <1>8 DEF Grid
<1>12. DkDvRound(l, b, st, j, M)[n] = st[n] (+) SetToBag({pair(i) : i \in rows})
  <2>1. h = (b[2] % (l.heads \div l.group)) * l.group + j \div DkDvTiles(l, b[1])
    BY <1>3 DEF BlockKv
  <2>2. there = <<StartM(l, b[1]) + (j % DkDvTiles(l, b[1])), (b[2] \div (l.heads \div l.group)) * l.heads + h>>
    BY <1>1, <1>3 DEF BlockBatch
  <2>3. g = b[2] % (l.heads \div l.group)
    BY <1>3 DEF BlockKv
  <2> HIDE DEF h, there, g
  <2> QED
    BY <2>1, <2>2, <2>3 DEF DkDvRound
<1> HIDE DEF there
<1>13. ASSUME NEW i \in rows
       PROVE  QueryAt(l, there, i) \in due /\ pair(i) = TruePair(c, QueryAt(l, there, i), n)
  <2> DEFINE q == QueryAt(l, there, i)
             r == there[1] * l.tm + i
  <2>1. i \in 0 .. l.tm - 1 /\ r < c.qlen /\ (l.causal => n <= r)
    BY <1>1, <1>13 DEF Query
  <2>2. r \in Nat
    BY <1>2, <1>11, <2>1, ProductNat
  <2>3. q = <<x, h, r>> /\ Query(l, there, i, ZeroRow) = q
    BY <1>1, <1>10, <2>1 DEF QueryAt, Query
  <2>4. q \in RowsOf(c)
    BY <1>2, <1>3, <1>7, <2>1, <2>2, <2>3 DEF RowsOf
  <2>5. Kv(c, q) = g
    BY <1>1, <1>7, <2>3 DEF Kv
  <2>6. n \in Nat
    BY <1>1, <1>3, KeyBlock, ProductNat DEF KeyTile, Laid, Positive
  <2>7. n \in Sees(c, 0, q[3])
    <3>1. n \in 0 .. c.klen - 1
      BY <1>2, <2>6
    <3>2. c.causal => n <= 0 + q[3]
      BY <1>1, <2>1, <2>2, <2>3
    <3> QED
      BY <3>1, <3>2 DEF Sees
  <2>8. q \in BlockSeers(c, b, n)
    BY <2>3, <2>4, <2>5, <2>7 DEF BlockSeers, Seers
  <2>9. r \div l.tm = there[1]
    BY <1>2, <1>11, <2>1, <2>2, QuotientIs
  <2>10. Turn(l, b[1], q) = j
    <3>1. Turn(l, b[1], q) = (h % l.group) * t + ((r \div l.tm) - s)
      BY <2>3 DEF Turn
    <3>2. (r \div l.tm) - s = o
      <4> HIDE DEF r, s, o
      <4> QED
        BY <1>3, <1>6, <1>8, <2>9
    <3> HIDE DEF h, r, s, o, u, t
    <3> QED
      BY <1>6, <1>7, <3>1, <3>2
  <2>11. Flat(l, there, i) = Place(c, BackSeq(c), q)
    BY <1>1, <1>11, <2>1, FlatIs
  <2>12. pair(i) = Pair(q, <<q[1], Kv(c, q), n>>, M, Place(c, BackSeq(c), q))
    BY <1>10, <2>3, <2>5, <2>11
  <2>13. pair(i) = TruePair(c, q, n)
    BY <2>4, <2>12, PairIs
  <2> QED
    BY <2>8, <2>10, <2>13
<1>14. ASSUME NEW q \in due
       PROVE  \E i \in rows : QueryAt(l, there, i) = q
  <2> DEFINE i == q[3] % l.tm
             r == q[3]
  <2>1. q \in BlockSeers(c, b, n) /\ Turn(l, b[1], q) = j
    OBVIOUS
  <2>2. q \in RowsOf(c) /\ q[1] = x /\ Kv(c, q) = g /\ n \in Sees(c, 0, r)
    BY <2>1 DEF BlockSeers, Seers
  <2>3. q = <<q[1], q[2], r>> /\ q[2] \in Nat /\ r \in Nat /\ r < c.qlen
    <3>1. q = <<q[1], q[2], q[3]>> /\ q[2] \in 0 .. c.heads - 1 /\ q[3] \in 0 .. c.qlen - 1
      BY <2>2, RowOfCall
    <3> QED
      BY <1>2, <3>1
  <2>4. u = q[2] % l.group /\ o = (r \div l.tm) - s
    BY <1>1, <2>1, TurnIs
  <2>5. q[2] \div l.group = g
    BY <1>1, <2>2 DEF Kv
  <2>6. q[2] = h
    <3>1. q[2] = (q[2] \div l.group) * l.group + (q[2] % l.group)
      BY <1>2, <2>3, QuotientOf
    <3> QED
      BY <2>4, <2>5, <3>1
  <2>7. r \div l.tm = there[1] /\ i \in 0 .. l.tm - 1 /\ there[1] * l.tm + i = r
    <3>1. r \div l.tm \in Nat /\ i \in 0 .. l.tm - 1 /\ r = (r \div l.tm) * l.tm + i
      BY <1>2, <2>3, QuotientOf
    <3>2. r \div l.tm = there[1]
      <4> HIDE DEF r, s, o
      <4> QED
        BY <1>3, <1>8, <2>4, <3>1
    <3> QED
      BY <3>1, <3>2
  <2>8. QueryAt(l, there, i) = q
    BY <1>10, <2>2, <2>3, <2>6, <2>7 DEF QueryAt
  <2>9. Query(l, there, i, ZeroRow) = q
    BY <1>1, <2>3, <2>7, <2>8 DEF Query, QueryAt
  <2>10. q # ZeroRow
    BY <2>3, NoPadding DEF Padding
  <2>11. l.causal => n <= there[1] * l.tm + i
    BY <1>1, <2>2, <2>3, <2>7 DEF Sees
  <2>12. i \in rows
    BY <2>7, <2>9, <2>10, <2>11
  <2> QED
    BY <2>8, <2>12
<1> HIDE DEF rows, due, pair
<1>15. {pair(i) : i \in rows} = {TruePair(c, q, n) : q \in due}
  <2>1. ASSUME NEW i \in rows PROVE pair(i) \in {TruePair(c, q, n) : q \in due}
    BY <1>13
  <2>2. ASSUME NEW q \in due PROVE TruePair(c, q, n) \in {pair(i) : i \in rows}
    BY <1>13, <1>14
  <2> QED
    BY <2>1, <2>2
<1> QED
  BY <1>12, <1>15 DEF due

-----------------------------------------------------------------------------
(* The rounds of the kernel of keys and values, and its store *)

LEMMA KeyRound ==
  ASSUME NEW c, Training(c), NEW l, BackFor(l, c), NEW b \in DkDvGrid(l), NEW e, KeyProgress(l, c, b, e),
         e.j < DkDvRounds(l, b), NEW M, StatsHold(M, c)
  PROVE  KeyProgress(l, c, b, [j |-> e.j + 1, st |-> DkDvRound(l, b, e.st, e.j, M)])
<1> DEFINE st == DkDvRound(l, b, e.st, e.j, M)
           j == e.j
<1>1. DkDvRounds(l, b) \in Nat /\ Laid(l, c)
  <2>1. l.group \in Nat /\ DkDvTiles(l, b[1]) \in Nat /\ Laid(l, c)
    BY TrainFacts, KeyBlock DEF BackFor, Laid, Positive
  <2> QED
    BY <2>1, ProductNat DEF DkDvRounds
<1>2. j \in Nat /\ j + 1 \in 0 .. DkDvRounds(l, b) /\ DOMAIN e.st = KeyTile(l, b)
  BY <1>1 DEF KeyProgress
<1>3. DOMAIN st = KeyTile(l, b)
  BY <1>2 DEF DkDvRound
<1>4. ASSUME NEW n \in KeyTile(l, b), n < c.klen
      PROVE  st[n] = SetToBag({TruePair(c, q, n) : q \in {q \in BlockSeers(c, b, n) : Turn(l, b[1], q) < j + 1}})
  <2> DEFINE S == BlockSeers(c, b, n)
             pair(q) == TruePair(c, q, n)
             A == {q \in S : Turn(l, b[1], q) < j}
             B == {q \in S : Turn(l, b[1], q) = j}
             X == {pair(q) : q \in A}
             Y == {pair(q) : q \in B}
  <2>1. st[n] = e.st[n] (+) SetToBag(Y)
    BY <1>2, <1>4, RoundMeets
  <2>2. e.st[n] = SetToBag(X)
    BY <1>4 DEF KeyProgress
  <2>3. \A q \in S : Turn(l, b[1], q) \in Int
    <3>1. SUFFICES ASSUME NEW q \in S PROVE Turn(l, b[1], q) \in Int
      OBVIOUS
    <3>2. Turn(l, b[1], q) \in 0 .. DkDvRounds(l, b) - 1
      BY <1>1, TurnIs
    <3> QED
      BY <3>2, <1>1
  <2>4. {q \in S : Turn(l, b[1], q) < j + 1} = A \cup B /\ A \cap B = {}
    <3>1. \A q \in S : Turn(l, b[1], q) < j + 1 <=> Turn(l, b[1], q) < j \/ Turn(l, b[1], q) = j
      BY <1>2, <2>3
    <3>2. \A q \in S : ~ (Turn(l, b[1], q) < j /\ Turn(l, b[1], q) = j)
      BY <1>2, <2>3
    <3> QED
      BY <3>1, <3>2
  <2>5. \A q, r : pair(q) = pair(r) => q = r
    <3>1. \A q : pair(q).q = q
      BY DEF TruePair
    <3> HIDE DEF pair
    <3> QED
      BY <3>1
  <2> HIDE DEF S, pair, A, B
  <2>6. X \cap Y = {}
    BY <2>4, <2>5
  <2>7. {pair(q) : q \in A \cup B} = X \cup Y
    OBVIOUS
  <2> HIDE DEF X, Y
  <2>8. st[n] = SetToBag(X \cup Y)
    BY <2>1, <2>2, <2>6, SumOfSets
  <2>9. st[n] = SetToBag({pair(q) : q \in {q \in S : Turn(l, b[1], q) < j + 1}})
    BY <2>4, <2>7, <2>8
  <2> QED
    BY <2>9 DEF S, pair
<1> HIDE DEF st
<1> QED
  BY <1>2, <1>3, <1>4 DEF KeyProgress, st

\* The keys of a call.
CallKeys(c) == {<<x, g, n>> : x \in 0 .. c.batch - 1, g \in 0 .. c.kvHeads - 1, n \in 0 .. c.klen - 1}
KeyGradAt(k) == <<"dKV", k[1], k[2], k[3]>>
KeyGrad(c, k) == SetToBag({TruePair(c, q, k[3]) : q \in Seers(c, k[1], k[2], k[3])})

BlockKeys(l, c, b) == {k \in CallKeys(c) : k[1] = BlockBatch(c, b) /\ k[2] = BlockKv(c, b) /\ k[3] \in KeyTile(l, b)}

LEMMA KeyStores ==
  ASSUME NEW c, Training(c), NEW l, Laid(l, c), l.kernel = "dkdv", NEW b \in DkDvGrid(l),
         NEW e, KeyProgress(l, c, b, e), e.j = DkDvRounds(l, b), NEW k \in CallKeys(c)
  PROVE  /\ KeyGradAt(k) \in DOMAIN LastStores(l, b, e.st) <=> k \in BlockKeys(l, c, b)
         /\ k \in BlockKeys(l, c, b) => LastStores(l, b, e.st)[KeyGradAt(k)] = KeyGrad(c, k)
<1> DEFINE st == e.st
           stores == DkDvStore(l, b, st)
           a == KeyGradAt(k)
           x == BlockBatch(c, b)
           g == BlockKv(c, b)
<1>1. LastStores(l, b, st) = stores
  BY DEF LastStores
<1>2. PICK y \in 0 .. c.batch - 1, h \in 0 .. c.kvHeads - 1, n \in 0 .. c.klen - 1 : k = <<y, h, n>>
  BY DEF CallKeys
<1>3. k[1] = y /\ k[2] = h /\ k[3] = n /\ a = <<"dKV", y, h, n>> /\ a[4] = n
  BY <1>2 DEF KeyGradAt
<1>4. l.heads \div l.group = c.kvHeads /\ l.klen = c.klen /\ c.klen \in Nat
  BY KeyBlock, TrainFacts DEF Laid, Positive
<1>5. DOMAIN st = KeyTile(l, b) /\ n < c.klen
  BY <1>4 DEF KeyProgress
<1>6. stores = [z \in {<<"dKV", x, g, m>> : m \in {m \in DOMAIN st : m < c.klen}} |-> st[z[4]]]
  BY <1>4 DEF DkDvStore, BlockBatch, BlockKv
<1>7. a \in DOMAIN stores <=> (y = x /\ h = g /\ n \in KeyTile(l, b))
  BY <1>3, <1>5, <1>6
<1>8. k \in BlockKeys(l, c, b) <=> (y = x /\ h = g /\ n \in KeyTile(l, b))
  BY <1>3 DEF BlockKeys
<1>9. ASSUME k \in BlockKeys(l, c, b) PROVE stores[a] = KeyGrad(c, k)
  <2>1. stores[a] = st[n]
    BY <1>3, <1>6, <1>7, <1>8, <1>9
  <2>2. n \in KeyTile(l, b)
    BY <1>8, <1>9
  <2>3. \A q \in BlockSeers(c, b, n) : Turn(l, b[1], q) < e.j
    <3> SUFFICES ASSUME NEW q \in BlockSeers(c, b, n) PROVE Turn(l, b[1], q) < e.j
      OBVIOUS
    <3>1. Turn(l, b[1], q) \in 0 .. DkDvRounds(l, b) - 1
      BY <2>2, TurnIs
    <3>2. e.j \in Nat
      BY DEF KeyProgress
    <3> QED
      BY <3>1, <3>2
  <2>4. {q \in BlockSeers(c, b, n) : Turn(l, b[1], q) < e.j} = BlockSeers(c, b, n)
    BY <2>3
  <2>5. st[n] = SetToBag({TruePair(c, q, n) : q \in {q \in BlockSeers(c, b, n) : Turn(l, b[1], q) < e.j}})
    BY <1>5, <2>2 DEF KeyProgress
  <2>6. BlockSeers(c, b, n) = Seers(c, k[1], k[2], k[3])
    BY <1>3, <1>8, <1>9 DEF BlockSeers
  <2> QED
    BY <1>3, <2>1, <2>4, <2>5, <2>6 DEF KeyGrad
<1> QED
  BY <1>1, <1>7, <1>8, <1>9

LEMMA KeyInGrid ==
  ASSUME NEW c, Training(c), NEW l, Laid(l, c), NEW k \in CallKeys(c)
  PROVE  \E b \in DkDvGrid(l) : k \in BlockKeys(l, c, b)
<1>1. PICK y \in 0 .. c.batch - 1, h \in 0 .. c.kvHeads - 1, n \in 0 .. c.klen - 1 : k = <<y, h, n>>
  BY DEF CallKeys
<1>2. c.batch \in Nat /\ c.kvHeads \in Positive /\ c.klen \in Nat /\ l.tn \in Positive /\ l.tn \in Nat
      /\ l.batch = c.batch /\ l.klen = c.klen /\ l.heads \div l.group = c.kvHeads
  BY TrainFacts DEF Laid, Positive
<1> DEFINE j == n \div l.tn
           i == n % l.tn
           m == j * l.tn
           b == <<j, y * c.kvHeads + h>>
<1>3. n \in Nat /\ n < c.klen
  BY <1>2
<1>4. i \in 0 .. l.tn - 1 /\ j \in Nat /\ m + i = n
  BY <1>2, <1>3, QuotientOf
<1>5. m \in Nat /\ (j + 1) * l.tn = m + l.tn
  BY <1>2, <1>4, ProductNat
<1>6. b[1] = j /\ b[2] = y * c.kvHeads + h
  OBVIOUS
<1>7. b[2] \in 0 .. c.batch * c.kvHeads - 1 /\ b[2] \div c.kvHeads = y /\ b[2] % c.kvHeads = h
  <2> HIDE DEF b
  <2>1. /\ y * c.kvHeads + h \in 0 .. c.batch * c.kvHeads - 1
        /\ (y * c.kvHeads + h) \div c.kvHeads = y /\ (y * c.kvHeads + h) % c.kvHeads = h
    BY <1>2, RowOfRank
  <2> QED
    BY <1>6, <2>1
<1> HIDE DEF j, i
<1>8. n \in m .. (j + 1) * l.tn - 1 /\ m < c.klen
  <2> HIDE DEF m
  <2> QED
    BY <1>2, <1>3, <1>4, <1>5
<1>9. j < CeilDiv(c.klen, l.tn) /\ CeilDiv(c.klen, l.tn) \in Nat
  BY <1>2, <1>4, <1>8, Tiles
<1>10. b \in DkDvGrid(l)
  BY <1>2, <1>4, <1>7, <1>9 DEF DkDvGrid
<1>11. k \in BlockKeys(l, c, b)
  <2>1. k[1] = y /\ k[2] = h /\ k[3] = n
    BY <1>1
  <2>2. n \in KeyTile(l, b)
    BY <1>6, <1>8 DEF KeyTile
  <2>3. BlockBatch(c, b) = y /\ BlockKv(c, b) = h
    BY <1>7 DEF BlockBatch, BlockKv
  <2> HIDE DEF b
  <2> QED
    BY <2>1, <2>2, <2>3 DEF BlockKeys
<1> QED
  BY <1>10, <1>11

-----------------------------------------------------------------------------
(* The gradients of queries *)

RowGradAt(q) == <<"dQ">> \o q
RowGrad(c, q) == SetToBag({TruePair(c, q, n) : n \in Sees(c, 0, q[3])})

\* A block in its loop: each of its rows has met the keys it sees of the tiles so far.
RowProgress(l, c, b, e) ==
  /\ e.j \in 0 .. DqRounds(l, b)
  /\ DOMAIN e.st = 0 .. l.tm - 1
  /\ \A i : IsRow(l, c, b, i) =>
       e.st[i] = SetToBag({TruePair(c, QueryAt(l, b, i), n) : n \in Before(Sees(c, 0, QueryAt(l, b, i)[3]), e.j * l.tn)})

LEMMA RowAt ==
  ASSUME NEW c, Training(c), NEW l, Laid(l, c), NEW b \in Grid(l), NEW i, IsRow(l, c, b, i)
  PROVE  /\ i \in 0 .. l.tm - 1 /\ QueryAt(l, b, i) \in RowsOf(c)
         /\ QueryAt(l, b, i)[1] = BatchOf(l, b) /\ Kv(c, QueryAt(l, b, i)) = KvHead(l, b)
         /\ QueryAt(l, b, i)[3] = b[1] * l.tm + i /\ b[1] * l.tm + i \in Nat
         /\ Query(l, b, i, ZeroRow) = QueryAt(l, b, i)
<1>1. i \in 0 .. l.tm - 1 /\ b[1] * l.tm + i < c.qlen
  BY DEF IsRow
<1>2. b[1] * l.tm \in Nat /\ BatchOf(l, b) \in 0 .. c.batch - 1 /\ HeadOf(l, b) \in 0 .. c.heads - 1
  BY RowBlock
<1>3. c.qlen \in Nat /\ l.qlen = c.qlen /\ l.group = c.heads \div c.kvHeads
  BY TrainFacts DEF Laid, Positive
<1> DEFINE r == b[1] * l.tm + i
<1>4. r \in Nat /\ r < c.qlen
  BY <1>1, <1>2
<1>5. QueryAt(l, b, i) = <<BatchOf(l, b), HeadOf(l, b), r>>
  BY DEF QueryAt
<1>6. r \in 0 .. c.qlen - 1
  BY <1>3, <1>4
<1>7. QueryAt(l, b, i) \in RowsOf(c)
  BY <1>2, <1>5, <1>6 DEF RowsOf
<1>8. Kv(c, QueryAt(l, b, i)) = KvHead(l, b)
  BY <1>3, <1>5 DEF Kv, KvHead
<1>9. Query(l, b, i, ZeroRow) = QueryAt(l, b, i)
  BY <1>1, <1>3 DEF Query, QueryAt
<1> QED
  BY <1>1, <1>4, <1>5, <1>7, <1>8, <1>9

LEMMA RowRounds ==
  ASSUME NEW c, Training(c), NEW l, Laid(l, c), NEW b \in Grid(l)
  PROVE  /\ DqRounds(l, b) \in Nat
         /\ \A i : IsRow(l, c, b, i) => \A n \in Sees(c, 0, b[1] * l.tm + i) : n \in Nat /\ n < DqRounds(l, b) * l.tn
<1> DEFINE whole == CeilDiv(c.klen, l.tn)
           hi == (b[1] + 1) * l.tm
           part == CeilDiv(hi, l.tn)
<1>1. /\ c.klen \in Nat /\ l.klen = c.klen /\ l.tn \in Positive /\ l.tn \in Nat /\ l.tm \in Nat /\ l.causal = c.causal
      /\ c.causal \in BOOLEAN
  BY TrainFacts DEF Laid, Positive
<1>2. b[1] \in Nat /\ b[1] * l.tm \in Nat
  BY RowBlock
<1>3. hi \in Nat /\ hi = b[1] * l.tm + l.tm
  <2>1. hi = b[1] * l.tm + l.tm
    BY <1>1, <1>2, ProductNat
  <2> HIDE DEF hi
  <2> QED
    BY <1>1, <1>2, <2>1
<1> HIDE DEF hi
<1>4. whole \in Nat /\ c.klen <= whole * l.tn
  BY <1>1, Tiles
<1>5. part \in Nat /\ hi <= part * l.tn
  BY <1>1, <1>3, Tiles
<1>6. DqRounds(l, b) = IF c.causal THEN Min({part, whole}) ELSE whole
  BY <1>1 DEF DqRounds, hi
<1> HIDE DEF whole, part
<1>7. Min({part, whole}) = IF part <= whole THEN part ELSE whole
  BY <1>4, <1>5, MinIs
<1>8. DqRounds(l, b) \in Nat /\ (DqRounds(l, b) = whole \/ (c.causal /\ DqRounds(l, b) = part))
  BY <1>1, <1>4, <1>5, <1>6, <1>7
<1>9. ASSUME NEW i, IsRow(l, c, b, i), NEW n \in Sees(c, 0, b[1] * l.tm + i)
      PROVE  n \in Nat /\ n < DqRounds(l, b) * l.tn
  <2>1. i \in 0 .. l.tm - 1
    BY <1>9 DEF IsRow
  <2>2. n \in Nat /\ n < c.klen /\ (c.causal => n <= 0 + (b[1] * l.tm + i))
    BY <1>1 DEF Sees
  <2>3. c.causal => n < hi
    BY <1>1, <1>2, <1>3, <2>1, <2>2
  <2>4. whole * l.tn \in Nat /\ part * l.tn \in Nat
    BY <1>1, <1>4, <1>5, ProductNat
  <2> HIDE DEF Sees
  <2>5. CASE DqRounds(l, b) = whole
    BY <1>1, <1>4, <2>2, <2>4, <2>5
  <2>6. CASE c.causal /\ DqRounds(l, b) = part
    BY <1>3, <1>5, <2>2, <2>3, <2>4, <2>6
  <2> QED
    BY <1>8, <2>2, <2>5, <2>6
<1> QED
  BY <1>8, <1>9

LEMMA RowBegins ==
  ASSUME NEW c, Training(c), NEW l, Laid(l, c), NEW b \in Grid(l)
  PROVE  RowProgress(l, c, b, [j |-> 0, st |-> DqBegin(l)])
<1>1. DqRounds(l, b) \in Nat /\ DOMAIN DqBegin(l) = 0 .. l.tm - 1
  BY RowRounds DEF DqBegin
<1>2. ASSUME NEW i, IsRow(l, c, b, i)
      PROVE  DqBegin(l)[i] = SetToBag({TruePair(c, QueryAt(l, b, i), n) : n \in Before(Sees(c, 0, QueryAt(l, b, i)[3]), 0 * l.tn)})
  <2>1. i \in 0 .. l.tm - 1 /\ QueryAt(l, b, i)[3] = b[1] * l.tm + i
    BY <1>2, RowAt
  <2>2. 0 * l.tn = 0
    BY DEF Laid, Positive
  <2>3. Before(Sees(c, 0, QueryAt(l, b, i)[3]), 0 * l.tn) = {}
    BY <1>2, <2>1, <2>2, RowRounds DEF Before
  <2>4. {TruePair(c, QueryAt(l, b, i), n) : n \in Before(Sees(c, 0, QueryAt(l, b, i)[3]), 0 * l.tn)} = {}
    BY <2>3
  <2> QED
    BY <2>1, <2>4 DEF DqBegin, EmptyBag
<1> QED
  BY <1>1, <1>2 DEF RowProgress

LEMMA RowRound ==
  ASSUME NEW c, Training(c), NEW l, BackFor(l, c), NEW b \in Grid(l), NEW e, RowProgress(l, c, b, e),
         e.j < DqRounds(l, b), NEW M, StatsHold(M, c)
  PROVE  RowProgress(l, c, b, [j |-> e.j + 1, st |-> DqRound(l, b, e.st, e.j, M)])
<1> DEFINE st == DqRound(l, b, e.st, e.j, M)
           j == e.j
<1>1. /\ Laid(l, c) /\ l.seq = BackSeq(c) /\ l.klen = c.klen /\ c.klen \in Nat /\ l.causal = c.causal /\ c.causal \in BOOLEAN
      /\ l.tn \in Nat
  BY TrainFacts DEF BackFor, Laid, Positive
<1>2. DqRounds(l, b) \in Nat /\ j \in Nat /\ j + 1 \in 0 .. DqRounds(l, b) /\ DOMAIN e.st = 0 .. l.tm - 1
  <2>1. DqRounds(l, b) \in Nat
    BY <1>1, RowRounds
  <2> QED
    BY <2>1 DEF RowProgress
<1>3. DOMAIN st = 0 .. l.tm - 1
  BY <1>2 DEF DqRound
<1>4. ASSUME NEW i, IsRow(l, c, b, i)
      PROVE  st[i] = SetToBag({TruePair(c, QueryAt(l, b, i), n) : n \in Before(Sees(c, 0, QueryAt(l, b, i)[3]), (j + 1) * l.tn)})
  <2> DEFINE q == QueryAt(l, b, i)
             S == Sees(c, 0, q[3])
             pair(n) == TruePair(c, q, n)
             lo == j * l.tn
             hi == (j + 1) * l.tn
             A == Before(S, lo)
             T == {n \in lo .. hi - 1 : n < l.klen /\ (l.causal => b[1] * l.tm + i >= n)}
             load(n) == Pair(Query(l, b, i, ZeroRow), KeyRow(l, b, n, ZeroRow), M, Flat(l, b, i))
             X == {pair(n) : n \in A}
             Y == {pair(n) : n \in T}
  <2>1. /\ i \in 0 .. l.tm - 1 /\ q \in RowsOf(c) /\ q[1] = BatchOf(l, b) /\ Kv(c, q) = KvHead(l, b)
        /\ q[3] = b[1] * l.tm + i /\ q[3] \in Nat /\ Query(l, b, i, ZeroRow) = q
    BY <1>1, <1>4, RowAt
  <2>2. lo \in Nat /\ hi \in Nat /\ hi = lo + l.tn
    <3>1. lo \in Nat /\ hi = lo + l.tn
      BY <1>1, <1>2, ProductNat
    <3> HIDE DEF lo, hi
    <3> QED
      BY <1>1, <3>1
  <2>3. st[i] = e.st[i] (+) SetToBag({load(n) : n \in T})
    BY <1>2, <2>1 DEF DqRound
  <2>4. \A n \in T : load(n) = pair(n)
    <3> SUFFICES ASSUME NEW n \in T PROVE load(n) = pair(n)
      OBVIOUS
    <3>1. KeyRow(l, b, n, ZeroRow) = <<q[1], Kv(c, q), n>>
      BY <2>1 DEF KeyRow
    <3>2. Flat(l, b, i) = Place(c, BackSeq(c), q)
      BY <1>1, <2>1, FlatIs
    <3> QED
      BY <2>1, <3>1, <3>2, PairIs
  <2>5. {load(n) : n \in T} = Y
    BY <2>4
  <2>6. e.st[i] = SetToBag(X)
    BY <1>4 DEF RowProgress
  <2>7. T = {n \in S : n \in lo .. hi - 1}
    <3>1. \A n : n \in T => n \in S
      <4> SUFFICES ASSUME NEW n \in T PROVE n \in S
        OBVIOUS
      <4>1. n \in Nat /\ n < c.klen /\ (c.causal => n <= 0 + q[3])
        <5> HIDE DEF lo, hi, q
        <5> QED
          BY <1>1, <2>1, <2>2
      <4>2. n \in 0 .. c.klen - 1
        BY <1>1, <4>1
      <4> QED
        BY <4>1, <4>2 DEF Sees
    <3>2. \A n \in S : n \in lo .. hi - 1 => n \in T
      <4> SUFFICES ASSUME NEW n \in S, n \in lo .. hi - 1 PROVE n \in T
        OBVIOUS
      <4>1. n \in 0 .. c.klen - 1 /\ (c.causal => n <= 0 + q[3])
        BY DEF Sees
      <4>2. n < l.klen
        BY <1>1, <4>1
      <4>3. l.causal => b[1] * l.tm + i >= n
        <5> HIDE DEF q
        <5> QED
          BY <1>1, <2>1, <4>1
      <4> QED
        BY <4>2, <4>3
    <3> HIDE DEF S
    <3> QED
      BY <3>1, <3>2
  <2>8. S \subseteq Nat
    BY <1>1 DEF Sees
  <2>9. \A m, n : pair(m) = pair(n) => m = n
    <3>1. \A n : pair(n).k = <<q[1], Kv(c, q), n>>
      BY DEF TruePair
    <3> HIDE DEF pair
    <3> QED
      BY <3>1
  <2> HIDE DEF S, q, pair, lo, hi, T, load
  <2>10. Before(S, hi) = A \cup T /\ A \cap T = {}
    <3>1. \A n \in S : n < hi <=> n < lo \/ n \in lo .. hi - 1
      <4>1. \A n \in Nat : n < hi <=> n < lo \/ n \in lo .. hi - 1
        BY <1>1, <2>2
      <4> QED
        BY <2>8, <4>1
    <3>2. \A n \in S : ~ (n < lo /\ n \in lo .. hi - 1)
      BY <2>2, <2>8
    <3> QED
      BY <2>7, <3>1, <3>2 DEF Before
  <2> HIDE DEF A
  <2>11. X \cap Y = {}
    BY <2>9, <2>10
  <2>12. {pair(n) : n \in A \cup T} = X \cup Y
    OBVIOUS
  <2> HIDE DEF X, Y
  <2>13. st[i] = SetToBag(X \cup Y)
    BY <2>3, <2>5, <2>6, <2>11, SumOfSets
  <2>14. st[i] = SetToBag({pair(n) : n \in Before(S, hi)})
    BY <2>10, <2>12, <2>13
  <2> QED
    BY <2>14 DEF S, q, pair, hi
<1> HIDE DEF st
<1> QED
  BY <1>2, <1>3, <1>4 DEF RowProgress, st

LEMMA RowGradOut == ASSUME NEW x, NEW y, NEW z PROVE RowGradAt(<<x, y, z>>) = <<"dQ", x, y, z>>
  BY Prefixed DEF RowGradAt

LEMMA RowStoresAre ==
  ASSUME NEW c, Training(c), NEW l, Laid(l, c), l.kernel = "dq", NEW b \in Grid(l),
         NEW e, RowProgress(l, c, b, e), e.j = DqRounds(l, b), NEW q \in RowsOf(c)
  PROVE  /\ RowGradAt(q) \in DOMAIN LastStores(l, b, e.st) <=> q \in BlockRows(l, c, b)
         /\ q \in BlockRows(l, c, b) => LastStores(l, b, e.st)[RowGradAt(q)] = RowGrad(c, q)
<1> DEFINE st == e.st
           rows == {i \in 0 .. l.tm - 1 : b[1] * l.tm + i < c.qlen}
           place(i) == <<"dQ", BatchOf(l, b), HeadOf(l, b), b[1] * l.tm + i>>
           stores == [a \in {place(i) : i \in rows} |-> st[a[4] - b[1] * l.tm]]
<1>1. LastStores(l, b, st) = stores
  BY DEF LastStores, DqStore, StoreRows, Laid
<1>2. PICK x, y, z : q = <<x, y, z>>
  BY DEF RowsOf
<1>3. RowGradAt(q) = <<"dQ", x, y, z>>
  BY <1>2, RowGradOut
<1>4. RowGradAt(q) \in DOMAIN stores <=> \E i \in rows : q = QueryAt(l, b, i)
  BY <1>2, <1>3 DEF QueryAt
<1>5. RowGradAt(q) \in DOMAIN stores <=> q \in BlockRows(l, c, b)
  BY <1>4 DEF BlockRows, IsRow
<1>6. ASSUME q \in BlockRows(l, c, b) PROVE stores[RowGradAt(q)] = RowGrad(c, q)
  <2>1. PICK i : IsRow(l, c, b, i) /\ QueryAt(l, b, i) = q
    BY <1>6 DEF BlockRows
  <2>2. i \in 0 .. l.tm - 1 /\ q[3] = b[1] * l.tm + i
    BY <2>1, RowAt
  <2>3. b[1] * l.tm \in Nat
    BY RowBlock
  <2>4. RowGradAt(q)[4] = q[3]
    BY <1>2, <1>3
  <2>5. RowGradAt(q)[4] - b[1] * l.tm = i
    BY <2>2, <2>3, <2>4
  <2>6. stores[RowGradAt(q)] = st[i]
    BY <1>5, <1>6, <2>5
  <2>7. st[i] = SetToBag({TruePair(c, q, n) : n \in Before(Sees(c, 0, q[3]), e.j * l.tn)})
    BY <2>1 DEF RowProgress
  <2>8. Before(Sees(c, 0, q[3]), e.j * l.tn) = Sees(c, 0, q[3])
    BY <2>1, <2>2, RowRounds DEF Before
  <2> QED
    BY <2>6, <2>7, <2>8 DEF RowGrad
<1> QED
  BY <1>1, <1>5, <1>6

-----------------------------------------------------------------------------
(* What the launches of a training call owe *)

TrainKernels == {"fmha_lse", "preprocess", "dkdv", "dq"}
TrainLaunches(c) == {ForwardLaunch(c)} \cup BackLaunches(c)

\* What a kernel has to leave in the tensors, as addresses with their values, and
\* the part of it that is a block's.
Dues(kernel, c) ==
  CASE kernel = "fmha_lse" -> {<<LseAt(c, ForwardSeq(c), q), Scores(c, q)>> : q \in RowsOf(c)}
    [] kernel = "preprocess" -> {<<DeltaAt(c, BackSeq(c), q), q>> : q \in RowsOf(c)}
    [] kernel = "dkdv" -> {<<KeyGradAt(k), KeyGrad(c, k)>> : k \in CallKeys(c)}
    [] kernel = "dq" -> {<<RowGradAt(q), RowGrad(c, q)>> : q \in RowsOf(c)}
BlockDues(l, c, b) ==
  CASE l.kernel = "fmha_lse" -> {<<LseAt(c, ForwardSeq(c), q), Scores(c, q)>> : q \in BlockRows(l, c, b)}
    [] l.kernel = "preprocess" -> {<<DeltaAt(c, BackSeq(c), q), q>> : q \in BlockRows(l, c, b)}
    [] l.kernel = "dkdv" -> {<<KeyGradAt(k), KeyGrad(c, k)>> : k \in BlockKeys(l, c, b)}
    [] l.kernel = "dq" -> {<<RowGradAt(q), RowGrad(c, q)>> : q \in BlockRows(l, c, b)}

TrainProgress(l, c, b, e) ==
  CASE l.kernel = "fmha_lse" -> Progress(l, c, b, e)
    [] l.kernel = "preprocess" -> e.j = 0
    [] l.kernel = "dkdv" -> KeyProgress(l, c, b, e)
    [] l.kernel = "dq" -> RowProgress(l, c, b, e)

LEMMA TrainLaunch ==
  ASSUME NEW c, Training(c), NEW l \in TrainLaunches(c)
  PROVE  /\ Laid(l, c) /\ l.kernel \in TrainKernels
         /\ l.kernel = "fmha_lse" => l = ForwardLaunch(c) /\ For(l, c) /\ l.seq = ForwardSeq(c)
         /\ l.kernel = "preprocess" => l = PreprocessLaunch(c) /\ l.seq = BackSeq(c)
         /\ l.kernel \in {"dkdv", "dq"} => BackFor(l, c)
         /\ l \in BackLaunches(c) <=> l.kernel # "fmha_lse"
<1>1. c \in Calls /\ c.kind = "train"
  BY DEF Training
<1>2. CASE l = ForwardLaunch(c)
  <2>1. Laid(l, c) /\ l.kernel = "fmha_lse" /\ For(l, c) /\ l.seq = ForwardSeq(c)
    BY <1>1, <1>2, ForwardLaid, ForwardLaunchFor
  <2>2. l \notin BackLaunches(c)
    BY <2>1, BackLaid DEF BackLaunches
  <2> QED
    BY <1>2, <2>1, <2>2 DEF TrainKernels
<1>3. CASE l = PreprocessLaunch(c)
  BY <1>3, BackLaid DEF BackFor, TrainKernels, BackLaunches
<1>4. CASE l \in BackLaunches(c) \ {PreprocessLaunch(c)}
  <2>1. BackFor(l, c) /\ l.kernel \in {"dkdv", "dq"}
    BY <1>4, BackLaid DEF BackLaunches
  <2> QED
    BY <1>4, <2>1 DEF BackFor, TrainKernels
<1> QED
  BY <1>2, <1>3, <1>4 DEF TrainLaunches

LEMMA TrainGrid ==
  ASSUME NEW c, Training(c), NEW l \in TrainLaunches(c)
  PROVE  /\ GridOf(l) = IF l.kernel = "dkdv" THEN DkDvGrid(l) ELSE Grid(l)
         /\ \A b : Rounds(l, b) = CASE l.kernel = "fmha_lse" -> TileCount(l, b[1])
                                    [] l.kernel = "preprocess" -> 0
                                    [] l.kernel = "dkdv" -> DkDvRounds(l, b)
                                    [] l.kernel = "dq" -> DqRounds(l, b)
         /\ \A b, st, j : RoundStores(l, b, st, j) = <<>>
<1>1. l.kernel \in {"fmha_lse", "preprocess", "dkdv", "dq"}
  BY TrainLaunch DEF TrainKernels
<1>2. GridOf(l) = IF l.kernel = "dkdv" THEN DkDvGrid(l) ELSE Grid(l)
  BY <1>1 DEF GridOf, Flash
<1>3. \A b : Rounds(l, b) = CASE l.kernel = "fmha_lse" -> TileCount(l, b[1])
                                    [] l.kernel = "preprocess" -> 0
                                    [] l.kernel = "dkdv" -> DkDvRounds(l, b)
                                    [] l.kernel = "dq" -> DqRounds(l, b)
  <2>1. CASE l.kernel = "fmha_lse"
    BY <2>1 DEF Rounds, Flash
  <2>2. CASE l.kernel = "preprocess"
    BY <2>2 DEF Rounds, Flash
  <2>3. CASE l.kernel = "dkdv"
    BY <2>3 DEF Rounds, Flash
  <2>4. CASE l.kernel = "dq"
    BY <2>4 DEF Rounds, Flash
  <2> QED
    BY <1>1, <2>1, <2>2, <2>3, <2>4
<1>4. \A b, st, j : RoundStores(l, b, st, j) = <<>>
  BY <1>1 DEF RoundStores
<1> QED
  BY <1>2, <1>3, <1>4

LEMMA TrainBegins ==
  ASSUME NEW c, Training(c), NEW l \in TrainLaunches(c), NEW b \in GridOf(l)
  PROVE  TrainProgress(l, c, b, [j |-> 0, st |-> Begin(l, b)])
<1>1. l.kernel \in {"fmha_lse", "preprocess", "dkdv", "dq"} /\ Laid(l, c)
  BY TrainLaunch DEF TrainKernels
<1>2. CASE l.kernel = "fmha_lse"
  <2>1. For(l, c) /\ b \in Grid(l) /\ c \in Calls /\ c.kind \in Attending
    BY <1>2, TrainLaunch, TrainGrid DEF Training, Attending
  <2>2. Progress(l, c, b, [j |-> 0, st |-> Begin(l, b)])
    BY <2>1, BeginProgress
  <2> QED
    BY <1>2, <2>2 DEF TrainProgress
<1>3. CASE l.kernel = "preprocess"
  BY <1>3 DEF TrainProgress
<1>4. CASE l.kernel = "dkdv"
  <2>1. b \in DkDvGrid(l)
    BY <1>4, TrainGrid
  <2>a. Begin(l, b) = DkDvBegin(l, b)
    BY <1>4 DEF Begin, Flash
  <2>2. KeyProgress(l, c, b, [j |-> 0, st |-> Begin(l, b)])
    BY <1>1, <2>1, <2>a, KeyBegins
  <2> QED
    BY <1>4, <2>2 DEF TrainProgress
<1>5. CASE l.kernel = "dq"
  <2>1. b \in Grid(l) /\ Begin(l, b) = DqBegin(l)
    BY <1>5, TrainGrid DEF Begin
  <2>2. RowProgress(l, c, b, [j |-> 0, st |-> Begin(l, b)])
    BY <1>1, <2>1, RowBegins
  <2> QED
    BY <1>5, <2>2 DEF TrainProgress
<1> QED
  BY <1>1, <1>2, <1>3, <1>4, <1>5

LEMMA TrainRound ==
  ASSUME Training(call), NEW l \in TrainLaunches(call), NEW b \in GridOf(l), NEW e, TrainProgress(l, call, b, e),
         e.j < Rounds(l, b), l.kernel \in {"dkdv", "dq"} => StatsHold(mem, call)
  PROVE  TrainProgress(l, call, b, [j |-> e.j + 1, st |-> Round(l, b, e.st, e.j)])
<1>1. l.kernel \in {"fmha_lse", "preprocess", "dkdv", "dq"}
  BY TrainLaunch DEF TrainKernels
<1>2. CASE l.kernel = "fmha_lse"
  <2>1. For(l, call) /\ b \in Grid(l) /\ call \in Calls /\ call.kind \in Attending /\ e.j < TileCount(l, b[1])
    BY <1>2, TrainLaunch, TrainGrid DEF Training, Attending
  <2>2. Progress(l, call, b, e)
    BY <1>2 DEF TrainProgress
  <2>3. Progress(l, call, b, [j |-> e.j + 1, st |-> Round(l, b, e.st, e.j)])
    BY <2>1, <2>2, RoundProgress
  <2> QED
    BY <1>2, <2>3 DEF TrainProgress
<1>3. CASE l.kernel = "preprocess"
  <2>1. e.j = 0 /\ e.j < 0
    BY <1>3, TrainGrid DEF TrainProgress
  <2> QED
    BY <2>1
<1>4. CASE l.kernel = "dkdv"
  <2>1. b \in DkDvGrid(l) /\ BackFor(l, call) /\ e.j < DkDvRounds(l, b) /\ Round(l, b, e.st, e.j) = DkDvRound(l, b, e.st, e.j, mem)
    BY <1>4, TrainLaunch, TrainGrid DEF Round
  <2>2. KeyProgress(l, call, b, e) /\ StatsHold(mem, call)
    BY <1>4 DEF TrainProgress
  <2>3. KeyProgress(l, call, b, [j |-> e.j + 1, st |-> Round(l, b, e.st, e.j)])
    BY <2>1, <2>2, KeyRound
  <2> QED
    BY <1>4, <2>3 DEF TrainProgress
<1>5. CASE l.kernel = "dq"
  <2>1. b \in Grid(l) /\ BackFor(l, call) /\ e.j < DqRounds(l, b) /\ Round(l, b, e.st, e.j) = DqRound(l, b, e.st, e.j, mem)
    BY <1>5, TrainLaunch, TrainGrid DEF Round
  <2>2. RowProgress(l, call, b, e) /\ StatsHold(mem, call)
    BY <1>5 DEF TrainProgress
  <2>3. RowProgress(l, call, b, [j |-> e.j + 1, st |-> Round(l, b, e.st, e.j)])
    BY <2>1, <2>2, RowRound
  <2> QED
    BY <1>5, <2>3 DEF TrainProgress
<1> QED
  BY <1>1, <1>2, <1>3, <1>4, <1>5

\* A block that ends stores what it owes, and nothing where another block's dues are.
LEMMA TrainEnds ==
  ASSUME NEW c, Training(c), NEW l \in TrainLaunches(c), NEW b \in GridOf(l), NEW e, TrainProgress(l, c, b, e),
         e.j = Rounds(l, b), NEW p \in Dues(l.kernel, c)
  PROVE  /\ p[1] \in DOMAIN LastStores(l, b, e.st) <=> p \in BlockDues(l, c, b)
         /\ p \in BlockDues(l, c, b) => LastStores(l, b, e.st)[p[1]] = p[2]
<1> DEFINE out == LastStores(l, b, e.st)
<1>1. l.kernel \in {"fmha_lse", "preprocess", "dkdv", "dq"} /\ Laid(l, c)
  BY TrainLaunch DEF TrainKernels
<1>2. CASE l.kernel = "fmha_lse"
  <2>1. l = ForwardLaunch(c) /\ b \in Grid(l) /\ Progress(l, c, b, e) /\ e.j = TileCount(l, b[1]) /\ l.seq = ForwardSeq(c)
    BY <1>2, TrainLaunch, TrainGrid DEF TrainProgress
  <2> DEFINE due(q) == <<LseAt(c, ForwardSeq(c), q), Scores(c, q)>>
  <2>2. ASSUME NEW q \in RowsOf(c)
        PROVE  /\ due(q)[1] \in DOMAIN out <=> q \in BlockRows(l, c, b)
               /\ q \in BlockRows(l, c, b) => out[due(q)[1]] = due(q)[2]
    BY <2>1, LseStores
  <2>3. Dues(l.kernel, c) = {due(q) : q \in RowsOf(c)} /\ BlockDues(l, c, b) = {due(q) : q \in BlockRows(l, c, b)}
    BY <1>2 DEF Dues, BlockDues
  <2>4. BlockRows(l, c, b) \subseteq RowsOf(c)
    BY DEF BlockRows
  <2> HIDE DEF due, out
  <2> QED
    BY <2>2, <2>3, <2>4 DEF out
<1>3. CASE l.kernel = "preprocess"
  <2>1. l = PreprocessLaunch(c) /\ b \in Grid(l) /\ l.seq = BackSeq(c)
    BY <1>3, TrainLaunch, TrainGrid
  <2> DEFINE due(q) == <<DeltaAt(c, BackSeq(c), q), q>>
  <2>2. ASSUME NEW q \in RowsOf(c)
        PROVE  /\ due(q)[1] \in DOMAIN out <=> q \in BlockRows(l, c, b)
               /\ q \in BlockRows(l, c, b) => out[due(q)[1]] = due(q)[2]
    BY <2>1, DeltaStores
  <2>3. Dues(l.kernel, c) = {due(q) : q \in RowsOf(c)} /\ BlockDues(l, c, b) = {due(q) : q \in BlockRows(l, c, b)}
    BY <1>3 DEF Dues, BlockDues
  <2>4. BlockRows(l, c, b) \subseteq RowsOf(c)
    BY DEF BlockRows
  <2> HIDE DEF due, out
  <2> QED
    BY <2>2, <2>3, <2>4 DEF out
<1>4. CASE l.kernel = "dkdv"
  <2>1. b \in DkDvGrid(l) /\ KeyProgress(l, c, b, e) /\ e.j = DkDvRounds(l, b)
    BY <1>4, TrainGrid DEF TrainProgress
  <2> DEFINE due(k) == <<KeyGradAt(k), KeyGrad(c, k)>>
  <2>2. ASSUME NEW k \in CallKeys(c)
        PROVE  /\ due(k)[1] \in DOMAIN out <=> k \in BlockKeys(l, c, b)
               /\ k \in BlockKeys(l, c, b) => out[due(k)[1]] = due(k)[2]
    BY <1>1, <1>4, <2>1, KeyStores
  <2>3. Dues(l.kernel, c) = {due(k) : k \in CallKeys(c)} /\ BlockDues(l, c, b) = {due(k) : k \in BlockKeys(l, c, b)}
    BY <1>4 DEF Dues, BlockDues
  <2>4. BlockKeys(l, c, b) \subseteq CallKeys(c)
    BY DEF BlockKeys
  <2> HIDE DEF due, out
  <2> QED
    BY <2>2, <2>3, <2>4 DEF out
<1>5. CASE l.kernel = "dq"
  <2>1. b \in Grid(l) /\ RowProgress(l, c, b, e) /\ e.j = DqRounds(l, b)
    BY <1>5, TrainGrid DEF TrainProgress
  <2> DEFINE due(q) == <<RowGradAt(q), RowGrad(c, q)>>
  <2>2. ASSUME NEW q \in RowsOf(c)
        PROVE  /\ due(q)[1] \in DOMAIN out <=> q \in BlockRows(l, c, b)
               /\ q \in BlockRows(l, c, b) => out[due(q)[1]] = due(q)[2]
    BY <1>1, <1>5, <2>1, RowStoresAre
  <2>3. Dues(l.kernel, c) = {due(q) : q \in RowsOf(c)} /\ BlockDues(l, c, b) = {due(q) : q \in BlockRows(l, c, b)}
    BY <1>5 DEF Dues, BlockDues
  <2>4. BlockRows(l, c, b) \subseteq RowsOf(c)
    BY DEF BlockRows
  <2> HIDE DEF due, out
  <2> QED
    BY <2>2, <2>3, <2>4 DEF out
<1> QED
  BY <1>1, <1>2, <1>3, <1>4, <1>5

\* Together the blocks of a launch owe all that the kernel owes.
LEMMA TrainCovers ==
  ASSUME NEW c, Training(c), NEW l \in TrainLaunches(c), NEW p \in Dues(l.kernel, c)
  PROVE  \E b \in GridOf(l) : p \in BlockDues(l, c, b)
<1>1. l.kernel \in {"fmha_lse", "preprocess", "dkdv", "dq"} /\ Laid(l, c)
  BY TrainLaunch DEF TrainKernels
<1>2. \A q \in RowsOf(c) : \E b \in Grid(l) : q \in BlockRows(l, c, b)
  BY <1>1, RowInGrid
<1>3. \A k \in CallKeys(c) : \E b \in DkDvGrid(l) : k \in BlockKeys(l, c, b)
  BY <1>1, KeyInGrid
<1>4. GridOf(l) = IF l.kernel = "dkdv" THEN DkDvGrid(l) ELSE Grid(l)
  BY TrainGrid
<1>5. CASE l.kernel = "fmha_lse"
  <2>1. PICK q \in RowsOf(c) : p = <<LseAt(c, ForwardSeq(c), q), Scores(c, q)>>
    BY <1>5 DEF Dues
  <2>2. PICK b \in Grid(l) : q \in BlockRows(l, c, b)
    BY <1>2
  <2> QED
    BY <1>4, <1>5, <2>1, <2>2 DEF BlockDues
<1>6. CASE l.kernel = "preprocess"
  <2>1. PICK q \in RowsOf(c) : p = <<DeltaAt(c, BackSeq(c), q), q>>
    BY <1>6 DEF Dues
  <2>2. PICK b \in Grid(l) : q \in BlockRows(l, c, b)
    BY <1>2
  <2> QED
    BY <1>4, <1>6, <2>1, <2>2 DEF BlockDues
<1>7. CASE l.kernel = "dkdv"
  <2>1. PICK k \in CallKeys(c) : p = <<KeyGradAt(k), KeyGrad(c, k)>>
    BY <1>7 DEF Dues
  <2>2. PICK b \in DkDvGrid(l) : k \in BlockKeys(l, c, b)
    BY <1>3
  <2> QED
    BY <1>4, <1>7, <2>1, <2>2 DEF BlockDues
<1>8. CASE l.kernel = "dq"
  <2>1. PICK q \in RowsOf(c) : p = <<RowGradAt(q), RowGrad(c, q)>>
    BY <1>8 DEF Dues
  <2>2. PICK b \in Grid(l) : q \in BlockRows(l, c, b)
    BY <1>2
  <2> QED
    BY <1>4, <1>8, <2>1, <2>2 DEF BlockDues
<1> QED
  BY <1>1, <1>5, <1>6, <1>7, <1>8

\* The tensor a kernel's dues are in.
NameOf(kernel) ==
  CASE kernel = "fmha_lse" -> "LSE" [] kernel = "preprocess" -> "Delta" [] kernel = "dkdv" -> "dKV" [] kernel = "dq" -> "dQ"

LEMMA DueNames ==
  ASSUME NEW c, NEW kernel \in TrainKernels, NEW p \in Dues(kernel, c)
  PROVE  p[1][1] = NameOf(kernel)
<1>1. CASE kernel = "fmha_lse"
  BY <1>1 DEF Dues, NameOf, LseAt
<1>2. CASE kernel = "preprocess"
  BY <1>2 DEF Dues, NameOf, DeltaAt
<1>3. CASE kernel = "dkdv"
  BY <1>3 DEF Dues, NameOf, KeyGradAt
<1>4. CASE kernel = "dq"
  <2>1. PICK q \in RowsOf(c) : p[1] = RowGradAt(q)
    BY <1>4 DEF Dues
  <2>2. PICK x, y, z : q = <<x, y, z>>
    BY DEF RowsOf
  <2>3. p[1] = <<"dQ", x, y, z>>
    BY <2>1, <2>2, RowGradOut
  <2> QED
    BY <1>4, <2>3 DEF NameOf
<1> QED
  BY <1>1, <1>2, <1>3, <1>4 DEF TrainKernels

LEMMA StoreNames ==
  ASSUME NEW c, Training(c), NEW l \in BackLaunches(c), NEW b, NEW st, NEW a \in DOMAIN LastStores(l, b, st)
  PROVE  a[1] = NameOf(l.kernel)
<1>1. l \in TrainLaunches(c)
  BY DEF TrainLaunches
<1>2. l.kernel \in {"preprocess", "dkdv", "dq"}
  BY <1>1, TrainLaunch DEF TrainKernels
<1>3. CASE l.kernel = "preprocess"
  BY <1>3 DEF LastStores, PreprocessStore, NameOf
<1>4. CASE l.kernel = "dkdv"
  BY <1>4 DEF LastStores, DkDvStore, NameOf
<1>5. CASE l.kernel = "dq"
  BY <1>5 DEF LastStores, DqStore, StoreRows, NameOf
<1> QED
  BY <1>2, <1>3, <1>4, <1>5

-----------------------------------------------------------------------------
(* Training calls on the stream *)

HeldIn(M, P) == \A p \in P : p[1] \in DOMAIN M /\ M[p[1]] = p[2]
LseDues(c) == {<<LseAt(c, BackSeq(c), q), Scores(c, q)>> : q \in RowsOf(c)}

\* The kernels of a backward pass come in this order, some of them repeatedly.
KernelRank(kernel) == CASE kernel = "dkdv" -> 1 [] kernel = "dq" -> 2 [] OTHER -> 0
InOrder(s) == \A i, j \in DOMAIN s : i < j => KernelRank(s[i].kernel) <= KernelRank(s[j].kernel)
Spent(s, kernel) == \A i \in DOMAIN s : s[i].kernel # kernel

\* The forward pass, and the backward pass, which finds each row's LSE in place.
TrainPhase == stage = "forward" \/ (stage = "launched" /\ call.kind = "train")
PhaseLaunches(now, c) == IF now = "forward" THEN {ForwardLaunch(c)} ELSE BackLaunches(c)
PhaseKernels(now) == IF now = "forward" THEN {"fmha_lse"} ELSE {"preprocess", "dkdv", "dq"}
PhaseDues(now, c) == IF now = "forward" THEN {} ELSE LseDues(c)

\* A kernel that will not run again has left what it owes.
TrainStands ==
  /\ Training(call)
  /\ queue \in Seq(PhaseLaunches(stage, call)) /\ InOrder(queue)
  /\ HeldIn(mem, PhaseDues(stage, call))
  /\ \A kernel \in PhaseKernels(stage) : Spent(queue, kernel) => HeldIn(mem, Dues(kernel, call))
  /\ queue # <<>> =>
       /\ \A b \in DOMAIN resident : TrainProgress(queue[1], call, b, resident[b])
       /\ \A b \in done : HeldIn(mem, BlockDues(queue[1], call, b))
TrainInv == TrainPhase => TrainStands

LEMMA HeldStays ==
  ASSUME NEW M, NEW P, NEW stores, HeldIn(M, P), \A p \in P : p[1] \in DOMAIN stores => stores[p[1]] = p[2]
  PROVE  HeldIn(stores ++ M, P)
BY DEF HeldIn, ++

LEMMA HeldStats ==
  ASSUME NEW M, NEW c, HeldIn(M, LseDues(c)), HeldIn(M, Dues("preprocess", c))
  PROVE  StatsHold(M, c)
<1> SUFFICES ASSUME NEW q \in RowsOf(c)
             PROVE  /\ LseAt(c, BackSeq(c), q) \in DOMAIN M /\ M[LseAt(c, BackSeq(c), q)] = Scores(c, q)
                    /\ DeltaAt(c, BackSeq(c), q) \in DOMAIN M /\ M[DeltaAt(c, BackSeq(c), q)] = q
  BY DEF StatsHold
<1> DEFINE p == <<LseAt(c, BackSeq(c), q), Scores(c, q)>>
           r == <<DeltaAt(c, BackSeq(c), q), q>>
<1>1. p \in LseDues(c) /\ r \in Dues("preprocess", c)
  BY DEF LseDues, Dues
<1>2. (p[1] \in DOMAIN M /\ M[p[1]] = p[2]) /\ (r[1] \in DOMAIN M /\ M[r[1]] = r[2])
  BY <1>1 DEF HeldIn
<1> QED
  BY <1>2

LEMMA TrainHead ==
  ASSUME TrainStands, queue # <<>>
  PROVE  /\ Training(call) /\ queue[1] \in PhaseLaunches(stage, call) /\ queue[1] \in TrainLaunches(call)
         /\ queue[1].kernel \in PhaseKernels(stage) /\ queue[1].kernel \in TrainKernels
         /\ queue[1].kernel \in {"dkdv", "dq"} => StatsHold(mem, call)
<1> DEFINE l == queue[1]
<1>1. Training(call) /\ queue \in Seq(PhaseLaunches(stage, call))
  BY DEF TrainStands
<1>2. l \in PhaseLaunches(stage, call) /\ 1 \in DOMAIN queue /\ DOMAIN queue \subseteq Nat
  BY <1>1
<1>3. l \in TrainLaunches(call)
  BY <1>2 DEF PhaseLaunches, TrainLaunches
<1> HIDE DEF l
<1>4. l.kernel \in TrainKernels /\ (l \in BackLaunches(call) <=> l.kernel # "fmha_lse")
      /\ ForwardLaunch(call).kernel = "fmha_lse"
  BY <1>1, <1>3, TrainLaunch, ForwardLaid
<1>5. l.kernel \in PhaseKernels(stage)
  BY <1>2, <1>4 DEF PhaseKernels, PhaseLaunches, TrainKernels
<1>6. ASSUME l.kernel \in {"dkdv", "dq"} PROVE StatsHold(mem, call)
  <2>1. stage # "forward"
    BY <1>5, <1>6 DEF PhaseKernels
  <2>2. HeldIn(mem, LseDues(call))
    BY <2>1 DEF TrainStands, PhaseDues
  <2>3. ASSUME NEW i \in DOMAIN queue PROVE queue[i].kernel # "preprocess"
    <3>1. i = 1 \/ 1 < i
      BY <1>1
    <3>2. CASE 1 < i
      <4>1. KernelRank(l.kernel) <= KernelRank(queue[i].kernel)
        BY <1>2, <3>2 DEF TrainStands, InOrder, l
      <4>2. KernelRank(l.kernel) \in {1, 2}
        BY <1>6 DEF KernelRank
      <4>3. KernelRank("preprocess") = 0
        BY DEF KernelRank
      <4> QED
        BY <4>1, <4>2, <4>3
    <3>3. CASE i = 1
      BY <1>6, <3>3 DEF l
    <3> QED
      BY <3>1, <3>2, <3>3
  <2>4. Spent(queue, "preprocess")
    BY <2>3 DEF Spent
  <2>5. HeldIn(mem, Dues("preprocess", call))
    BY <2>1, <2>4 DEF TrainStands, PhaseKernels
  <2> QED
    BY <2>2, <2>5, HeldStats
<1> QED
  BY <1>1, <1>2, <1>3, <1>4, <1>5, <1>6 DEF l

LEMMA BlockOwes ==
  ASSUME NEW c, Training(c), NEW l \in TrainLaunches(c), NEW b
  PROVE  BlockDues(l, c, b) \subseteq Dues(l.kernel, c)
<1>1. l.kernel \in {"fmha_lse", "preprocess", "dkdv", "dq"}
  BY TrainLaunch DEF TrainKernels
<1>2. BlockRows(l, c, b) \subseteq RowsOf(c) /\ BlockKeys(l, c, b) \subseteq CallKeys(c)
  BY DEF BlockRows, BlockKeys
<1>3. CASE l.kernel = "fmha_lse"
  BY <1>2, <1>3 DEF BlockDues, Dues
<1>4. CASE l.kernel = "preprocess"
  BY <1>2, <1>4 DEF BlockDues, Dues
<1>5. CASE l.kernel = "dkdv"
  BY <1>2, <1>5 DEF BlockDues, Dues
<1>6. CASE l.kernel = "dq"
  BY <1>2, <1>6 DEF BlockDues, Dues
<1> QED
  BY <1>1, <1>3, <1>4, <1>5, <1>6

\* The stores of a block that ends break nothing and pay what it owes.
LEMMA TrainStores ==
  ASSUME TrainStands, queue # <<>>, NEW b \in GridOf(queue[1]), NEW e, TrainProgress(queue[1], call, b, e),
         e.j = Rounds(queue[1], b), NEW M, M = LastStores(queue[1], b, e.st) ++ mem
  PROVE  /\ HeldIn(M, PhaseDues(stage, call))
         /\ \A kernel \in PhaseKernels(stage) : Spent(queue, kernel) => HeldIn(M, Dues(kernel, call))
         /\ \A z \in done \cup {b} : HeldIn(M, BlockDues(queue[1], call, z))
<1> DEFINE l == queue[1]
           c == call
           stores == LastStores(l, b, e.st)
<1>1. /\ Training(c) /\ l \in PhaseLaunches(stage, c) /\ l \in TrainLaunches(c) /\ l.kernel \in PhaseKernels(stage)
      /\ l.kernel \in TrainKernels
  BY TrainHead
<1>2. \A p \in Dues(l.kernel, c) :
        /\ p[1] \in DOMAIN stores <=> p \in BlockDues(l, c, b)
        /\ p \in BlockDues(l, c, b) => stores[p[1]] = p[2]
  BY <1>1, TrainEnds
<1>3. stage # "forward" => \A x \in DOMAIN stores : x[1] = NameOf(l.kernel)
  BY <1>1, StoreNames DEF PhaseLaunches
<1>4. 1 \in DOMAIN queue
  BY DEF TrainStands
<1> HIDE DEF stores
<1>5. HeldIn(M, PhaseDues(stage, c))
  <2>1. CASE stage = "forward"
    BY <2>1 DEF PhaseDues, HeldIn
  <2>2. CASE stage # "forward"
    <3>1. \A p \in LseDues(c) : p[1][1] = "LSE"
      BY DEF LseDues, LseAt
    <3>2. NameOf(l.kernel) # "LSE"
      BY <1>1, <2>2 DEF NameOf, PhaseKernels
    <3>3. \A p \in LseDues(c) : p[1] \notin DOMAIN stores
      BY <1>3, <2>2, <3>1, <3>2
    <3>4. HeldIn(mem, LseDues(c))
      BY <2>2 DEF TrainStands, PhaseDues
    <3>5. HeldIn(stores ++ mem, LseDues(c))
      BY <3>3, <3>4, HeldStays
    <3> QED
      BY <2>2, <3>5 DEF PhaseDues, stores
  <2> QED
    BY <2>1, <2>2
<1>6. ASSUME NEW kernel \in PhaseKernels(stage), Spent(queue, kernel) PROVE HeldIn(M, Dues(kernel, c))
  <2>1. l.kernel # kernel
    BY <1>4, <1>6 DEF Spent
  <2>2. stage # "forward"
    BY <1>1, <1>6, <2>1 DEF PhaseKernels
  <2>3. kernel \in TrainKernels /\ NameOf(kernel) # NameOf(l.kernel)
    BY <1>1, <1>6, <2>1, <2>2 DEF PhaseKernels, NameOf, TrainKernels
  <2>4. \A p \in Dues(kernel, c) : p[1] \notin DOMAIN stores
    BY <1>3, <2>2, <2>3, DueNames
  <2>5. HeldIn(mem, Dues(kernel, c))
    BY <1>6 DEF TrainStands
  <2>6. HeldIn(stores ++ mem, Dues(kernel, c))
    BY <2>4, <2>5, HeldStays
  <2> QED
    BY <2>6 DEF stores
<1>7. ASSUME NEW z \in done \cup {b} PROVE HeldIn(M, BlockDues(l, c, z))
  <2>1. BlockDues(l, c, z) \subseteq Dues(l.kernel, c)
    BY <1>1, BlockOwes
  <2>2. CASE z = b
    <3>1. \A p \in BlockDues(l, c, b) : p[1] \in DOMAIN stores /\ stores[p[1]] = p[2]
      BY <1>2, <2>1, <2>2
    <3>2. HeldIn(stores ++ mem, BlockDues(l, c, b))
      BY <3>1 DEF HeldIn, ++
    <3> QED
      BY <2>2, <3>2 DEF stores
  <2>3. CASE z # b
    <3>1. HeldIn(mem, BlockDues(l, c, z))
      BY <2>3 DEF TrainStands
    <3>2. \A p \in BlockDues(l, c, z) : p[1] \in DOMAIN stores => stores[p[1]] = p[2]
      BY <1>2, <2>1
    <3>3. HeldIn(stores ++ mem, BlockDues(l, c, z))
      BY <3>1, <3>2, HeldStays
    <3> QED
      BY <3>3 DEF stores
  <2> QED
    BY <2>2, <2>3
<1> QED
  BY <1>5, <1>6, <1>7

LEMMA TrainIssue ==
  ASSUME StreamInv, TrainInv, NEW b, Issue(b)
  PROVE  TrainInv'
<1> SUFFICES ASSUME TrainPhase' PROVE TrainStands'
  BY DEF TrainInv
<1>1. call' = call /\ stage' = stage /\ queue' = queue /\ done' = done /\ mem' = mem /\ queue # <<>>
      /\ b \in GridOf(queue[1]) /\ resident' = resident ++ Entry(b, [j |-> 0, st |-> Begin(queue[1], b)]) /\ b \notin DOMAIN resident
  BY DEF Issue
<1>2. TrainStands
  BY <1>1 DEF TrainPhase, TrainInv
<1>3. Training(call) /\ queue[1] \in TrainLaunches(call)
  BY <1>1, <1>2, TrainHead
<1>4. ASSUME NEW x \in DOMAIN resident' PROVE TrainProgress(queue[1], call, x, resident'[x])
  <2>1. CASE x \in DOMAIN resident
    <3>1. resident'[x] = resident[x]
      BY <1>1, <2>1 DEF ++
    <3> QED
      BY <1>1, <1>2, <2>1, <3>1 DEF TrainStands
  <2>2. CASE x \notin DOMAIN resident
    <3>1. x = b /\ resident'[x] = [j |-> 0, st |-> Begin(queue[1], b)]
      BY <1>1, <2>2 DEF ++, Entry
    <3> QED
      BY <1>1, <1>3, <3>1, TrainBegins
  <2> QED
    BY <2>1, <2>2
<1> QED
  BY <1>1, <1>2, <1>4 DEF TrainStands

LEMMA TrainIterate ==
  ASSUME StreamInv, TrainInv, NEW b, Iterate(b), queue # <<>>
  PROVE  TrainInv'
<1> SUFFICES ASSUME TrainPhase' PROVE TrainStands'
  BY DEF TrainInv
<1> DEFINE l == queue[1]
           e == resident[b]
           stores == RoundStores(l, b, Round(l, b, e.st, e.j), e.j)
<1>1. call' = call /\ stage' = stage /\ queue' = queue /\ done' = done /\ b \in DOMAIN resident /\ e.j < Rounds(l, b)
      /\ resident' = [resident EXCEPT ![b] = [j |-> e.j + 1, st |-> Round(l, b, e.st, e.j)]]
      /\ mem' = stores ++ mem
  BY DEF Iterate
<1>2. TrainStands
  BY <1>1 DEF TrainPhase, TrainInv
<1>3. Training(call) /\ l \in TrainLaunches(call) /\ (l.kernel \in {"dkdv", "dq"} => StatsHold(mem, call))
  BY <1>2, TrainHead
<1>4. b \in GridOf(l)
  BY <1>1 DEF StreamInv
<1>5. stores = <<>>
  BY <1>3, TrainGrid
<1>6. ASSUME NEW x \in DOMAIN resident' PROVE TrainProgress(l, call, x, resident'[x])
  <2>1. DOMAIN resident' = DOMAIN resident
    BY <1>1
  <2>2. CASE x # b
    <3>1. resident'[x] = resident[x]
      BY <1>1, <2>1, <2>2
    <3> QED
      BY <1>2, <2>1, <3>1 DEF TrainStands
  <2>3. CASE x = b
    <3>1. resident'[x] = [j |-> e.j + 1, st |-> Round(l, b, e.st, e.j)]
      BY <1>1, <2>3
    <3>2. TrainProgress(l, call, b, e)
      BY <1>1, <1>2 DEF TrainStands
    <3> HIDE DEF e, l
    <3> QED
      BY <1>1, <1>3, <1>4, <2>3, <3>1, <3>2, TrainRound
  <2> QED
    BY <2>2, <2>3
<1>7. ASSUME NEW P, HeldIn(mem, P) PROVE HeldIn(mem', P)
  <2>1. \A p \in P : p[1] \notin DOMAIN stores
    BY <1>5
  <2> HIDE DEF stores
  <2>2. HeldIn(stores ++ mem, P)
    BY <1>7, <2>1, HeldStays
  <2> QED
    BY <1>1, <2>2
<1>8. HeldIn(mem', PhaseDues(stage, call))
  BY <1>2, <1>7 DEF TrainStands
<1>9. \A kernel \in PhaseKernels(stage) : Spent(queue, kernel) => HeldIn(mem', Dues(kernel, call))
  BY <1>2, <1>7 DEF TrainStands
<1>10. \A z \in done : HeldIn(mem', BlockDues(l, call, z))
  BY <1>2, <1>7 DEF TrainStands
<1>11. queue \in Seq(PhaseLaunches(stage, call)) /\ InOrder(queue)
  BY <1>2 DEF TrainStands
<1> HIDE DEF e, stores
<1> QED
  BY <1>1, <1>3, <1>6, <1>8, <1>9, <1>10, <1>11 DEF TrainStands, l

LEMMA TrainRetire ==
  ASSUME StreamInv, TrainInv, NEW b, Retire(b), queue # <<>>
  PROVE  TrainInv'
<1> SUFFICES ASSUME TrainPhase' PROVE TrainStands'
  BY DEF TrainInv
<1> DEFINE l == queue[1]
           e == resident[b]
<1>1. call' = call /\ stage' = stage /\ queue' = queue /\ done' = done \cup {b} /\ b \in DOMAIN resident /\ e.j = Rounds(l, b)
      /\ resident' = [c \in DOMAIN resident \ {b} |-> resident[c]]
      /\ mem' = LastStores(l, b, e.st) ++ mem
  BY DEF Retire
<1>2. TrainStands
  BY <1>1 DEF TrainPhase, TrainInv
<1>3. b \in GridOf(l)
  BY <1>1 DEF StreamInv
<1>4. TrainProgress(l, call, b, e)
  BY <1>1, <1>2 DEF TrainStands
<1>5. \A x \in DOMAIN resident' : TrainProgress(l, call, x, resident'[x])
  BY <1>1, <1>2 DEF TrainStands
<1>6. /\ HeldIn(mem', PhaseDues(stage, call))
      /\ \A kernel \in PhaseKernels(stage) : Spent(queue, kernel) => HeldIn(mem', Dues(kernel, call))
      /\ \A z \in done \cup {b} : HeldIn(mem', BlockDues(l, call, z))
  <2> DEFINE M == LastStores(l, b, e.st) ++ mem
  <2>1. mem' = M
    BY <1>1
  <2>2. M = LastStores(l, b, e.st) ++ mem
    OBVIOUS
  <2> HIDE DEF M, e
  <2>3. /\ HeldIn(M, PhaseDues(stage, call))
        /\ \A kernel \in PhaseKernels(stage) : Spent(queue, kernel) => HeldIn(M, Dues(kernel, call))
        /\ \A z \in done \cup {b} : HeldIn(M, BlockDues(l, call, z))
    BY <1>1, <1>2, <1>3, <1>4, <2>2, TrainStores
  <2> QED
    BY <2>1, <2>3
<1>7. Training(call) /\ queue \in Seq(PhaseLaunches(stage, call)) /\ InOrder(queue)
  BY <1>2 DEF TrainStands
<1> HIDE DEF e
<1> QED
  BY <1>1, <1>5, <1>6, <1>7 DEF TrainStands, l

LEMMA TrainNextLaunch ==
  ASSUME StreamInv, TrainInv, NextLaunch
  PROVE  TrainInv'
<1> SUFFICES ASSUME TrainPhase' PROVE TrainStands'
  BY DEF TrainInv
<1>1. call' = call /\ stage' = stage /\ mem' = mem /\ resident' = resident /\ queue # <<>> /\ done = GridOf(queue[1])
      /\ queue' = Tail(queue) /\ done' = {}
  BY DEF NextLaunch
<1>2. TrainStands
  BY <1>1 DEF TrainPhase, TrainInv
<1> DEFINE l == queue[1]
           L == PhaseLaunches(stage, call)
<1>3. Training(call) /\ l \in TrainLaunches(call) /\ queue \in Seq(L) /\ InOrder(queue)
  BY <1>1, <1>2, TrainHead DEF TrainStands
<1>4. DOMAIN resident' = {}
  BY <1>1 DEF StreamInv
<1> HIDE DEF L
<1>5. /\ queue' \in Seq(L) /\ Len(queue) \in Nat /\ Len(queue') = Len(queue) - 1
      /\ \A i \in 1 .. Len(queue) - 1 : queue'[i] = queue[i + 1]
      /\ DOMAIN queue = 1 .. Len(queue) /\ DOMAIN queue' = 1 .. Len(queue) - 1
  BY <1>1, <1>3
<1>6. InOrder(queue')
  <2> SUFFICES ASSUME NEW i \in DOMAIN queue', NEW j \in DOMAIN queue', i < j
               PROVE  KernelRank(queue'[i].kernel) <= KernelRank(queue'[j].kernel)
    BY DEF InOrder
  <2>1. i + 1 \in DOMAIN queue /\ j + 1 \in DOMAIN queue /\ i + 1 < j + 1
    BY <1>5
  <2>2. queue'[i] = queue[i + 1] /\ queue'[j] = queue[j + 1]
    BY <1>5
  <2> QED
    BY <1>3, <2>1, <2>2 DEF InOrder
<1>7. HeldIn(mem, PhaseDues(stage, call))
  BY <1>2 DEF TrainStands
<1>8. ASSUME NEW kernel \in PhaseKernels(stage), Spent(queue', kernel) PROVE HeldIn(mem, Dues(kernel, call))
  <2>1. CASE kernel = l.kernel
    <3>1. ASSUME NEW p \in Dues(kernel, call) PROVE p[1] \in DOMAIN mem /\ mem[p[1]] = p[2]
      <4>1. PICK b \in GridOf(l) : p \in BlockDues(l, call, b)
        BY <1>3, <2>1, TrainCovers
      <4>2. HeldIn(mem, BlockDues(l, call, b))
        BY <1>1, <1>2, <4>1 DEF TrainStands
      <4> QED
        BY <4>1, <4>2 DEF HeldIn
    <3> QED
      BY <3>1 DEF HeldIn
  <2>2. CASE kernel # l.kernel
    <3>1. ASSUME NEW i \in DOMAIN queue PROVE queue[i].kernel # kernel
      <4>1. CASE i = 1
        BY <2>2, <4>1
      <4>2. CASE i # 1
        <5>1. i - 1 \in DOMAIN queue' /\ i - 1 \in 1 .. Len(queue) - 1 /\ (i - 1) + 1 = i
          BY <1>5, <4>2
        <5>2. queue'[i - 1] = queue[i]
          BY <1>5, <5>1
        <5> QED
          BY <1>8, <5>1, <5>2 DEF Spent
      <4> QED
        BY <4>1, <4>2
    <3>2. Spent(queue, kernel)
      BY <3>1 DEF Spent
    <3> QED
      BY <1>2, <3>2 DEF TrainStands
  <2> QED
    BY <2>1, <2>2
<1> QED
  BY <1>1, <1>3, <1>4, <1>5, <1>6, <1>7, <1>8 DEF TrainStands, L

-----------------------------------------------------------------------------
(* The passes of a training call *)

LEMMA TrainForward ==
  ASSUME StreamInv, NEW c \in Calls, Forward(c)
  PROVE  TrainInv'
<1>1. queue = <<>> /\ call' = c /\ c.kind = "train" /\ stage' = "forward" /\ resident' = resident /\ done' = done
      /\ queue' = <<ForwardLaunch(c)>>
  BY DEF Forward, Make, Submit
<1>2. Training(c) /\ DOMAIN resident' = {} /\ done' = {}
  BY <1>1 DEF Training, StreamInv
<1> DEFINE l == ForwardLaunch(c)
<1>3. l.kernel = "fmha_lse"
  BY <1>2, ForwardLaid
<1> HIDE DEF l
<1>4. queue' \in Seq({l}) /\ queue' # <<>> /\ DOMAIN queue' = {1} /\ queue'[1] = l
  BY <1>1 DEF l
<1>5. InOrder(queue')
  BY <1>4 DEF InOrder
<1>6. PhaseLaunches("forward", c) = {l} /\ PhaseDues("forward", c) = {} /\ PhaseKernels("forward") = {"fmha_lse"}
  BY DEF PhaseLaunches, PhaseDues, PhaseKernels, l
<1>7. ~ Spent(queue', "fmha_lse")
  BY <1>3, <1>4 DEF Spent
<1>8. HeldIn(mem', {})
  BY DEF HeldIn
<1>9. TrainStands'
  BY <1>1, <1>2, <1>4, <1>5, <1>6, <1>7, <1>8 DEF TrainStands
<1> QED
  BY <1>9 DEF TrainInv

\* The sequences that are put together are in order.
LEMMA OrderedConcat ==
  ASSUME NEW L, NEW s \in Seq(L), NEW t \in Seq(L), InOrder(s), InOrder(t),
         \A i \in DOMAIN s, j \in DOMAIN t : KernelRank(s[i].kernel) <= KernelRank(t[j].kernel)
  PROVE  InOrder(s \o t)
<1> DEFINE u == s \o t
           m == Len(s)
           n == Len(t)
<1>1. /\ m \in Nat /\ n \in Nat /\ DOMAIN s = 1 .. m /\ DOMAIN t = 1 .. n /\ DOMAIN u = 1 .. m + n
      /\ \A i \in 1 .. m + n : u[i] = IF i <= m THEN s[i] ELSE t[i - m]
  BY ConcatProperties
<1> HIDE DEF u, m, n
<1> SUFFICES ASSUME NEW i \in DOMAIN u, NEW j \in DOMAIN u, i < j
             PROVE  KernelRank(u[i].kernel) <= KernelRank(u[j].kernel)
  BY DEF InOrder, u
<1>2. CASE j <= m
  <2>1. i \in DOMAIN s /\ j \in DOMAIN s /\ u[i] = s[i] /\ u[j] = s[j]
    BY <1>1, <1>2
  <2> QED
    BY <2>1 DEF InOrder
<1>3. CASE i <= m /\ ~ j <= m
  <2>1. i \in DOMAIN s /\ j - m \in DOMAIN t /\ u[i] = s[i] /\ u[j] = t[j - m]
    BY <1>1, <1>3
  <2> QED
    BY <2>1
<1>4. CASE ~ i <= m
  <2>1. i - m \in DOMAIN t /\ j - m \in DOMAIN t /\ i - m < j - m /\ u[i] = t[i - m] /\ u[j] = t[j - m]
    BY <1>1, <1>4
  <2> QED
    BY <2>1 DEF InOrder
<1> QED
  BY <1>1, <1>2, <1>3, <1>4

\* What is launched for one backward kernel: its configurations, in any case one.
LEMMA SearchedConfigs ==
  ASSUME NEW name, NEW configs, TilePairs(configs), NEW best \in ConfigsOf(configs)
  PROVE  Searched(name, configs, best) \in Seq(ConfigsOf(configs)) /\ Len(Searched(name, configs, best)) >= 1
<1> DEFINE f == Searched(name, configs, best)
           C == ConfigsOf(configs)
           n == Len(configs)
<1>1. configs \in Seq(C)
  <2>1. n \in Nat /\ DOMAIN configs = 1 .. n /\ configs \in Seq(Positive \X Positive)
    BY DEF TilePairs
  <2>2. \A i \in 1 .. n : configs[i] \in C
    BY <2>1 DEF ConfigsOf
  <2>3. configs = [i \in 1 .. n |-> configs[i]]
    BY <2>1
  <2> HIDE DEF C, n
  <2>4. configs \in [1 .. n -> C]
    BY <2>2, <2>3
  <2> QED
    BY <2>1, <2>4, SeqDef
<1>2. f = Append(configs, best) \/ f = <<best>>
  BY DEF Searched
<1>3. best \in C
  OBVIOUS
<1> HIDE DEF C, f
<1>4. Append(configs, best) \in Seq(C) /\ Len(Append(configs, best)) = Len(configs) + 1 /\ Len(configs) \in Nat
  BY <1>1, <1>3, AppendProperties
<1>5. <<best>> \in Seq(C) /\ Len(<<best>>) = 1
  BY <1>3
<1>6. f \in Seq(C)
  BY <1>2, <1>4, <1>5
<1>7. Len(f) >= 1
  <2>1. CASE f = Append(configs, best)
    BY <1>4, <2>1
  <2>2. CASE f = <<best>>
    BY <1>5, <2>2
  <2> QED
    BY <1>2, <2>1, <2>2
<1> QED
  BY <1>6, <1>7 DEF C, f

LEMMA LaunchesOfKernel ==
  ASSUME NEW n \in Nat, n >= 1, NEW f, NEW L, NEW kernel, \A i \in 1 .. n : f[i] \in L /\ f[i].kernel = kernel,
         NEW s, s = [i \in 1 .. n |-> f[i]]
  PROVE  s \in Seq(L) /\ 1 \in DOMAIN s /\ \A i \in DOMAIN s : s[i].kernel = kernel
<1>1. s \in [1 .. n -> L] /\ DOMAIN s = 1 .. n /\ \A i \in 1 .. n : s[i] = f[i]
  OBVIOUS
<1> QED
  BY <1>1, SeqDef

\* The LSE rows are moved to the padding of the backward pass and stay the rows'.
LEMMA LseMoves ==
  ASSUME NEW c, Training(c), NEW M, HeldIn(M, Dues("fmha_lse", c)), NEW q \in RowsOf(c)
  PROVE  /\ Place(c, BackSeq(c), q) \in FlatSize(c, BackSeq(c))
         /\ PaddedLse(c, ReturnedLse(c, M, ForwardSeq(c)))[Place(c, BackSeq(c), q)] = Scores(c, q)
<1> DEFINE s == BackSeq(c)
           p == Place(c, s, q)
           lse == ReturnedLse(c, M, ForwardSeq(c))
           z == q[1] * c.heads + q[2]
           m == Place(c, c.qlen, q)
<1>1. s \in Positive /\ c.qlen <= s /\ c.qlen \in Positive /\ c.qlen \in Nat /\ c.qlen <= c.qlen
  BY BackSeqFacts, TrainFacts DEF Positive
<1>2. p \in FlatSize(c, s) /\ p \div s = z /\ p % s = q[3]
  BY <1>1, PlaceOf
<1>3. m \in FlatSize(c, c.qlen) /\ m \div c.qlen = z /\ m % c.qlen = q[3]
  BY <1>1, PlaceOf
<1>4. q[3] < c.qlen
  BY <1>1, RowOfCall
<1>5. PaddedLse(c, lse)[p] = IF p % s < c.qlen THEN lse[(p \div s) * c.qlen + (p % s)] ELSE Infinite
  BY <1>2 DEF PaddedLse, BackSeq
<1>6. m = z * c.qlen + q[3]
  BY DEF Place
<1> HIDE DEF p, m, z
<1>7. PaddedLse(c, lse)[p] = lse[m]
  BY <1>2, <1>4, <1>5, <1>6
<1>8. lse[m] = M[<<"LSE", (m \div c.qlen) * ForwardSeq(c) + (m % c.qlen)>>]
  BY <1>3 DEF ReturnedLse
<1>9. lse[m] = M[LseAt(c, ForwardSeq(c), q)]
  BY <1>3, <1>8 DEF LseAt, Place, z
<1>10. M[LseAt(c, ForwardSeq(c), q)] = Scores(c, q)
  <2> DEFINE due == <<LseAt(c, ForwardSeq(c), q), Scores(c, q)>>
  <2>1. due \in Dues("fmha_lse", c)
    BY DEF Dues
  <2>2. M[due[1]] = due[2]
    BY <2>1 DEF HeldIn
  <2> QED
    BY <2>2
<1> QED
  BY <1>2, <1>7, <1>9, <1>10 DEF p

LEMMA TrainBackward ==
  ASSUME StreamInv, StageInv, TrainInv, Backward
  PROVE  TrainInv'
<1> DEFINE c == call
           s == BackSeq(c)
           L == BackLaunches(c)
           lse == PaddedLse(c, ReturnedLse(c, mem, ForwardSeq(c)))
<1>1. queue = <<>> /\ stage = "forward" /\ call' = call /\ stage' = "launched" /\ resident' = resident /\ done' = done
  BY DEF Backward, Submit
<1>2. TrainStands /\ Training(c)
  BY <1>1 DEF TrainInv, TrainPhase, TrainStands
<1>3. DOMAIN resident' = {} /\ done' = {}
  BY <1>1 DEF StreamInv
<1>4. HeldIn(mem, Dues("fmha_lse", c))
  <2>1. Spent(queue, "fmha_lse")
    BY <1>1 DEF Spent
  <2> QED
    BY <1>1, <1>2, <2>1 DEF TrainStands, PhaseKernels
<1>5. HeldIn(mem', LseDues(c))
  <2> DEFINE D == [a \in {"Delta"} \X FlatSize(c, s) |-> ZeroRow]
             E == [a \in {"LSE"} \X FlatSize(c, s) |-> lse[a[2]]]
             O == [a \in {x \in DOMAIN mem : x[1] # "LSE"} |-> mem[a]]
  <2>1. mem' = D ++ E ++ O
    BY DEF Backward, BackSeq, ForwardSeq
  <2>2. ASSUME NEW q \in RowsOf(c)
        PROVE  LseAt(c, s, q) \in DOMAIN mem' /\ mem'[LseAt(c, s, q)] = Scores(c, q)
    <3> DEFINE a == LseAt(c, s, q)
    <3>1. a[1] = "LSE" /\ a[2] = Place(c, s, q) /\ a \in {"LSE"} \X FlatSize(c, s) /\ lse[Place(c, s, q)] = Scores(c, q)
      BY <1>2, <1>4, LseMoves DEF LseAt
    <3>2. a \notin DOMAIN D
      BY <3>1
    <3>3. a \in DOMAIN E /\ E[a] = Scores(c, q)
      BY <3>1
    <3> HIDE DEF a, D, E, O
    <3>4. a \in DOMAIN (D ++ E) /\ (D ++ E)[a] = Scores(c, q)
      BY <3>2, <3>3 DEF ++
    <3>5. a \in DOMAIN (D ++ E ++ O) /\ (D ++ E ++ O)[a] = Scores(c, q)
      BY <3>4 DEF ++
    <3> QED
      BY <2>1, <3>5 DEF a
  <2> QED
    BY <2>2 DEF HeldIn, LseDues
<1>6. PICK one \in ConfigsOf(DkDvConfigs), two \in ConfigsOf(DqConfigs) :
        queue' = <<PreprocessLaunch(c)>>
                 \o [i \in 1 .. Len(Searched("dkdv", DkDvConfigs, one)) |-> DkDvLaunch(c, Searched("dkdv", DkDvConfigs, one)[i])]
                 \o [i \in 1 .. Len(Searched("dq", DqConfigs, two)) |-> DqLaunch(c, Searched("dq", DqConfigs, two)[i])]
  BY DEF Backward, Submit
<1> DEFINE f == Searched("dkdv", DkDvConfigs, one)
           g == Searched("dq", DqConfigs, two)
           r == <<PreprocessLaunch(c)>>
           u == [i \in 1 .. Len(f) |-> DkDvLaunch(c, f[i])]
           v == [i \in 1 .. Len(g) |-> DqLaunch(c, g[i])]
<1>7. r \in Seq(L) /\ 1 \in DOMAIN r /\ \A i \in DOMAIN r : r[i].kernel = "preprocess"
  <2>1. PreprocessLaunch(c).kernel = "preprocess" /\ PreprocessLaunch(c) \in L
    BY <1>2, BackLaid DEF BackLaunches
  <2> HIDE DEF L
  <2> DEFINE l == PreprocessLaunch(c)
  <2> HIDE DEF l
  <2>2. r = <<l>>
    BY DEF l
  <2> QED
    BY <2>1, <2>2 DEF l
<1>8. u \in Seq(L) /\ 1 \in DOMAIN u /\ \A i \in DOMAIN u : u[i].kernel = "dkdv"
  <2>1. f \in Seq(ConfigsOf(DkDvConfigs)) /\ Len(f) >= 1
    BY <1>6, SearchedConfigs, DeviceAssumption
  <2> HIDE DEF f
  <2>2. Len(f) \in Nat /\ \A i \in 1 .. Len(f) : f[i] \in ConfigsOf(DkDvConfigs)
    BY <2>1
  <2>3. \A i \in 1 .. Len(f) : u[i] \in L /\ u[i].kernel = "dkdv"
    BY <1>2, <2>2, BackLaid DEF BackLaunches
  <2>4. u = [i \in 1 .. Len(f) |-> u[i]]
    OBVIOUS
  <2> HIDE DEF u, L
  <2> QED
    BY <2>1, <2>2, <2>3, <2>4, LaunchesOfKernel
<1>9. v \in Seq(L) /\ 1 \in DOMAIN v /\ \A i \in DOMAIN v : v[i].kernel = "dq"
  <2>1. g \in Seq(ConfigsOf(DqConfigs)) /\ Len(g) >= 1
    BY <1>6, SearchedConfigs, DeviceAssumption
  <2> HIDE DEF g
  <2>2. Len(g) \in Nat /\ \A i \in 1 .. Len(g) : g[i] \in ConfigsOf(DqConfigs)
    BY <2>1
  <2>3. \A i \in 1 .. Len(g) : v[i] \in L /\ v[i].kernel = "dq"
    BY <1>2, <2>2, BackLaid DEF BackLaunches
  <2>4. v = [i \in 1 .. Len(g) |-> v[i]]
    OBVIOUS
  <2> HIDE DEF v, L
  <2> QED
    BY <2>1, <2>2, <2>3, <2>4, LaunchesOfKernel
<1>10. queue' = (r \o u) \o v
  BY <1>6
<1> HIDE DEF r, u, v, L
<1>11. /\ r \o u \in Seq(L) /\ (r \o u) \o v \in Seq(L)
       /\ \A i \in DOMAIN (r \o u) : (r \o u)[i].kernel \in {"preprocess", "dkdv"}
       /\ ~ Spent((r \o u) \o v, "preprocess") /\ ~ Spent((r \o u) \o v, "dkdv") /\ ~ Spent((r \o u) \o v, "dq")
  <2> DEFINE m == Len(r)
             n == Len(u)
             k == Len(v)
  <2>1. /\ m \in Nat /\ n \in Nat /\ k \in Nat /\ DOMAIN r = 1 .. m /\ DOMAIN u = 1 .. n /\ DOMAIN v = 1 .. k
        /\ m >= 1 /\ n >= 1 /\ k >= 1
    BY <1>7, <1>8, <1>9
  <2>2. /\ r \o u \in Seq(L) /\ Len(r \o u) = m + n /\ DOMAIN (r \o u) = 1 .. m + n
        /\ \A i \in 1 .. m + n : (r \o u)[i] = IF i <= m THEN r[i] ELSE u[i - m]
    BY <1>7, <1>8, ConcatProperties
  <2>3. /\ (r \o u) \o v \in Seq(L) /\ DOMAIN ((r \o u) \o v) = 1 .. (m + n) + k
        /\ \A i \in 1 .. (m + n) + k : ((r \o u) \o v)[i] = IF i <= m + n THEN (r \o u)[i] ELSE v[i - (m + n)]
    BY <1>9, <2>2, ConcatProperties
  <2>4. \A i \in DOMAIN (r \o u) : (r \o u)[i].kernel \in {"preprocess", "dkdv"}
    <3> SUFFICES ASSUME NEW i \in 1 .. m + n PROVE (r \o u)[i].kernel \in {"preprocess", "dkdv"}
      BY <2>2
    <3>1. CASE i <= m
      <4>1. i \in DOMAIN r
        BY <2>1, <3>1
      <4> QED
        BY <1>7, <2>2, <3>1, <4>1
    <3>2. CASE ~ i <= m
      <4>1. i - m \in DOMAIN u
        BY <2>1, <3>2
      <4> QED
        BY <1>8, <2>2, <3>2, <4>1
    <3> QED
      BY <3>1, <3>2
  <2> HIDE DEF m, n, k
  <2> DEFINE w == (r \o u) \o v
  <2>5. 1 \in DOMAIN w /\ w[1] = r[1]
    <3>1. 1 \in 1 .. (m + n) + k /\ 1 \in 1 .. m + n /\ 1 <= m /\ 1 <= m + n
      BY <2>1
    <3> QED
      BY <2>2, <2>3, <3>1
  <2>6. m + 1 \in DOMAIN w /\ w[m + 1] = u[1]
    <3>1. m + 1 \in 1 .. (m + n) + k /\ m + 1 \in 1 .. m + n /\ ~ m + 1 <= m /\ m + 1 <= m + n /\ (m + 1) - m = 1
      BY <2>1
    <3> QED
      BY <2>2, <2>3, <3>1
  <2>7. (m + n) + 1 \in DOMAIN w /\ w[(m + n) + 1] = v[1]
    <3>1. (m + n) + 1 \in 1 .. (m + n) + k /\ ~ (m + n) + 1 <= m + n /\ ((m + n) + 1) - (m + n) = 1
      BY <2>1
    <3> QED
      BY <2>3, <3>1
  <2>8. r[1].kernel = "preprocess" /\ u[1].kernel = "dkdv" /\ v[1].kernel = "dq"
    BY <1>7, <1>8, <1>9
  <2> HIDE DEF w
  <2>9. ~ Spent(w, "preprocess") /\ ~ Spent(w, "dkdv") /\ ~ Spent(w, "dq")
    BY <2>5, <2>6, <2>7, <2>8 DEF Spent
  <2> QED
    BY <2>2, <2>3, <2>4, <2>9 DEF w
<1>12. InOrder(queue')
  <2>1. KernelRank("preprocess") = 0 /\ KernelRank("dkdv") = 1 /\ KernelRank("dq") = 2
    BY DEF KernelRank
  <2>2. InOrder(r) /\ InOrder(u) /\ InOrder(v)
    BY <1>7, <1>8, <1>9, <2>1 DEF InOrder
  <2>3. InOrder(r \o u)
    BY <1>7, <1>8, <2>1, <2>2, OrderedConcat
  <2>4. \A i \in DOMAIN (r \o u), j \in DOMAIN v : KernelRank((r \o u)[i].kernel) <= KernelRank(v[j].kernel)
    <3> SUFFICES ASSUME NEW i \in DOMAIN (r \o u), NEW j \in DOMAIN v
                 PROVE  KernelRank((r \o u)[i].kernel) <= KernelRank(v[j].kernel)
      OBVIOUS
    <3>1. KernelRank((r \o u)[i].kernel) \in {0, 1}
      BY <1>11, <2>1
    <3>2. KernelRank(v[j].kernel) = 2
      BY <1>9, <2>1
    <3> QED
      BY <3>1, <3>2
  <2>5. InOrder((r \o u) \o v)
    <3> DEFINE y == r \o u
    <3>1. y \in Seq(L) /\ InOrder(y)
      BY <1>11, <2>3
    <3>2. \A i \in DOMAIN y, j \in DOMAIN v : KernelRank(y[i].kernel) <= KernelRank(v[j].kernel)
      BY <2>4
    <3> HIDE DEF y
    <3>3. InOrder(y \o v)
      BY <1>9, <2>2, <3>1, <3>2, OrderedConcat
    <3> QED
      BY <3>3 DEF y
  <2> QED
    BY <1>10, <2>5
<1>13. ~ Spent(queue', "preprocess") /\ ~ Spent(queue', "dkdv") /\ ~ Spent(queue', "dq") /\ queue' \in Seq(L)
  BY <1>10, <1>11
<1>14. PhaseLaunches("launched", c) = L /\ PhaseKernels("launched") = {"preprocess", "dkdv", "dq"}
       /\ PhaseDues("launched", c) = LseDues(c)
  BY DEF PhaseLaunches, PhaseKernels, PhaseDues, L
<1>15. \A kernel \in PhaseKernels("launched") : ~ Spent(queue', kernel)
  BY <1>13, <1>14
<1>16. TrainStands'
  BY <1>1, <1>2, <1>3, <1>5, <1>12, <1>13, <1>14, <1>15 DEF TrainStands
<1> QED
  BY <1>16 DEF TrainInv

LEMMA TrainStep ==
  ASSUME StreamInv, StageInv, TrainInv, DeviceNext
  PROVE  TrainInv'
<1>1. ASSUME NEW b, queue # <<>>, Issue(b) \/ Iterate(b) \/ Retire(b) PROVE TrainInv'
  BY <1>1, TrainIssue, TrainIterate, TrainRetire
<1>2. CASE NextLaunch
  BY <1>2, TrainNextLaunch
<1>3. CASE Backward
  BY <1>3, TrainBackward
<1>4. ASSUME ~ TrainPhase' PROVE TrainInv'
  BY <1>4 DEF TrainInv
<1>5. CASE Return \/ BeginDecoding \/ Replay \/ EagerStep \/ EndDecoding
  <2>1. ~ TrainPhase'
    BY <1>5 DEF StageInv, Return, BeginDecoding, Replay, EagerStep, EndDecoding, More, TrainPhase
  <2> QED
    BY <1>4, <2>1
<1>6. ASSUME NEW c, Infer(c) \/ Study(c) \/ Gpt(c) \/ Generate(c) \/ Attend(c) \/ Tune(c) \/ Benchmark(c) \/ Elementwise(c)
      PROVE  TrainInv'
  <2>1. ~ TrainPhase'
    BY <1>6 DEF Infer, Study, Gpt, Generate, Attend, Tune, Benchmark, Elementwise, Make, TrainPhase
  <2> QED
    BY <1>4, <2>1
<1>7. ASSUME NEW c \in Calls, Forward(c) PROVE TrainInv'
  BY <1>7, TrainForward
<1> QED
  BY <1>1, <1>2, <1>3, <1>5, <1>6, <1>7 DEF DeviceNext

TrainAll == StreamInv /\ StageInv /\ TrainInv

LEMMA TrainInit == Init => TrainAll
<1> SUFFICES ASSUME Init PROVE TrainAll
  OBVIOUS
<1>1. stage = "idle" /\ queue = <<>> /\ resident = <<>> /\ done = {}
  BY DEF Init, DeviceInit
<1> QED
  BY <1>1 DEF TrainAll, StreamInv, StageInv, TrainInv, TrainPhase

LEMMA TrainNext == TrainAll /\ [Next]_vars => TrainAll'
<1> SUFFICES ASSUME TrainAll, [Next]_vars PROVE TrainAll'
  OBVIOUS
<1>1. CASE OnDevice
  BY <1>1, StreamStep, StageStep, TrainStep DEF TrainAll, OnDevice
<1>2. CASE OnRanks \/ UNCHANGED vars
  <2>1. UNCHANGED <<call, stage, queue, resident, done, mem>>
    BY <1>2 DEF OnRanks, device, stream, vars
  <2>2. StreamInv' /\ StageInv'
    BY <2>1 DEF TrainAll, StreamInv, StageInv, GridOf
  <2>3. TrainInv'
    BY <2>1 DEF TrainAll, TrainInv, TrainStands, TrainPhase
  <2> QED
    BY <2>2, <2>3 DEF TrainAll
<1> QED
  BY <1>1, <1>2 DEF Next

LEMMA TrainMeans == TrainAll => GradientsTakeEachPairOnce
<1> SUFFICES ASSUME TrainAll, Ended("train") PROVE GradientsTakeEachPairOnce
  BY DEF GradientsTakeEachPairOnce
<1>1. stage = "launched" /\ queue = <<>> /\ call.kind = "train"
  BY DEF Ended
<1>2. TrainStands /\ Training(call)
  BY <1>1 DEF TrainAll, TrainInv, TrainPhase, TrainStands
<1>3. HeldIn(mem, Dues("dkdv", call)) /\ HeldIn(mem, Dues("dq", call))
  <2>1. Spent(queue, "dkdv") /\ Spent(queue, "dq")
    BY <1>1 DEF Spent
  <2> QED
    BY <1>1, <1>2, <2>1 DEF TrainStands, PhaseKernels
<1>4. ASSUME NEW q \in RowsOf(call)
      PROVE  mem[<<"dQ">> \o q] = SetToBag({TruePair(call, q, n) : n \in Sees(call, 0, q[3])})
  <2> DEFINE p == <<RowGradAt(q), RowGrad(call, q)>>
  <2>1. p \in Dues("dq", call)
    BY DEF Dues
  <2>2. mem[p[1]] = p[2]
    BY <1>3, <2>1 DEF HeldIn
  <2> QED
    BY <2>2 DEF RowGradAt, RowGrad
<1>5. ASSUME NEW b \in 0 .. call.batch - 1, NEW g \in 0 .. call.kvHeads - 1, NEW n \in 0 .. call.klen - 1
      PROVE  mem[<<"dKV", b, g, n>>] =
               SetToBag({TruePair(call, q, n) :
                           q \in {q \in RowsOf(call) : q[1] = b /\ Kv(call, q) = g /\ n \in Sees(call, 0, q[3])}})
  <2> DEFINE k == <<b, g, n>>
             p == <<KeyGradAt(k), KeyGrad(call, k)>>
  <2>1. p \in Dues("dkdv", call)
    BY DEF Dues, CallKeys
  <2>2. mem[p[1]] = p[2]
    BY <1>3, <2>1 DEF HeldIn
  <2>3. p[1] = <<"dKV", b, g, n>>
    BY DEF KeyGradAt
  <2>4. p[2] = SetToBag({TruePair(call, q, n) : q \in Seers(call, b, g, n)})
    BY DEF KeyGrad
  <2> HIDE DEF p
  <2> QED
    BY <2>2, <2>3, <2>4 DEF Seers
<1> QED
  BY <1>4, <1>5 DEF GradientsTakeEachPairOnce

\* The backward pass adds, for every key, one term per query row of its group that
\* saw it, and for every query row one per key it saw, weighted with that row's own
\* LSE and Delta (_fmha_bwd_dkdv_kernel, _fmha_bwd_dq_kernel, _fmha_backward).
THEOREM GradientsAreExact == Spec => []GradientsTakeEachPairOnce
<1>1. Init => TrainAll
  BY TrainInit
<1>2. TrainAll /\ [Next]_vars => TrainAll'
  BY TrainNext
<1>3. TrainAll => GradientsTakeEachPairOnce
  BY TrainMeans
<1> QED
  BY <1>1, <1>2, <1>3, PTL DEF Spec

-----------------------------------------------------------------------------
(* A decoding step *)

TextKeys(gen, h) == [n \in Nat |-> <<gen, h, n, n>>]
TextScores(gen, h, s) == [n \in Nat |-> Score(<<gen, h, s, s>>, TextKeys(gen, h)[n])]

\* The scores of token s of a text.
TextFinite(gen, c, s) ==
  \A h \in 0 .. c.heads - 1 : \A n \in 0 .. s : Finite(<<gen, h, s, s>>, <<gen, h, n, n>>)
Heads1(l, c) == l.batch = 1 /\ l.heads = c.heads /\ l.qlen = 1 /\ l.tm = StaticTile /\ l.tn = StaticTile

TextOf(gen, m) == [i \in 1 .. m |-> Text(gen, i - 1, i - 1)]
StaticHolds(M, gen, m) == \A n \in 0 .. m - 1 : <<"static", n>> \in DOMAIN M /\ M[<<"static", n>>] = Text(gen, n, n)
Inputs(M, gen, s) ==
  /\ {<<"input">>, <<"step">>, <<"scatter">>} \subseteq DOMAIN M
  /\ M[<<"input">>] = <<gen, s>> /\ M[<<"step">>] = s /\ M[<<"scatter">>] = s

\* A launch of step s: eagerly over the text, or over the static buffer.
StepFor(M, l, c, gen, s) ==
  \/ l.kernel = "eager_step" /\ l = EagerLaunch(c, TextOf(gen, s + 1))
  \/ l.kernel = "graph_step" /\ l = ReplayLaunch(c) /\ s < StaticLen /\ StaticHolds(M, gen, s + 1) /\ Inputs(M, gen, s)

LEMMA NoPadding4 == ASSUME NEW x, NEW y, NEW z, NEW u PROVE <<x, y, z, u>> \notin Padding
BY DEF Padding, ZeroRow, UndefRow, StaleRow

LEMMA TextRow ==
  ASSUME NEW gen, NEW n, NEW h
  PROVE  OfHead(Text(gen, n, n), h) = <<gen, h, n, n>>
BY NoPadding4 DEF OfHead, Text

LEMMA StepFacts ==
  ASSUME NEW c, c.heads \in Positive, NEW gen, NEW s \in Nat, NEW l, StepFor(mem, l, c, gen, s)
  PROVE  /\ Heads1(l, c) /\ l.causal = FALSE /\ Regular(l) /\ s < l.klen /\ l.klen \in Positive
         /\ l.kernel = "eager_step" => l.klen = s + 1 /\ l.past = TextOf(gen, s + 1) /\ l.row = Text(gen, s, s)
<1>1. StaticTile \in Positive /\ StaticLen \in Positive
  BY DeviceAssumption
<1>2. ASSUME NEW kernel, NEW row, NEW klen \in Positive, NEW past,
             \/ l = StepLaunch(c, kernel, row, klen)
             \/ l = StepLaunch(c, kernel, row, klen) ++ [past |-> past]
      PROVE  /\ l.batch = 1 /\ l.heads = c.heads /\ l.qlen = 1 /\ l.klen = klen /\ l.tm = StaticTile /\ l.tn = StaticTile
             /\ l.causal = FALSE /\ l.evenK = (klen % StaticTile = 0) /\ l.row = row
  BY <1>2 DEF StepLaunch, ++
<1>3. CASE l.kernel = "eager_step" /\ l = EagerLaunch(c, TextOf(gen, s + 1))
  <2> DEFINE past == TextOf(gen, s + 1)
  <2>1. Len(past) = s + 1 /\ s + 1 \in Positive /\ past[s + 1] = Text(gen, s, s)
    <3>1. s + 1 \in Nat /\ s + 1 \in 1 .. s + 1 /\ s + 1 - 1 = s
      OBVIOUS
    <3>2. past = [i \in 1 .. s + 1 |-> Text(gen, i - 1, i - 1)]
      BY DEF TextOf
    <3>3. Len(past) = s + 1
      BY <3>1, <3>2
    <3>4. past[s + 1] = Text(gen, s, s)
      BY <3>1, <3>2
    <3> QED
      BY <3>1, <3>3, <3>4 DEF Positive
  <2>2. l = StepLaunch(c, "eager_step", past[Len(past)], Len(past)) ++ [past |-> past]
    BY <1>3 DEF EagerLaunch
  <2>3. l.past = past
    <3> HIDE DEF past
    <3> QED
      BY <2>2 DEF ++, StepLaunch
  <2> HIDE DEF past
  <2>4. /\ l.batch = 1 /\ l.heads = c.heads /\ l.qlen = 1 /\ l.klen = s + 1 /\ l.tm = StaticTile /\ l.tn = StaticTile
        /\ l.causal = FALSE /\ l.evenK = ((s + 1) % StaticTile = 0) /\ l.row = Text(gen, s, s)
    BY <1>2, <2>1, <2>2
  <2>5. Regular(l) /\ Heads1(l, c) /\ s < l.klen /\ l.klen \in Positive
    <3>1. 1 \in Positive /\ s < s + 1 /\ l.evenK \in BOOLEAN
      BY <2>4 DEF Positive
    <3>2. {l.tm, l.tn, l.klen, l.qlen, l.batch, l.heads} \subseteq Positive
      BY <1>1, <2>1, <2>4, <3>1
    <3> QED
      BY <2>4, <3>1, <3>2 DEF Regular, Heads1
  <2> QED
    BY <2>3, <2>4, <2>5 DEF past
<1>4. CASE l.kernel = "graph_step" /\ l = ReplayLaunch(c) /\ s < StaticLen
  <2>1. l = StepLaunch(c, "graph_step", ZeroRow, StaticLen)
    BY <1>4 DEF ReplayLaunch
  <2>2. /\ l.batch = 1 /\ l.heads = c.heads /\ l.qlen = 1 /\ l.klen = StaticLen /\ l.tm = StaticTile /\ l.tn = StaticTile
        /\ l.causal = FALSE /\ l.evenK = (StaticLen % StaticTile = 0)
    BY <1>1, <1>2, <2>1
  <2>3. Regular(l) /\ Heads1(l, c) /\ s < l.klen /\ l.klen \in Positive
    <3>1. 1 \in Positive /\ l.evenK \in BOOLEAN
      BY <2>2 DEF Positive
    <3>2. {l.tm, l.tn, l.klen, l.qlen, l.batch, l.heads} \subseteq Positive
      BY <1>1, <2>2, <3>1
    <3> QED
      BY <1>4, <2>2, <3>1, <3>2 DEF Regular, Heads1
  <2> QED
    BY <1>4, <2>2, <2>3
<1> QED
  BY <1>3, <1>4 DEF StepFor

LEMMA StepBlock ==
  ASSUME NEW c, c.heads \in Positive, NEW gen, NEW s \in Nat, NEW l, StepFor(mem, l, c, gen, s), NEW b \in Grid(l)
  PROVE  b[1] = 0 /\ BatchOf(l, b) = 0 /\ HeadOf(l, b) \in 0 .. c.heads - 1 /\ l.tn \in Positive
         /\ TileCount(l, 0) = CeilDiv(l.klen, l.tn) /\ TileCount(l, 0) \in Nat
<1>1. Heads1(l, c) /\ Regular(l) /\ l.causal = FALSE
  BY StepFacts
<1>2. BatchOf(l, b) = 0 /\ HeadOf(l, b) \in 0 .. c.heads - 1
  BY <1>1, BlockFacts DEF Heads1
<1>3. CeilDiv(1, StaticTile) = 1
  <2>1. StaticTile \in Positive
    BY DeviceAssumption
  <2>2. StaticTile \in Nat /\ StaticTile = 1 * StaticTile + 0 /\ 0 \in 0 .. StaticTile - 1
    BY <2>1 DEF Positive
  <2>3. StaticTile \div StaticTile = 1
    BY <2>1, <2>2, QuotientIs
  <2>4. 1 + StaticTile - 1 = StaticTile
    BY <2>2
  <2> QED
    BY <2>3, <2>4 DEF CeilDiv
<1>4. b[1] = 0
  BY <1>1, <1>3 DEF Grid, Heads1
<1>5. l.tn \in Positive /\ l.klen \in Nat
  BY <1>1 DEF Regular, Positive
<1>6. TileCount(l, 0) = CeilDiv(l.klen, l.tn)
  BY <1>1 DEF TileCount
<1> QED
  BY <1>2, <1>4, <1>5, <1>6, Tiles

\* What the row of a block has met.
StepProgress(l, gen, s, b, e) ==
  /\ e.j \in 0 .. TileCount(l, 0)
  /\ Gathered(e.st[0], Before(0 .. s, e.j * l.tn), TextKeys(gen, HeadOf(l, b)), TextScores(gen, HeadOf(l, b), s))

LEMMA StepBegins ==
  ASSUME NEW c, c.heads \in Positive, NEW gen, NEW s \in Nat, NEW l, StepFor(mem, l, c, gen, s), NEW b \in Grid(l)
  PROVE  StepProgress(l, gen, s, b, [j |-> 0, st |-> Begin(l, b)])
<1>1. l.kernel \in {"eager_step", "graph_step"}
  BY DEF StepFor
<1>2. l.kernel # "dq" /\ l.kernel # "dkdv" /\ l.kernel # "v2" /\ l.kernel \in Flash
  BY <1>1 DEF Flash
<1>3. Begin(l, b) = FmhaBegin(l)
  BY <1>2 DEF Begin
<1>4. l.tm \in Positive /\ l.tn \in Positive /\ TileCount(l, 0) \in Nat
  BY StepFacts, StepBlock DEF Regular
<1>5. Begin(l, b)[0] = FreshRow
  BY <1>3, <1>4 DEF FmhaBegin, Positive
<1>6. Before(0 .. s, 0 * l.tn) = {}
  BY <1>4 DEF Before, Positive
<1>7. Gathered(Begin(l, b)[0], Before(0 .. s, 0 * l.tn), TextKeys(gen, HeadOf(l, b)), TextScores(gen, HeadOf(l, b), s))
  BY <1>5, <1>6, FreshGathered
<1> QED
  BY <1>4, <1>7 DEF StepProgress

\* The tile a row of a decoding step meets.
StepTileIs(tile, l, gen, s, h, j) ==
  /\ DOMAIN tile = j * l.tn .. (j + 1) * l.tn - 1
  /\ \A n \in j * l.tn .. (j + 1) * l.tn - 1 :
       IF n \in 0 .. s
       THEN /\ tile[n].k = TextKeys(gen, h)[n] /\ tile[n].v = TextKeys(gen, h)[n]
            /\ tile[n].s = TextScores(gen, h, s)[n]
       ELSE tile[n].s = NegInf

LEMMA StepTile ==
  ASSUME NEW c, c.heads \in Positive, NEW gen, NEW s \in Nat, NEW l, StepFor(mem, l, c, gen, s), NEW b \in Grid(l),
         NEW j \in Nat, j < TileCount(l, 0), NEW st
  PROVE  \E tile :
           /\ StepTileIs(tile, l, gen, s, HeadOf(l, b), j)
           /\ Round(l, b, st, j)[0] = OnlineSoftmax(st[0], tile)
<1> DEFINE dom == j * l.tn .. (j + 1) * l.tn - 1
           h == HeadOf(l, b)
           K == TextKeys(gen, h)
           S == TextScores(gen, h, s)
<1>1. Heads1(l, c) /\ Regular(l) /\ l.causal = FALSE /\ s < l.klen /\ l.klen \in Positive /\ 0 \in 0 .. l.tm - 1
  <2>1. Heads1(l, c) /\ Regular(l) /\ l.causal = FALSE /\ s < l.klen /\ l.klen \in Positive
    BY StepFacts
  <2>2. 0 \in 0 .. l.tm - 1
    BY <2>1 DEF Regular, Positive
  <2> QED
    BY <2>1, <2>2
<1>2. \A n \in dom : n \in Nat
  BY <1>1, ProductNat DEF Regular, Positive
<1>3. \A n \in Nat : K[n] = <<gen, h, n, n>> /\ K[n] \notin Padding /\ S[n] = Product(<<gen, h, s, s>>, K[n])
  BY NoPadding4 DEF TextKeys, TextScores, Product
<1> HIDE DEF K, S
<1>4. CASE l.kernel = "eager_step"
  <2> DEFINE key(n) == IF n < l.klen THEN OfHead(l.past[n + 1], h) ELSE ZeroRow
             tile == [n \in dom |-> [k |-> key(n), v |-> key(n),
                        s |-> IF ~ Masked(l, 0, j, 0, n) THEN Product(QueryRow(l, b, 0, l.row), key(n)) ELSE NegInf]]
  <2>1. l.klen = s + 1 /\ l.past = TextOf(gen, s + 1) /\ l.row = Text(gen, s, s)
    BY <1>4, StepFacts
  <2>2. QueryRow(l, b, 0, l.row) = <<gen, h, s, s>>
    BY <2>1, TextRow DEF QueryRow
  <2>3. ASSUME NEW n \in 0 .. s PROVE key(n) = K[n]
    <3>1. n + 1 \in 1 .. s + 1 /\ n + 1 - 1 = n /\ n < l.klen /\ n \in Nat
      BY <2>1
    <3>2. l.past[n + 1] = Text(gen, n, n)
      BY <2>1, <3>1 DEF TextOf
    <3> QED
      BY <3>1, <3>2, <1>3, TextRow
  <2>4. ASSUME NEW n \in dom PROVE ~ Masked(l, 0, j, 0, n) <=> n \in 0 .. s
    <3>1. ~ Masked(l, 0, j, 0, n) <=> InSight(l, 0, 0, n)
      BY <1>1, <2>4, MaskIsExact
    <3> QED
      BY <3>1, <1>1, <1>2, <2>1, <2>4 DEF InSight
  <2>5. Round(l, b, st, j) = EagerRound(l, b, st, j)
    BY <1>4 DEF Round
  <2>6. EagerRound(l, b, st, j)[0] = OnlineSoftmax(st[0], tile)
    BY <1>1 DEF EagerRound, Meet
  <2>7. ASSUME NEW n \in dom
        PROVE  IF n \in 0 .. s THEN tile[n].k = K[n] /\ tile[n].v = K[n] /\ tile[n].s = S[n] ELSE tile[n].s = NegInf
    <3> HIDE DEF key, dom
    <3> QED
      BY <1>2, <1>3, <2>2, <2>3, <2>4, <2>7
  <2>8. DOMAIN tile = dom
    OBVIOUS
  <2> HIDE DEF tile
  <2> QED
    BY <2>5, <2>6, <2>7, <2>8 DEF K, S, StepTileIs
<1>5. CASE l.kernel = "graph_step"
  <2> DEFINE key(n) == StaticKey(mem, n, h)
             tile == [n \in dom |-> [k |-> key(n), v |-> key(n),
                        s |-> IF SeenSoFar(mem, n) THEN Product(QueryRow(l, b, 0, CurrentRow(mem)), key(n)) ELSE NegInf]]
  <2>1. StaticHolds(mem, gen, s + 1) /\ Inputs(mem, gen, s)
    BY <1>5 DEF StepFor
  <2>2. QueryRow(l, b, 0, CurrentRow(mem)) = <<gen, h, s, s>>
    <3>1. CurrentRow(mem) = Text(gen, s, s)
      BY <2>1 DEF Inputs, CurrentRow
    <3> QED
      BY <3>1, TextRow DEF QueryRow
  <2>3. ASSUME NEW n \in 0 .. s PROVE key(n) = K[n]
    <3>1. n \in 0 .. s + 1 - 1 /\ n \in Nat
      OBVIOUS
    <3>2. <<"static", n>> \in DOMAIN mem /\ mem[<<"static", n>>] = Text(gen, n, n)
      BY <2>1, <3>1 DEF StaticHolds
    <3> QED
      BY <3>1, <3>2, <1>3, TextRow DEF StaticKey
  <2>4. ASSUME NEW n \in dom PROVE SeenSoFar(mem, n) <=> n \in 0 .. s
    <3>1. mem[<<"step">>] = s /\ n \in Nat
      BY <1>2, <2>1, <2>4 DEF Inputs
    <3> QED
      BY <3>1 DEF SeenSoFar
  <2>5. Round(l, b, st, j) = GraphRound(l, b, st, j, mem)
    BY <1>5 DEF Round
  <2>6. GraphRound(l, b, st, j, mem)[0] = OnlineSoftmax(st[0], tile)
    BY <1>1 DEF GraphRound, Meet
  <2>7. ASSUME NEW n \in dom
        PROVE  IF n \in 0 .. s THEN tile[n].k = K[n] /\ tile[n].v = K[n] /\ tile[n].s = S[n] ELSE tile[n].s = NegInf
    <3> HIDE DEF key, dom
    <3> QED
      BY <1>2, <1>3, <2>2, <2>3, <2>4, <2>7
  <2>8. DOMAIN tile = dom
    OBVIOUS
  <2> HIDE DEF tile
  <2> QED
    BY <2>5, <2>6, <2>7, <2>8 DEF K, S, StepTileIs
<1> QED
  BY <1>4, <1>5 DEF StepFor

-----------------------------------------------------------------------------
(* A decoding step, to its end *)

LEMMA StepKeys ==
  ASSUME NEW gen, NEW h, NEW s \in Nat, \A n \in 0 .. s : Finite(<<gen, h, s, s>>, <<gen, h, n, n>>)
  PROVE  \A n \in 0 .. s : TextScores(gen, h, s)[n] \in Int /\ NegInf < TextScores(gen, h, s)[n]
<1> TAKE n \in 0 .. s
<1>1. TextScores(gen, h, s)[n] = Score(<<gen, h, s, s>>, <<gen, h, n, n>>)
  BY DEF TextScores, TextKeys
<1> QED
  BY <1>1 DEF Finite

LEMMA StepRounds ==
  ASSUME NEW c, c.heads \in Positive, NEW gen, NEW s \in Nat, NEW l, StepFor(mem, l, c, gen, s), NEW b \in Grid(l),
         TextFinite(gen, c, s), NEW e, StepProgress(l, gen, s, b, e), e.j < TileCount(l, 0)
  PROVE  StepProgress(l, gen, s, b, [j |-> e.j + 1, st |-> Round(l, b, e.st, e.j)])
<1> DEFINE h == HeadOf(l, b)
           K == TextKeys(gen, h)
           S == TextScores(gen, h, s)
           A == 0 .. s
           t == l.tn
           j == e.j
           row == e.st[0]
           st == Round(l, b, e.st, e.j)
<1>1. h \in 0 .. c.heads - 1 /\ t \in Positive /\ TileCount(l, 0) \in Nat
  BY StepBlock
<1>2. j \in Nat /\ j + 1 \in 0 .. TileCount(l, 0) /\ Gathered(row, Before(A, j * t), K, S)
  BY <1>1 DEF StepProgress
<1>3. A \subseteq Nat /\ 0 \in A /\ \A n \in A : S[n] \in Int /\ NegInf < S[n]
  <2>1. A \subseteq Nat /\ 0 \in A
    OBVIOUS
  <2>2. \A n \in 0 .. s : Finite(<<gen, h, s, s>>, <<gen, h, n, n>>)
    BY <1>1 DEF TextFinite
  <2>3. \A n \in A : S[n] \in Int /\ NegInf < S[n]
    BY <2>2, StepKeys
  <2> QED
    BY <2>1, <2>3
<1>4. PICK tile :
        /\ DOMAIN tile = j * t .. (j + 1) * t - 1
        /\ \A n \in j * t .. (j + 1) * t - 1 :
             IF n \in A THEN tile[n].k = K[n] /\ tile[n].v = K[n] /\ tile[n].s = S[n] ELSE tile[n].s = NegInf
        /\ st[0] = OnlineSoftmax(row, tile)
  <2>1. j \in Nat /\ j < TileCount(l, 0)
    BY <1>2
  <2>2. \E tile : StepTileIs(tile, l, gen, s, h, j) /\ st[0] = OnlineSoftmax(row, tile)
    BY <2>1, StepTile
  <2> QED
    BY <2>2 DEF StepTileIs
<1> HIDE DEF h, K, S, A, t, j, row, st
<1>5. Gathered(OnlineSoftmax(row, tile), Before(A, (j + 1) * t), K, S)
  BY <1>1, <1>2, <1>3, <1>4, TileGathered
<1>6. Gathered(st[0], Before(A, (j + 1) * t), K, S)
  BY <1>4, <1>5
<1> QED
  BY <1>2, <1>6 DEF StepProgress, h, K, S, A, t, j, st

LEMMA StepEnds ==
  ASSUME NEW c, c.heads \in Positive, NEW gen, NEW s \in Nat, NEW l, StepFor(mem, l, c, gen, s), NEW b \in Grid(l),
         TextFinite(gen, c, s), NEW e, StepProgress(l, gen, s, b, e), e.j = TileCount(l, 0)
  PROVE  Normalised(e.st[0]) = OwnText(gen, HeadOf(l, b), s)
<1> DEFINE h == HeadOf(l, b)
           K == TextKeys(gen, h)
           S == TextScores(gen, h, s)
           A == 0 .. s
           row == e.st[0]
           q == <<gen, h, s, s>>
           kv(n) == <<gen, h, n, n>>
           top == Max({Product(q, kv(n)) : n \in A})
<1>1. h \in 0 .. c.heads - 1 /\ l.tn \in Positive /\ TileCount(l, 0) = CeilDiv(l.klen, l.tn)
  BY StepBlock
<1>2. s < l.klen /\ l.klen \in Nat
  BY StepFacts DEF Positive
<1>3. l.klen <= e.j * l.tn /\ e.j * l.tn \in Nat
  <2>1. CeilDiv(l.klen, l.tn) \in Nat /\ l.klen <= CeilDiv(l.klen, l.tn) * l.tn
    BY <1>1, <1>2, Tiles
  <2> QED
    BY <1>1, <2>1, ProductNat DEF Positive
<1>4. Before(A, e.j * l.tn) = A
  BY <1>2, <1>3 DEF Before
<1>5. Gathered(row, A, K, S)
  BY <1>4 DEF StepProgress
<1>6. A # {} /\ \A n \in A : S[n] \in Int /\ NegInf < S[n]
  <2>1. 0 \in A
    OBVIOUS
  <2>2. \A n \in 0 .. s : Finite(<<gen, h, s, s>>, <<gen, h, n, n>>)
    BY <1>1 DEF TextFinite
  <2>3. \A n \in A : S[n] \in Int /\ NegInf < S[n]
    BY <2>2, StepKeys
  <2> QED
    BY <2>1, <2>3
<1>7. \A n \in A : K[n] = kv(n) /\ S[n] = Product(q, kv(n))
  BY NoPadding4 DEF TextKeys, TextScores, Product
<1>8. OwnText(gen, h, s) = [n \in A |-> [k |-> kv(n), v |-> kv(n), e |-> Product(q, kv(n)) - top]]
  BY DEF OwnText, Softmax
<1> HIDE DEF h, K, S, A, row, q
<1>9. Normalised(row) = [n \in A |-> [k |-> K[n], v |-> K[n], e |-> S[n] - Max({S[x] : x \in A})]]
  <2>1. Normalised(row) = Terms(A, K, S)
    BY <1>5, <1>6, GatheredIsSoftmax
  <2> QED
    BY <2>1 DEF Terms
<1>10. {S[x] : x \in A} = {Product(q, kv(n)) : n \in A}
  BY <1>7
<1>11. Normalised(row) = [n \in A |-> [k |-> K[n], v |-> K[n], e |-> S[n] - top]]
  BY <1>9, <1>10
<1> HIDE DEF top, kv
<1>12. Normalised(row) = OwnText(gen, h, s)
  BY <1>7, <1>8, <1>11
<1> QED
  BY <1>12 DEF row, h

StepOut(h) == <<"O", 0, h, 0>>

LEMMA StepStores ==
  ASSUME NEW c, c.heads \in Positive, NEW gen, NEW s \in Nat, NEW l, StepFor(mem, l, c, gen, s), NEW b \in Grid(l),
         TextFinite(gen, c, s), NEW e, StepProgress(l, gen, s, b, e), e.j = TileCount(l, 0)
  PROVE  /\ \A h : StepOut(h) \in DOMAIN LastStores(l, b, e.st) <=> h = HeadOf(l, b)
         /\ LastStores(l, b, e.st)[StepOut(HeadOf(l, b))] = OwnText(gen, HeadOf(l, b), s)
<1> DEFINE stores == RowStores(l, b, e.st)
<1>1. l.kernel \in {"eager_step", "graph_step"}
  BY DEF StepFor
<1>2. LastStores(l, b, e.st) = stores
  <2>1. LastStores(l, b, e.st) = FmhaStore(l, b, e.st)
    BY <1>1 DEF LastStores
  <2>2. l.kernel # "v2"
    BY <1>1
  <2> QED
    BY <2>1, <2>2 DEF FmhaStore, RowStores, StoreRows, RowOf
<1>3. b[1] = 0 /\ BatchOf(l, b) = 0 /\ l.qlen = 1 /\ l.tm \in Nat /\ l.tm > 0
  <2>1. Heads1(l, c) /\ Regular(l)
    BY StepFacts
  <2>2. b[1] = 0 /\ BatchOf(l, b) = 0
    BY StepBlock
  <2>3. l.qlen = 1 /\ l.tm \in Nat /\ l.tm > 0
    BY <2>1 DEF Heads1, Regular, Positive
  <2> QED
    BY <2>2, <2>3
<1>4. b[1] * l.tm = 0
  BY <1>3
<1> HIDE DEF stores
<1>5. ASSUME NEW h
      PROVE  /\ StepOut(h) \in DOMAIN stores <=> h = HeadOf(l, b)
             /\ StepOut(h) \in DOMAIN stores => stores[StepOut(h)] = Normalised(RowOf(l, e.st, 0))
  <2> DEFINE q == <<0, h, 0>>
  <2>1. OutAt(q) = StepOut(h)
    BY Out DEF StepOut
  <2>2. /\ OutAt(q) \in DOMAIN stores <=> \E i \in 0 .. l.tm - 1 : b[1] * l.tm + i < l.qlen /\ q = QueryAt(l, b, i)
        /\ OutAt(q) \in DOMAIN stores => stores[OutAt(q)] = Normalised(RowOf(l, e.st, q[3] - b[1] * l.tm))
    BY StoresOfRows DEF stores
  <2>3. q[3] - b[1] * l.tm = 0
    BY <1>4
  <2>4. (\E i \in 0 .. l.tm - 1 : b[1] * l.tm + i < l.qlen /\ q = QueryAt(l, b, i)) <=> h = HeadOf(l, b)
    <3>1. \A i \in 0 .. l.tm - 1 : b[1] * l.tm + i = i
      BY <1>3, <1>4
    <3>2. \A i \in 0 .. l.tm - 1 : i < 1 <=> i = 0
      BY <1>3
    <3>3. 0 \in 0 .. l.tm - 1
      BY <1>3
    <3> QED
      BY <1>3, <3>1, <3>2, <3>3 DEF QueryAt
  <2> QED
    BY <2>1, <2>2, <2>3, <2>4
<1>6. RowOf(l, e.st, 0) = e.st[0]
  BY <1>1 DEF RowOf
<1>7. Normalised(e.st[0]) = OwnText(gen, HeadOf(l, b), s)
  BY StepEnds
<1> QED
  BY <1>2, <1>5, <1>6, <1>7

LEMMA StepLaunchFacts ==
  ASSUME NEW c, NEW gen, NEW s, NEW l, StepFor(mem, l, c, gen, s)
  PROVE  /\ GridOf(l) = Grid(l)
         /\ \A b : Rounds(l, b) = TileCount(l, b[1])
         /\ \A b, st, j : RoundStores(l, b, st, j) = <<>>
<1>1. l.kernel \in {"eager_step", "graph_step"}
  BY DEF StepFor
<1>2. /\ l.kernel # "dq" /\ l.kernel # "dkdv" /\ l.kernel # "paged_decode" /\ l.kernel \in Flash
      /\ l.kernel # "matmul" /\ l.kernel # "tiled" /\ l.kernel # "softmax" /\ l.kernel # "store_kvcache"
  BY <1>1 DEF Flash
<1>3. GridOf(l) = Grid(l)
  BY <1>2 DEF GridOf
<1>4. \A b : Rounds(l, b) = TileCount(l, b[1])
  BY <1>2 DEF Rounds
<1>5. \A b, st, j : RoundStores(l, b, st, j) = <<>>
  BY <1>2 DEF RoundStores
<1> QED
  BY <1>3, <1>4, <1>5

\* Every head is a block's.
LEMMA HeadHasBlock ==
  ASSUME NEW c, c.heads \in Positive, NEW gen, NEW s \in Nat, NEW l, StepFor(mem, l, c, gen, s), NEW h \in 0 .. c.heads - 1
  PROVE  \E b \in Grid(l) : HeadOf(l, b) = h
<1> DEFINE b == <<0, 0 * c.heads + h>>
<1>1. Heads1(l, c) /\ Regular(l) /\ c.heads \in Nat
  BY StepFacts DEF Positive
<1>2. 0 * c.heads + h = h /\ 1 * c.heads = c.heads /\ 0 \in 0 .. 1 - 1 /\ 1 \in Nat
  BY <1>1
<1>3. h \in 0 .. 1 * c.heads - 1 /\ (0 * c.heads + h) % c.heads = h
  BY <1>2, RowOfRank
<1>4. 0 \in 0 .. CeilDiv(1, StaticTile) - 1
  <2>1. StaticTile \in Positive /\ 1 \in Nat /\ 0 \in Nat
    BY DeviceAssumption
  <2>2. CeilDiv(1, StaticTile) \in Nat /\ 1 <= CeilDiv(1, StaticTile) * StaticTile
    BY <2>1, Tiles
  <2>3. CeilDiv(1, StaticTile) # 0
    BY <2>1, <2>2 DEF Positive
  <2> QED
    BY <2>2, <2>3
<1>5. b \in Grid(l) /\ HeadOf(l, b) = h
  BY <1>1, <1>2, <1>3, <1>4 DEF Grid, Heads1, HeadOf
<1> QED
  BY <1>5

-----------------------------------------------------------------------------
(* A generation *)

TextWritten(M, gen, h, s) == StepOut(h) \in DOMAIN M /\ M[StepOut(h)] = OwnText(gen, h, s)

TextInv == DOMAIN text = {"gen", "step", "past"}

\* The calls left are those of a program, as many as the generations left at least.
HostInv ==
  todo = <<>> \/
  \E p \in Programs : /\ todo \in Seq({p[i] : i \in DOMAIN p})
                      /\ text.gen \in Nat /\ text.gen + Len(todo) <= Len(p)

\* The launch of step s runs.
Running(s) ==
  /\ queue = <<queue[1]>>
  /\ StepFor(mem, queue[1], call, text.gen, s)
  /\ \A b \in DOMAIN resident : StepProgress(queue[1], text.gen, s, b, resident[b])
  /\ \A b \in done : TextWritten(mem, text.gen, HeadOf(queue[1], b), s)

\* Step s has been submitted: its key is scattered, its row is computed, or it
\* has ended.
Scattering(s) ==
  /\ queue = <<ScatterLaunch, ReplayLaunch(call)>> /\ call.graph
  /\ StaticHolds(mem, text.gen, s) /\ Inputs(mem, text.gen, s)
  /\ done # {} => StaticHolds(mem, text.gen, s + 1)
Stepped(s) == queue = <<>> /\ \A h \in 0 .. call.heads - 1 : TextWritten(mem, text.gen, h, s)

Generating ==
  /\ call \in Calls /\ call.kind = "generate"
  /\ text.step \in call.qlen .. call.qlen + call.new - 1
  /\ \A s \in 0 .. call.qlen + call.new - 1 : TextFinite(text.gen, call, s)
  /\ ~ call.graph => text.past = TextOf(text.gen, text.step)
  /\ (call.graph /\ queue # <<ScatterLaunch, ReplayLaunch(call)>>) => StaticHolds(mem, text.gen, text.step)
  /\ stage = "prefill" => text.step = call.qlen /\ queue \in {<<>>, <<GptLaunch(call)>>}
  /\ stage = "decode" => \/ text.step = call.qlen /\ queue = <<>>
                         \/ /\ text.step > call.qlen
                            /\ Scattering(text.step - 1) \/ Running(text.step - 1) \/ Stepped(text.step - 1)
GenInv == stage \in {"prefill", "decode"} => Generating

LEMMA GenFacts ==
  ASSUME NEW c \in Calls, c.kind = "generate"
  PROVE  /\ {c.batch, c.heads, c.kvHeads, c.qlen, c.klen} \subseteq Positive /\ c.new \in Positive /\ c.graph \in BOOLEAN
         /\ c.graph => c.qlen + c.new - 1 <= StaticLen
<1>1. WellFormed(c)
  BY DeviceAssumption
<1> QED
  BY <1>1 DEF WellFormed

LEMMA TextStep ==
  ASSUME TextInv, DeviceNext
  PROVE  TextInv'
<1> USE DEF TextInv
<1>1. ASSUME NEW b, Issue(b) \/ Iterate(b) \/ Retire(b) PROVE TextInv'
  BY <1>1 DEF Issue, Iterate, Retire
<1>2. CASE NextLaunch \/ Backward \/ Return \/ BeginDecoding \/ Replay \/ EagerStep \/ EndDecoding
  BY <1>2 DEF NextLaunch, Backward, Return, BeginDecoding, Replay, EagerStep, EndDecoding
<1>3. ASSUME NEW c, Infer(c) \/ Forward(c) \/ Study(c) \/ Gpt(c) \/ Generate(c) \/ Attend(c) \/ Tune(c) \/ Benchmark(c) \/ Elementwise(c)
      PROVE  TextInv'
  <2>1. PICK kind : Make(c, kind)
    BY <1>3 DEF Infer, Forward, Study, Gpt, Generate, Attend, Tune, Benchmark, Elementwise
  <2> QED
    BY <2>1 DEF Make
<1> QED
  BY <1>1, <1>2, <1>3 DEF DeviceNext

LEMMA HostMake ==
  ASSUME HostInv, TextInv, NEW c, NEW kind, Make(c, kind)
  PROVE  /\ HostInv'
         /\ kind = "generate" => \A s \in 0 .. c.qlen + c.new - 1 : TextFinite(text.gen + 1, c, s)
<1>1. todo # <<>> /\ Head(todo) = c /\ todo' = Tail(todo) /\ c.kind = kind
      /\ text'.gen \in {text.gen, text.gen + 1}
  BY DEF Make
<1>2. PICK p \in Programs : /\ todo \in Seq({p[i] : i \in DOMAIN p})
                            /\ text.gen \in Nat /\ text.gen + Len(todo) <= Len(p)
  BY <1>1 DEF HostInv
<1> DEFINE S == {p[i] : i \in DOMAIN p}
<1>3. p \in Seq(Calls) /\ Generations(p)
  BY DeviceAssumption
<1>4. Len(p) \in Nat /\ DOMAIN p = 1 .. Len(p)
  BY <1>3
<1>5. todo' \in Seq(S) /\ Len(todo') = Len(todo) - 1 /\ Len(todo) \in Nat /\ c \in S /\ Len(todo) > 0
  <2>1. todo \in Seq(S)
    BY <1>2
  <2> HIDE DEF S
  <2> QED
    BY <1>1, <2>1
<1>6. text'.gen \in Nat /\ text'.gen + Len(todo') <= Len(p)
  BY <1>1, <1>2, <1>4, <1>5
<1>7. HostInv'
  BY <1>5, <1>6 DEF HostInv
<1>8. ASSUME kind = "generate", NEW s \in 0 .. c.qlen + c.new - 1 PROVE TextFinite(text.gen + 1, c, s)
  <2>1. PICK i \in DOMAIN p : p[i] = c
    BY <1>5
  <2>2. text.gen + 1 \in 1 .. Len(p)
    <3> DEFINE g == text.gen
               t == Len(todo)
               n == Len(p)
    <3>1. g \in Nat /\ n \in Nat /\ t \in Nat /\ t > 0 /\ g + t <= n
      BY <1>2, <1>4, <1>5
    <3> HIDE DEF g, t, n
    <3>2. g + 1 \in 1 .. n
      BY <3>1
    <3> QED
      BY <3>2 DEF g, n
  <2> DEFINE gen == text.gen + 1
  <2> HIDE DEF gen
  <2>3. gen \in 1 .. Len(p)
    BY <2>2 DEF gen
  <2>4. \A h \in 0 .. c.heads - 1 : \A n \in 0 .. s : Finite(<<gen, h, s, s>>, <<gen, h, n, n>>)
    BY <1>1, <1>3, <1>8, <2>1, <2>3 DEF Generations
  <2> QED
    BY <2>4 DEF TextFinite, gen
<1> QED
  BY <1>7, <1>8

LEMMA HostStep ==
  ASSUME HostInv, TextInv, DeviceNext
  PROVE  HostInv'
<1>1. ASSUME UNCHANGED todo, text'.gen = text.gen PROVE HostInv'
  BY <1>1 DEF HostInv
<1>2. ASSUME NEW b, Issue(b) \/ Iterate(b) \/ Retire(b) PROVE HostInv'
  BY <1>1, <1>2 DEF Issue, Iterate, Retire
<1>3. CASE NextLaunch \/ Backward \/ Return \/ BeginDecoding \/ Replay \/ EagerStep \/ EndDecoding
  BY <1>1, <1>3 DEF NextLaunch, Backward, Return, BeginDecoding, Replay, EagerStep, EndDecoding, TextInv
<1>4. ASSUME NEW c, Infer(c) \/ Forward(c) \/ Study(c) \/ Gpt(c) \/ Generate(c) \/ Attend(c) \/ Tune(c) \/ Benchmark(c) \/ Elementwise(c)
      PROVE  HostInv'
  <2>1. PICK kind : Make(c, kind)
    BY <1>4 DEF Infer, Forward, Study, Gpt, Generate, Attend, Tune, Benchmark, Elementwise
  <2> QED
    BY <2>1, HostMake
<1> QED
  BY <1>2, <1>3, <1>4 DEF DeviceNext

-----------------------------------------------------------------------------
(* What a store keeps *)

LEMMA StaticKept ==
  ASSUME NEW M, NEW stores, NEW gen, NEW m, StaticHolds(M, gen, m),
         \A n \in 0 .. m - 1 : <<"static", n>> \in DOMAIN stores => stores[<<"static", n>>] = Text(gen, n, n)
  PROVE  StaticHolds(stores ++ M, gen, m)
BY DEF StaticHolds, ++

LEMMA InputsKept ==
  ASSUME NEW M, NEW stores, NEW gen, NEW s, Inputs(M, gen, s),
         {<<"input">>, <<"step">>, <<"scatter">>} \cap DOMAIN stores = {}
  PROVE  Inputs(stores ++ M, gen, s)
BY DEF Inputs, ++

\* An attention kernel stores to O alone.
LEMMA RowsApart ==
  ASSUME NEW l, NEW b, NEW st
  PROVE  /\ \A n : <<"static", n>> \notin DOMAIN FmhaStore(l, b, st)
         /\ {<<"input">>, <<"step">>, <<"scatter">>} \cap DOMAIN FmhaStore(l, b, st) = {}
<1>1. \A a \in DOMAIN FmhaStore(l, b, st) : \E x, y, z : a = <<"O", x, y, z>>
  BY DEF FmhaStore, StoreRows
<1>2. \A n, x, y, z : <<"static", n>> # <<"O", x, y, z>>
  OBVIOUS
<1>3. \A t, x, y, z : <<t>> # <<"O", x, y, z>>
  OBVIOUS
<1> QED
  BY <1>1, <1>2, <1>3

LEMMA NoStores == ASSUME NEW M, NEW a \in DOMAIN M PROVE a \in DOMAIN (<<>> ++ M) /\ (<<>> ++ M)[a] = M[a]
BY DEF ++

-----------------------------------------------------------------------------
(* The launches of a generation *)

\* What is on the stream while a call generates.
LEMMA GenQueue ==
  ASSUME Generating, queue # <<>>
  PROVE  \/ queue = <<GptLaunch(call)>> /\ stage = "prefill"
         \/ Scattering(text.step - 1) \/ Running(text.step - 1)
         \/ stage \notin {"prefill", "decode"}
BY DEF Generating, Stepped

LEMMA StepBounds ==
  ASSUME Generating, text.step > call.qlen
  PROVE  /\ text.step - 1 \in Nat /\ text.step - 1 + 1 = text.step /\ text.step \in Nat
         /\ call.heads \in Positive /\ TextFinite(text.gen, call, text.step - 1)
         /\ call.graph => text.step - 1 < StaticLen
<1>1. {call.heads, call.qlen} \subseteq Positive /\ call.new \in Positive
      /\ (call.graph => call.qlen + call.new - 1 <= StaticLen)
  BY GenFacts DEF Generating
<1>2. call.qlen \in Nat /\ call.new \in Nat /\ call.qlen > 0
  BY <1>1 DEF Positive
<1>3. text.step \in call.qlen .. call.qlen + call.new - 1
  BY DEF Generating
<1>4. text.step - 1 \in Nat /\ text.step - 1 + 1 = text.step /\ text.step \in Nat
      /\ text.step - 1 \in 0 .. call.qlen + call.new - 1
  BY <1>2, <1>3
<1>5. call.graph => text.step - 1 < StaticLen
  <2>1. StaticLen \in Nat
    BY DeviceAssumption DEF Positive
  <2> QED
    BY <1>1, <1>2, <1>3, <2>1
<1> QED
  BY <1>1, <1>4, <1>5 DEF Generating

LEMMA GptStores ==
  ASSUME NEW b, NEW st, NEW j
  PROVE  LET l == GptLaunch(call) IN
         LastStores(l, b, st) = FmhaStore(l, b, st) /\ RoundStores(l, b, st, j) = <<>>
<1> DEFINE l == GptLaunch(call)
<1>1. l.kernel = "gpt"
  BY DEF GptLaunch, StudyLaunch
<1> HIDE DEF l
<1>2. LastStores(l, b, st) = FmhaStore(l, b, st) /\ RoundStores(l, b, st, j) = <<>>
  BY <1>1 DEF LastStores, RoundStores
<1> QED
  BY <1>2 DEF l

LEMMA ScatterFacts ==
  ASSUME NEW b, NEW st, NEW j
  PROVE  /\ LastStores(ScatterLaunch, b, st) = ScatterStore(mem) /\ RoundStores(ScatterLaunch, b, st, j) = <<>>
         /\ GridOf(ScatterLaunch) = {0}
<1>1. ScatterLaunch.kernel = "scatter" /\ ScatterLaunch.blocks = 1
  BY DEF ScatterLaunch
<1>2. GridOf(ScatterLaunch) = 0 .. 1 - 1
  BY <1>1 DEF GridOf, Flash
<1>3. 0 .. 1 - 1 = {0}
  OBVIOUS
<1>4. LastStores(ScatterLaunch, b, st) = ScatterStore(mem) /\ RoundStores(ScatterLaunch, b, st, j) = <<>>
  BY <1>1 DEF LastStores, RoundStores
<1> QED
  BY <1>2, <1>3, <1>4

LEMMA RunningFacts ==
  ASSUME NEW l, NEW c, NEW gen, NEW s, StepFor(mem, l, c, gen, s)
  PROVE  /\ \A b, st, j : RoundStores(l, b, st, j) = <<>>
         /\ \A b, st : LastStores(l, b, st) = FmhaStore(l, b, st)
<1>1. l.kernel \in {"eager_step", "graph_step"}
  BY DEF StepFor
<1>2. \A b, st, j : RoundStores(l, b, st, j) = <<>>
  BY StepLaunchFacts
<1>3. \A b, st : LastStores(l, b, st) = FmhaStore(l, b, st)
  BY <1>1 DEF LastStores
<1> QED
  BY <1>2, <1>3

LEMMA StepForKept ==
  ASSUME NEW M, NEW stores, NEW l, NEW c, NEW gen, NEW s, StepFor(M, l, c, gen, s),
         \A n : <<"static", n>> \notin DOMAIN stores, {<<"input">>, <<"step">>, <<"scatter">>} \cap DOMAIN stores = {}
  PROVE  StepFor(stores ++ M, l, c, gen, s)
BY StaticKept, InputsKept DEF StepFor

LEMMA TextKept ==
  ASSUME NEW M, NEW stores, NEW gen, NEW h, NEW s, TextWritten(M, gen, h, s),
         StepOut(h) \in DOMAIN stores => stores[StepOut(h)] = OwnText(gen, h, s)
  PROVE  TextWritten(stores ++ M, gen, h, s)
BY DEF TextWritten, ++

LEMMA GenIssue ==
  ASSUME Generating, stage \in {"prefill", "decode"}, StreamInv, NEW b, Issue(b)
  PROVE  Generating'
<1>1. call' = call /\ stage' = stage /\ queue' = queue /\ done' = done /\ mem' = mem /\ text' = text
      /\ b \in GridOf(queue[1]) /\ resident' = resident ++ Entry(b, [j |-> 0, st |-> Begin(queue[1], b)]) /\ b \notin DOMAIN resident
      /\ queue # <<>>
  BY DEF Issue
<1>2. ASSUME text.step > call.qlen, Running(text.step - 1) PROVE Running(text.step - 1)'
  <2> DEFINE l == queue[1]
             s == text.step - 1
  <2>1. s \in Nat /\ call.heads \in Positive /\ StepFor(mem, l, call, text.gen, s)
    BY <1>2, StepBounds DEF Running
  <2>2. b \in Grid(l)
    BY <1>1, <2>1, StepLaunchFacts
  <2>3. StepProgress(l, text.gen, s, b, [j |-> 0, st |-> Begin(l, b)])
    BY <2>1, <2>2, StepBegins
  <2>4. \A x \in DOMAIN resident' : StepProgress(l, text.gen, s, x, resident'[x])
    <3> TAKE x \in DOMAIN resident'
    <3>1. CASE x \in DOMAIN resident
      <4>1. resident'[x] = resident[x]
        BY <1>1, <3>1 DEF ++, Entry
      <4> QED
        BY <1>2, <3>1, <4>1 DEF Running
    <3>2. CASE x \notin DOMAIN resident
      <4>1. x = b /\ resident'[x] = [j |-> 0, st |-> Begin(l, b)]
        BY <1>1, <3>2 DEF ++, Entry
      <4> QED
        BY <2>3, <4>1
    <3> QED
      BY <3>1, <3>2
  <2> QED
    BY <1>1, <1>2, <2>4 DEF Running
<1>3. ASSUME Scattering(text.step - 1) PROVE Scattering(text.step - 1)'
  BY <1>1, <1>3 DEF Scattering
<1> QED
  BY <1>1, <1>2, <1>3 DEF Generating, Stepped

LEMMA GenIterate ==
  ASSUME Generating, stage \in {"prefill", "decode"}, StreamInv, NEW b, Iterate(b), queue # <<>>
  PROVE  Generating'
<1> DEFINE l == queue[1]
           e == resident[b]
           stores == RoundStores(l, b, Round(l, b, e.st, e.j), e.j)
<1>1. call' = call /\ stage' = stage /\ queue' = queue /\ done' = done /\ text' = text /\ b \in DOMAIN resident /\ e.j < Rounds(l, b)
      /\ resident' = [resident EXCEPT ![b] = [j |-> e.j + 1, st |-> Round(l, b, e.st, e.j)]]
      /\ mem' = stores ++ mem
  BY DEF Iterate
<1>2. stores = <<>>
  <2>1. CASE queue = <<GptLaunch(call)>>
    BY <2>1, GptStores
  <2>2. CASE Scattering(text.step - 1)
    <3>1. l = ScatterLaunch
      BY <2>2 DEF Scattering
    <3> QED
      BY <3>1, ScatterFacts
  <2>3. CASE Running(text.step - 1)
    BY <2>3, RunningFacts DEF Running
  <2> QED
    BY <2>1, <2>2, <2>3, GenQueue
<1>3. /\ \A n : <<"static", n>> \notin DOMAIN stores
      /\ {<<"input">>, <<"step">>, <<"scatter">>} \cap DOMAIN stores = {}
      /\ \A h : StepOut(h) \notin DOMAIN stores
  BY <1>2
<1> HIDE DEF stores
<1>4. \A gen, m : StaticHolds(mem, gen, m) => StaticHolds(mem', gen, m)
  BY <1>1, <1>3, StaticKept
<1>5. \A gen, s : Inputs(mem, gen, s) => Inputs(mem', gen, s)
  BY <1>1, <1>3, InputsKept
<1>6. \A gen, h, s : TextWritten(mem, gen, h, s) => TextWritten(mem', gen, h, s)
  BY <1>1, <1>3, TextKept
<1>7. ASSUME text.step > call.qlen, Running(text.step - 1) PROVE Running(text.step - 1)'
  <2> DEFINE s == text.step - 1
  <2>1. s \in Nat /\ call.heads \in Positive /\ StepFor(mem, l, call, text.gen, s) /\ TextFinite(text.gen, call, s)
    BY <1>7, StepBounds DEF Running
  <2>2. GridOf(l) = Grid(l) /\ Rounds(l, b) = TileCount(l, b[1])
    BY <2>1, StepLaunchFacts
  <2>3. b \in Grid(l)
    BY <1>1, <2>2 DEF StreamInv
  <2>4. StepProgress(l, text.gen, s, b, e) /\ e.j < TileCount(l, 0)
    <3>1. StepProgress(l, text.gen, s, b, e)
      BY <1>1, <1>7 DEF Running
    <3> HIDE DEF l, s, e
    <3>2. b[1] = 0
      BY <2>1, <2>3, StepBlock
    <3> QED
      BY <1>1, <2>2, <3>1, <3>2
  <2> HIDE DEF e, l, s
  <2>5. StepProgress(l, text.gen, s, b, [j |-> e.j + 1, st |-> Round(l, b, e.st, e.j)])
    BY <2>1, <2>3, <2>4, StepRounds
  <2>6. ASSUME NEW x \in DOMAIN resident' PROVE StepProgress(l, text.gen, s, x, resident'[x])
    <3>1. DOMAIN resident' = DOMAIN resident
      BY <1>1
    <3>2. CASE x = b
      <4>1. resident'[x] = [j |-> e.j + 1, st |-> Round(l, b, e.st, e.j)]
        BY <1>1, <3>2
      <4> QED
        BY <2>5, <3>2, <4>1
    <3>3. CASE x # b
      <4>1. resident'[x] = resident[x]
        BY <1>1, <3>1, <3>3
      <4> QED
        BY <1>7, <3>1, <4>1 DEF Running, l, s
    <3> QED
      BY <3>2, <3>3
  <2>7. StepFor(mem', l, call, text.gen, s)
    BY <1>1, <1>3, <2>1, StepForKept
  <2> QED
    BY <1>1, <1>6, <1>7, <2>6, <2>7 DEF Running, l, s
<1>8. ASSUME Scattering(text.step - 1) PROVE Scattering(text.step - 1)'
  BY <1>1, <1>4, <1>5, <1>8 DEF Scattering
<1> QED
  BY <1>1, <1>4, <1>7, <1>8 DEF Generating, Stepped

LEMMA StaticMore ==
  ASSUME NEW M, NEW gen, NEW s \in Nat, StaticHolds(M, gen, s),
         <<"static", s>> \in DOMAIN M, M[<<"static", s>>] = Text(gen, s, s)
  PROVE  StaticHolds(M, gen, s + 1)
<1>1. \A n \in 0 .. s + 1 - 1 : n \in 0 .. s - 1 \/ n = s
  OBVIOUS
<1>2. \A n \in 0 .. s - 1 : <<"static", n>> \in DOMAIN M /\ M[<<"static", n>>] = Text(gen, n, n)
  BY DEF StaticHolds
<1> SUFFICES ASSUME NEW n \in 0 .. (s + 1) - 1
             PROVE  <<"static", n>> \in DOMAIN M /\ M[<<"static", n>>] = Text(gen, n, n)
  BY DEF StaticHolds
<1>3. CASE n = s
  BY <1>3
<1>4. CASE n # s
  BY <1>2, <1>4
<1> QED
  BY <1>3, <1>4

LEMMA GenRetire ==
  ASSUME Generating, stage \in {"prefill", "decode"}, StreamInv, NEW b, Retire(b), queue # <<>>
  PROVE  Generating'
<1> DEFINE l == queue[1]
           e == resident[b]
           stores == LastStores(l, b, e.st)
           s == text.step - 1
<1>1. call' = call /\ stage' = stage /\ queue' = queue /\ done' = done \cup {b} /\ text' = text /\ b \in DOMAIN resident
      /\ e.j = Rounds(l, b) /\ resident' = [c \in DOMAIN resident \ {b} |-> resident[c]] /\ mem' = stores ++ mem
  BY DEF Retire
<1>2. ASSUME stores = FmhaStore(l, b, e.st)
      PROVE  /\ \A n : <<"static", n>> \notin DOMAIN stores
             /\ {<<"input">>, <<"step">>, <<"scatter">>} \cap DOMAIN stores = {}
             /\ \A gen, m : StaticHolds(mem, gen, m) => StaticHolds(mem', gen, m)
  <2>1. /\ \A n : <<"static", n>> \notin DOMAIN stores
        /\ {<<"input">>, <<"step">>, <<"scatter">>} \cap DOMAIN stores = {}
    BY <1>2, RowsApart
  <2> HIDE DEF stores
  <2>2. \A gen, m : StaticHolds(mem, gen, m) => StaticHolds(mem', gen, m)
    BY <1>1, <2>1, StaticKept
  <2> QED
    BY <2>1, <2>2
<1>3. CASE queue = <<GptLaunch(call)>> /\ stage = "prefill"
  <2>1. stores = FmhaStore(l, b, e.st)
    BY <1>3, GptStores
  <2> QED
    BY <1>1, <1>2, <1>3, <2>1 DEF Generating
<1>4. CASE Scattering(s) /\ stage = "decode"
  <2>1. text.step > call.qlen
    <3>1. queue # <<>>
      OBVIOUS
    <3> QED
      BY <1>4, <3>1 DEF Generating
  <2>2. s \in Nat
    BY <2>1, StepBounds
  <2>3. Inputs(mem, text.gen, s) /\ StaticHolds(mem, text.gen, s)
    BY <1>4 DEF Scattering
  <2>4. stores = Entry(<<"static", s>>, Text(text.gen, s, s))
    <3>1. l = ScatterLaunch
      BY <1>4 DEF Scattering
    <3>2. stores = ScatterStore(mem)
      BY <3>1, ScatterFacts
    <3> HIDE DEF stores
    <3> QED
      BY <2>3, <3>2 DEF ScatterStore, CurrentRow, Inputs
  <2>5. DOMAIN stores = {<<"static", s>>} /\ stores[<<"static", s>>] = Text(text.gen, s, s)
    BY <2>4 DEF Entry
  <2> HIDE DEF stores, s
  <2>6. {<<"input">>, <<"step">>, <<"scatter">>} \cap DOMAIN stores = {}
    BY <2>5
  <2>7. Inputs(mem', text.gen, s)
    BY <1>1, <2>3, <2>6, InputsKept
  <2>8. \A n : <<"static", n>> \in DOMAIN stores => stores[<<"static", n>>] = Text(text.gen, n, n)
    BY <2>5
  <2>9. StaticHolds(mem', text.gen, s)
    BY <1>1, <2>3, <2>8, StaticKept
  <2>10. StaticHolds(mem', text.gen, s + 1)
    <3>1. <<"static", s>> \in DOMAIN mem' /\ mem'[<<"static", s>>] = Text(text.gen, s, s)
      BY <1>1, <2>5 DEF ++
    <3> QED
      BY <2>2, <2>9, <3>1, StaticMore
  <2>11. Scattering(s)'
    BY <1>1, <1>4, <2>7, <2>9, <2>10 DEF Scattering, s
  <2> QED
    BY <1>1, <1>4, <2>1, <2>11 DEF Generating, Scattering, s
<1>5. CASE Running(s) /\ stage = "decode"
  <2>1. text.step > call.qlen
    BY <1>5 DEF Generating
  <2>2. s \in Nat /\ call.heads \in Positive /\ StepFor(mem, l, call, text.gen, s) /\ TextFinite(text.gen, call, s)
    BY <1>5, <2>1, StepBounds DEF Running
  <2>3. GridOf(l) = Grid(l) /\ Rounds(l, b) = TileCount(l, b[1])
    BY <2>2, StepLaunchFacts
  <2>4. b \in Grid(l)
    BY <1>1, <2>3 DEF StreamInv
  <2>5. stores = FmhaStore(l, b, e.st)
    BY <2>2, RunningFacts
  <2>6. /\ \A n : <<"static", n>> \notin DOMAIN stores
        /\ {<<"input">>, <<"step">>, <<"scatter">>} \cap DOMAIN stores = {}
        /\ \A gen, m : StaticHolds(mem, gen, m) => StaticHolds(mem', gen, m)
    BY <1>2, <2>5
  <2>7. StepProgress(l, text.gen, s, b, e)
    BY <1>1, <1>5 DEF Running
  <2>8. \A h \in 0 .. call.heads - 1 : TextWritten(mem, text.gen, h, s) <=> TextWritten(mem, text.gen, h, s)
    OBVIOUS
  <2>9. \A x \in DOMAIN resident' : StepProgress(l, text.gen, s, x, resident'[x])
    BY <1>1, <1>5 DEF Running
  <2>10. \A z \in done : TextWritten(mem, text.gen, HeadOf(l, z), s)
    BY <1>5 DEF Running
  <2> DEFINE gen == text.gen
  <2> HIDE DEF e, l, s, gen
  <2>11. e.j = TileCount(l, 0)
    <3>1. b[1] = 0
      BY <2>2, <2>4, StepBlock
    <3> QED
      BY <1>1, <2>3, <3>1
  <2>12. /\ \A h : StepOut(h) \in DOMAIN stores <=> h = HeadOf(l, b)
         /\ stores[StepOut(HeadOf(l, b))] = OwnText(text.gen, HeadOf(l, b), s)
    BY <2>2, <2>4, <2>7, <2>11, StepStores
  <2> HIDE DEF stores
  <2>13. \A h : TextWritten(mem, text.gen, h, s) => TextWritten(mem', text.gen, h, s)
    BY <1>1, <2>12, TextKept
  <2>14. TextWritten(mem', text.gen, HeadOf(l, b), s)
    BY <1>1, <2>12 DEF TextWritten, ++
  <2>15. StepFor(mem', l, call, text.gen, s)
    BY <1>1, <2>2, <2>6, StepForKept
  <2>16. \A z \in done' : TextWritten(mem', text.gen, HeadOf(l, z), s)
    BY <1>1, <2>10, <2>13, <2>14
  <2>17. Running(s)'
    BY <1>1, <1>5, <2>9, <2>15, <2>16 DEF Running, l, s
  <2> QED
    BY <1>1, <1>5, <2>1, <2>6, <2>17 DEF Generating, s
<1> QED
  BY <1>3, <1>4, <1>5, GenQueue DEF Generating, Stepped

LEMMA GenNextLaunch ==
  ASSUME Generating, stage \in {"prefill", "decode"}, StreamInv, NextLaunch
  PROVE  Generating'
<1> DEFINE l == queue[1]
           s == text.step - 1
<1>1. call' = call /\ stage' = stage /\ queue' = Tail(queue) /\ done' = {} /\ text' = text /\ queue # <<>>
      /\ done = GridOf(l) /\ resident' = resident /\ mem' = mem
  BY DEF NextLaunch
<1>2. DOMAIN resident' = {}
  BY <1>1 DEF StreamInv
<1>3. CASE queue = <<GptLaunch(call)>> /\ stage = "prefill"
  <2>1. queue' = <<>> /\ queue # <<ScatterLaunch, ReplayLaunch(call)>>
    BY <1>1, <1>3
  <2> QED
    BY <1>1, <1>3, <2>1 DEF Generating
<1>4. CASE Scattering(s) /\ stage = "decode"
  <2>1. text.step > call.qlen
    BY <1>1, <1>4 DEF Generating
  <2>2. s \in Nat /\ s + 1 = text.step /\ s < StaticLen /\ call.graph
    BY <1>4, <2>1, StepBounds DEF Scattering
  <2>3. queue = <<ScatterLaunch, ReplayLaunch(call)>> /\ queue' = <<ReplayLaunch(call)>>
    BY <1>1, <1>4 DEF Scattering
  <2>4. done = {0}
    BY <1>1, <2>3, ScatterFacts
  <2>5. StaticHolds(mem, text.gen, s + 1) /\ Inputs(mem, text.gen, s)
    BY <1>4, <2>4 DEF Scattering
  <2>6. ReplayLaunch(call).kernel = "graph_step"
    BY DEF ReplayLaunch, StepLaunch
  <2>7. StepFor(mem, ReplayLaunch(call), call, text.gen, s)
    BY <2>2, <2>5, <2>6 DEF StepFor
  <2>8. queue' # <<ScatterLaunch, ReplayLaunch(call)>>
    BY <2>3
  <2> HIDE DEF s, l
  <2>9. Running(s)'
    BY <1>1, <1>2, <2>3, <2>7 DEF Running, s
  <2> QED
    BY <1>1, <1>4, <2>1, <2>2, <2>5, <2>8, <2>9 DEF Generating, s
<1>5. CASE Running(s) /\ stage = "decode"
  <2>1. text.step > call.qlen
    BY <1>1, <1>5 DEF Generating
  <2>2. s \in Nat /\ call.heads \in Positive /\ StepFor(mem, l, call, text.gen, s)
    BY <1>5, <2>1, StepBounds DEF Running
  <2>3. GridOf(l) = Grid(l)
    BY <2>2, StepLaunchFacts
  <2>4. queue = <<l>> /\ queue' = <<>>
    BY <1>1, <1>5 DEF Running
  <2>5. \A h \in 0 .. call.heads - 1 : TextWritten(mem, text.gen, h, s)
    <3> TAKE h \in 0 .. call.heads - 1
    <3>1. \A z \in done : TextWritten(mem, text.gen, HeadOf(l, z), s)
      BY <1>5 DEF Running
    <3> DEFINE gen == text.gen
    <3> HIDE DEF l, s, gen
    <3>2. StepFor(mem, l, call, gen, s)
      BY <2>2 DEF gen
    <3>3. PICK z \in Grid(l) : HeadOf(l, z) = h
      BY <2>2, <3>2, HeadHasBlock
    <3> QED
      BY <1>1, <2>3, <3>1, <3>3 DEF l
  <2>6. queue # <<ScatterLaunch, ReplayLaunch(call)>> /\ queue' # <<ScatterLaunch, ReplayLaunch(call)>>
    BY <2>4
  <2>7. Stepped(s)'
    BY <1>1, <2>4, <2>5 DEF Stepped
  <2> QED
    BY <1>1, <1>5, <2>1, <2>6, <2>7 DEF Generating
<1> QED
  BY <1>1, <1>3, <1>4, <1>5, GenQueue DEF Generating, Stepped
-----------------------------------------------------------------------------
(* The host's steps of a generation *)

LEMMA TextOfMore ==
  ASSUME NEW gen, NEW m \in Nat
  PROVE  Len(TextOf(gen, m)) = m /\ Append(TextOf(gen, m), Text(gen, m, m)) = TextOf(gen, m + 1)
<1> DEFINE a == TextOf(gen, m)
           x == Text(gen, m, m)
           z == TextOf(gen, m + 1)
<1>1. a = [i \in 1 .. m |-> Text(gen, i - 1, i - 1)] /\ z = [i \in 1 .. m + 1 |-> Text(gen, i - 1, i - 1)]
  BY DEF TextOf
<1> DEFINE U == {Text(gen, i - 1, i - 1) : i \in 1 .. m + 1}
<1>2. x \in U /\ \A i \in 1 .. m + 1 : Text(gen, i - 1, i - 1) \in U
  <2>1. m + 1 \in 1 .. m + 1 /\ m + 1 - 1 = m
    OBVIOUS
  <2> QED
    BY <2>1
<1>3. a \in Seq(U) /\ z \in Seq(U)
  <2> HIDE DEF U
  <2>1. \A i \in 1 .. m : i \in 1 .. m + 1
    OBVIOUS
  <2> QED
    BY <1>1, <1>2, <2>1
<1>4. Len(a) = m /\ Len(z) = m + 1
  BY <1>1
<1>5. \A i \in 1 .. m : a[i] = z[i]
  BY <1>1
<1>6. z[m + 1] = x
  BY <1>1
<1> HIDE DEF a, x, z, U
<1>7. Append(a, x) \in Seq(U) /\ Len(Append(a, x)) = m + 1
      /\ \A i \in 1 .. m + 1 : Append(a, x)[i] = IF i = m + 1 THEN x ELSE a[i]
  BY <1>2, <1>3, <1>4, AppendProperties
<1>8. \A i \in 1 .. m + 1 : Append(a, x)[i] = z[i]
  BY <1>5, <1>6, <1>7
<1>9. Append(a, x) = z
  BY <1>3, <1>4, <1>7, <1>8, SeqEqual
<1> QED
  BY <1>4, <1>9 DEF a, x, z

LEMMA InputsSet ==
  ASSUME NEW s, NEW M
  PROVE  /\ Inputs(SetInputs(s) ++ M, text.gen, s)
         /\ \A gen, m : StaticHolds(M, gen, m) => StaticHolds(SetInputs(s) ++ M, gen, m)
<1> DEFINE i == Entry(<<"input">>, <<text.gen, s>>)
           p == Entry(<<"step">>, s)
           q == Entry(<<"scatter">>, s)
           stores == SetInputs(s)
<1>1. stores = i ++ p ++ q
  BY DEF SetInputs
<1>2. DOMAIN i = {<<"input">>} /\ DOMAIN p = {<<"step">>} /\ DOMAIN q = {<<"scatter">>}
      /\ i[<<"input">>] = <<text.gen, s>> /\ p[<<"step">>] = s /\ q[<<"scatter">>] = s
  BY DEF Entry
<1>3. <<"input">> # <<"step">> /\ <<"input">> # <<"scatter">> /\ <<"step">> # <<"scatter">>
  OBVIOUS
<1> HIDE DEF i, p, q
<1>4. /\ DOMAIN stores = {<<"input">>, <<"step">>, <<"scatter">>}
      /\ stores[<<"input">>] = <<text.gen, s>> /\ stores[<<"step">>] = s /\ stores[<<"scatter">>] = s
  BY <1>1, <1>2, <1>3 DEF ++
<1> HIDE DEF stores
<1>5. Inputs(stores ++ M, text.gen, s)
  BY <1>4 DEF Inputs, ++
<1>6. \A n : <<"static", n>> \notin DOMAIN stores
  BY <1>4
<1>7. \A gen, m : StaticHolds(M, gen, m) => StaticHolds(stores ++ M, gen, m)
  BY <1>6, StaticKept
<1> QED
  BY <1>5, <1>7 DEF stores

LEMMA GenMake ==
  ASSUME HostInv, TextInv, NEW c \in Calls, Generate(c)
  PROVE  Generating'
<1> DEFINE gen == text.gen + 1
<1>1. c.kind = "generate" /\ queue = <<>> /\ call' = c /\ queue' = <<GptLaunch(c)>> /\ stage' = "prefill"
      /\ text' = [gen |-> gen, step |-> c.qlen, past |-> [i \in 1 .. c.qlen |-> Text(gen, i - 1, i - 1)]]
      /\ mem' = (IF c.graph THEN [a \in {"static"} \X (0 .. c.qlen - 1) |-> text'.past[a[2] + 1]] ELSE <<>>) ++ Cache
  BY DEF Generate, Make, Submit
<1>2. \A s \in 0 .. c.qlen + c.new - 1 : TextFinite(gen, c, s)
  BY <1>1, HostMake DEF Generate
<1>3. c.qlen \in Nat /\ c.new \in Nat /\ c.new > 0 /\ c.graph \in BOOLEAN
  BY <1>1, GenFacts DEF Positive
<1>4. text'.gen = gen /\ text'.step = c.qlen /\ text'.past = TextOf(gen, c.qlen)
  BY <1>1 DEF TextOf
<1>5. c.qlen \in c.qlen .. c.qlen + c.new - 1
  BY <1>3
<1> DEFINE static == [a \in {"static"} \X (0 .. c.qlen - 1) |-> text'.past[a[2] + 1]]
<1>6. ASSUME c.graph PROVE StaticHolds(mem', gen, c.qlen)
  <2>1. mem' = static ++ Cache
    BY <1>1, <1>6
  <2>2. ASSUME NEW n \in 0 .. c.qlen - 1 PROVE <<"static", n>> \in DOMAIN static /\ static[<<"static", n>>] = Text(gen, n, n)
    <3>1. n + 1 \in 1 .. c.qlen /\ n + 1 - 1 = n
      BY <1>3
    <3>2. text'.past[n + 1] = Text(gen, n, n)
      BY <1>4, <3>1 DEF TextOf
    <3>3. <<"static", n>> \in {"static"} \X (0 .. c.qlen - 1)
      OBVIOUS
    <3> QED
      BY <3>2, <3>3
  <2> HIDE DEF static
  <2>3. ASSUME NEW n \in 0 .. c.qlen - 1 PROVE <<"static", n>> \in DOMAIN mem' /\ mem'[<<"static", n>>] = Text(gen, n, n)
    BY <2>1, <2>2 DEF ++
  <2> QED
    BY <2>3 DEF StaticHolds
<1> HIDE DEF gen
<1>7. stage' = "prefill" /\ stage' # "decode"
  BY <1>1
<1> QED
  BY <1>1, <1>2, <1>4, <1>5, <1>6, <1>7 DEF Generating

LEMMA GenBegin ==
  ASSUME Generating, BeginDecoding
  PROVE  Generating'
<1>1. stage = "prefill" /\ queue = <<>> /\ queue' = queue /\ call' = call /\ text' = text /\ stage' = "decode"
      /\ mem' = (IF call.graph THEN SetInputs(text.step) ++ mem ELSE mem)
  BY DEF BeginDecoding
<1>2. queue # <<ScatterLaunch, ReplayLaunch(call)>>
  BY <1>1
<1>3. call.graph => StaticHolds(mem', text.gen, text.step)
  BY <1>1, <1>2, InputsSet DEF Generating
<1>4. text.step = call.qlen
  BY <1>1 DEF Generating
<1> QED
  BY <1>1, <1>2, <1>3, <1>4 DEF Generating

\* What a further step starts from.
LEMMA MoreFacts ==
  ASSUME Generating, More
  PROVE  /\ text.step \in Nat /\ text.step + 1 \in call.qlen .. call.qlen + call.new - 1 /\ text.step + 1 > call.qlen
         /\ text.step + 1 - 1 = text.step
         /\ call.graph => StaticHolds(mem, text.gen, text.step)
<1>1. stage = "decode" /\ queue = <<>> /\ text.step < call.qlen + call.new - 1
  BY DEF More
<1>2. call.qlen \in Nat /\ call.new \in Nat
  BY GenFacts DEF Positive, Generating
<1>3. text.step \in call.qlen .. call.qlen + call.new - 1
  BY DEF Generating
<1>4. queue # <<ScatterLaunch, ReplayLaunch(call)>>
  BY <1>1
<1> QED
  BY <1>1, <1>2, <1>3, <1>4 DEF Generating

LEMMA GenReplay ==
  ASSUME Generating, TextInv, StreamInv, Replay
  PROVE  Generating'
<1> DEFINE s == text.step
<1>1. stage = "decode" /\ queue = <<>> /\ call.graph /\ call' = call /\ stage' = stage /\ done' = done
      /\ mem' = SetInputs(s) ++ mem /\ queue' = <<ScatterLaunch, ReplayLaunch(call)>>
      /\ text' = [text EXCEPT !.step = @ + 1]
  BY DEF Replay, More, Submit
<1>2. text'.step = s + 1 /\ text'.gen = text.gen /\ text'.past = text.past
  BY <1>1 DEF TextInv
<1>3. s \in Nat /\ s + 1 \in call.qlen .. call.qlen + call.new - 1 /\ s + 1 > call.qlen /\ s + 1 - 1 = s
      /\ StaticHolds(mem, text.gen, s)
  BY <1>1, MoreFacts DEF Replay
<1>4. Inputs(mem', text.gen, s) /\ StaticHolds(mem', text.gen, s)
  BY <1>1, <1>3, InputsSet
<1>5. done' = {}
  BY <1>1 DEF StreamInv
<1> HIDE DEF s
<1>6. Scattering(text.step - 1)'
  BY <1>1, <1>2, <1>3, <1>4, <1>5 DEF Scattering
<1> QED
  BY <1>1, <1>2, <1>3, <1>6 DEF Generating

LEMMA GenEager ==
  ASSUME Generating, TextInv, StreamInv, EagerStep
  PROVE  Generating'
<1> DEFINE s == text.step
           past == TextOf(text.gen, s + 1)
<1>1. stage = "decode" /\ queue = <<>> /\ ~ call.graph /\ call' = call /\ stage' = stage /\ done' = done /\ resident' = resident /\ mem' = mem
  BY DEF EagerStep, More, Submit
<1>2. s \in Nat /\ s + 1 \in call.qlen .. call.qlen + call.new - 1 /\ s + 1 > call.qlen /\ s + 1 - 1 = s
  BY MoreFacts DEF EagerStep
<1>3. text.past = TextOf(text.gen, s)
  BY <1>1 DEF Generating
<1>4. Append(text.past, Text(text.gen, text.step, Len(text.past))) = past
  <2> DEFINE gen == text.gen
             old == text.past
  <2>1. s \in Nat /\ old = TextOf(gen, s)
    BY <1>2, <1>3
  <2> HIDE DEF gen, old, s
  <2>2. Append(old, Text(gen, s, Len(old))) = TextOf(gen, s + 1)
    BY <2>1, TextOfMore
  <2> QED
    BY <2>2 DEF gen, old, s
<1>5. queue' = <<EagerLaunch(call, past)>> /\ text' = [text EXCEPT !.step = @ + 1, !.past = past]
  BY <1>4 DEF EagerStep, Submit
<1>6. text'.step = s + 1 /\ text'.gen = text.gen /\ text'.past = past
  BY <1>5 DEF TextInv
<1>7. EagerLaunch(call, past).kernel = "eager_step"
  <2> HIDE DEF past
  <2> QED
    BY DEF EagerLaunch, StepLaunch, ++
<1>8. StepFor(mem, EagerLaunch(call, past), call, text.gen, s)
  BY <1>7 DEF StepFor
<1>9. DOMAIN resident' = {} /\ done' = {}
  BY <1>1 DEF StreamInv
<1> HIDE DEF s, past
<1>10. Running(text.step - 1)'
  BY <1>1, <1>2, <1>5, <1>6, <1>8, <1>9 DEF Running
<1>11. (~ call.graph => text.past = TextOf(text.gen, text.step))'
  BY <1>6 DEF past
<1>12. queue' # <<>> /\ queue' # <<ScatterLaunch, ReplayLaunch(call)>>
  BY <1>5
<1> QED
  BY <1>1, <1>2, <1>6, <1>10, <1>11, <1>12 DEF Generating

LEMMA GenStep ==
  ASSUME StreamInv, StageInv, TextInv, HostInv, GenInv, DeviceNext
  PROVE  GenInv'
<1> SUFFICES ASSUME stage' \in {"prefill", "decode"} PROVE Generating'
  BY DEF GenInv
<1>1. ASSUME NEW b, queue # <<>>, Issue(b) \/ Iterate(b) \/ Retire(b) PROVE Generating'
  <2>1. stage' = stage
    BY <1>1 DEF Issue, Iterate, Retire
  <2> QED
    BY <1>1, <2>1, GenIssue, GenIterate, GenRetire DEF GenInv
<1>2. CASE NextLaunch
  <2>1. stage' = stage
    BY <1>2 DEF NextLaunch
  <2> QED
    BY <1>2, <2>1, GenNextLaunch DEF GenInv
<1>3. CASE Backward \/ Return \/ EndDecoding
  BY <1>3 DEF Backward, Return, EndDecoding
<1>4. CASE BeginDecoding
  BY <1>4, GenBegin DEF GenInv, BeginDecoding
<1>5. CASE Replay
  BY <1>5, GenReplay DEF GenInv, Replay, More
<1>6. CASE EagerStep
  BY <1>6, GenEager DEF GenInv, EagerStep, More
<1>7. ASSUME NEW c, Infer(c) \/ Forward(c) \/ Study(c) \/ Gpt(c) \/ Attend(c) \/ Tune(c) \/ Benchmark(c) \/ Elementwise(c)
      PROVE  FALSE
  BY <1>7 DEF Infer, Forward, Study, Gpt, Attend, Tune, Benchmark, Elementwise
<1>8. ASSUME NEW c \in Calls, Generate(c) PROVE Generating'
  BY <1>8, GenMake
<1> QED
  BY <1>1, <1>2, <1>3, <1>4, <1>5, <1>6, <1>7, <1>8 DEF DeviceNext

GenAll == StreamInv /\ StageInv /\ TextInv /\ HostInv /\ GenInv

LEMMA GenInit == Init => GenAll
<1> SUFFICES ASSUME Init PROVE GenAll
  OBVIOUS
<1>1. stage = "idle" /\ queue = <<>> /\ resident = <<>> /\ done = {} /\ text = [gen |-> 0, step |-> 0, past |-> <<>>]
      /\ (todo = <<>> \/ todo \in Programs)
  BY DEF Init, DeviceInit
<1>2. StreamInv /\ StageInv /\ TextInv /\ GenInv
  BY <1>1 DEF StreamInv, StageInv, TextInv, GenInv
<1>3. ASSUME todo \in Programs PROVE HostInv
  <2> DEFINE p == todo
  <2>1. p \in Seq(Calls)
    BY <1>3, DeviceAssumption
  <2> HIDE DEF p
  <2>2. p \in Seq({p[i] : i \in DOMAIN p}) /\ Len(p) \in Nat
    BY <2>1
  <2>3. text.gen = 0 /\ text.gen + Len(p) <= Len(p)
    <3>1. text.gen = 0
      BY <1>1
    <3> QED
      BY <2>2, <3>1
  <2>4. p \in Programs /\ todo = p
    BY <1>3 DEF p
  <2>5. todo \in Seq({p[i] : i \in DOMAIN p}) /\ text.gen \in Nat /\ text.gen + Len(todo) <= Len(p)
    BY <2>2, <2>3, <2>4
  <2> QED
    BY <2>4, <2>5 DEF HostInv
<1> QED
  BY <1>1, <1>2, <1>3 DEF GenAll, HostInv

LEMMA GenNext == GenAll /\ [Next]_vars => GenAll'
<1> SUFFICES ASSUME GenAll, [Next]_vars PROVE GenAll'
  OBVIOUS
<1>1. CASE OnDevice
  BY <1>1, StreamStep, StageStep, TextStep, HostStep, GenStep DEF GenAll, OnDevice
<1>2. CASE OnRanks \/ UNCHANGED vars
  <2>1. UNCHANGED <<todo, call, stage, text, queue, resident, done, mem>>
    BY <1>2 DEF OnRanks, device, stream, vars
  <2>2. StreamInv' /\ StageInv' /\ TextInv' /\ HostInv'
    BY <2>1 DEF GenAll, StreamInv, StageInv, GridOf, TextInv, HostInv
  <2>3. GenInv'
    BY <2>1 DEF GenAll, GenInv, Generating, Scattering, Running, Stepped
  <2> QED
    BY <2>2, <2>3 DEF GenAll
<1> QED
  BY <1>1, <1>2 DEF Next

LEMMA GenMeans == GenAll => GeneratesFromItsOwnText
<1> SUFFICES ASSUME GenAll, stage = "decode", queue = <<>>, text.step > call.qlen, NEW h \in 0 .. call.heads - 1
             PROVE  mem[<<"O", 0, h, 0>>] = OwnText(text.gen, h, text.step - 1)
  BY DEF GeneratesFromItsOwnText
<1>1. Generating
  BY DEF GenAll, GenInv
<1>2. text.step # call.qlen
  BY <1>1, GenFacts DEF Generating, Positive
<1>3. Stepped(text.step - 1)
  BY <1>1, <1>2 DEF Generating, Scattering, Running
<1> QED
  BY <1>3 DEF Stepped, TextWritten, StepOut

\* A generated token attends the text it belongs to, token by token at its own
\* position, eager or replayed, whatever the static buffer holds from before
\* (timed_generate_cutile_raw, timed_generate_cutile_graph).
THEOREM GenerationIsItsOwn == Spec => []GeneratesFromItsOwnText
<1>1. Init => GenAll
  BY GenInit
<1>2. GenAll /\ [Next]_vars => GenAll'
  BY GenNext
<1>3. GenAll => GeneratesFromItsOwnText
  BY GenMeans
<1> QED
  BY <1>1, <1>2, <1>3, PTL DEF Spec

-----------------------------------------------------------------------------
(* The shards *)

\* A rank's share of a weight, and where it goes in its parameter.
Share(w) == RowsIn(w) \div TpSize
Offset(w) == IF w \in {"q", "k", "v"} THEN QkvOffset(w) ELSE IF w \in {"gate", "up"} THEN MergedOffset(w) ELSE 0
Row == {<<"empty">>} \cup (Weights \X Nat)
Names == {"qkv", "o", "gate_up", "down", "embed", "head"}
SizeOf(x) ==
  CASE x = "qkv" -> Share("q") + Share("k") + Share("v")
    [] x = "gate_up" -> Share("gate") + Share("up")
    [] x = "o" -> Share("o")
    [] x = "down" -> Share("down")
    [] OTHER -> Share("embed")

\* The parameters of a rank have their shapes, and hold a weight's share.
Shaped(p) == DOMAIN p = Names /\ \A x \in Names : p[x] \in Seq(Row) /\ Len(p[x]) = SizeOf(x)
Placed(r, p, w) == \A i \in 1 .. Share(w) : p[ParamOf(w)][Offset(w) + i] = <<w, r * Share(w) + i - 1>>

LEMMA Divides ==
  ASSUME NEW n \in Positive, NEW t \in Positive, n % t = 0
  PROVE  n \div t \in Positive /\ n = (n \div t) * t /\ n = t * (n \div t) /\ (n + t - 1) \div t = n \div t
         /\ (n + n) \div t = n \div t + n \div t
<1> DEFINE q == n \div t
<1>1. q \in Nat /\ n = q * t + (n % t)
  BY QuotientOf DEF Positive
<1>2. q * t \in Nat /\ t \in Nat
  BY <1>1, ProductNat DEF Positive
<1>3. n = q * t
  BY <1>1, <1>2
<1> HIDE DEF q
<1>4. q # 0
  BY <1>2, <1>3 DEF Positive
<1>5. (n + t - 1) \div t = q
  <2>1. n + t - 1 \in Nat /\ n + t - 1 = q * t + (t - 1) /\ t - 1 \in 0 .. t - 1
    BY <1>2, <1>3 DEF Positive
  <2> QED
    BY <1>1, <2>1, QuotientIs
<1>6. (n + n) \div t = q + q
  <2>1. (q + q) * t = q * t + q * t
    BY <1>1, <1>2
  <2>2. n + n \in Nat /\ n + n = (q + q) * t + 0 /\ 0 \in 0 .. t - 1 /\ q + q \in Nat
    BY <1>1, <1>2, <1>3, <2>1 DEF Positive
  <2> QED
    BY <2>2, QuotientIs
<1>7. q * t = t * q
  BY <1>1, <1>2
<1> QED
  BY <1>1, <1>3, <1>4, <1>5, <1>6, <1>7 DEF q, Positive

LEMMA TpFacts ==
  TpSize \in Positive /\ TpSize - 1 \in Nat /\ {Heads, HeadsKV, Inter, Vocab} \subseteq Positive
  /\ \A n \in {Heads, HeadsKV, Inter, Vocab} : n % TpSize = 0
BY TpAssumption DEF Positive

LEMMA ShareFacts ==
  ASSUME NEW w \in Weights
  PROVE  /\ Share(w) \in Positive /\ RowsIn(w) = TpSize * Share(w) /\ (RowsIn(w) + TpSize - 1) \div TpSize = Share(w)
         /\ RowsIn(w) \in Nat
<1>1. RowsIn(w) \in {Heads, HeadsKV, Inter, Vocab}
  BY DEF RowsIn
<1>2. RowsIn(w) \in Positive /\ RowsIn(w) % TpSize = 0 /\ TpSize \in Positive
  BY <1>1, TpFacts
<1>3. RowsIn(w) \div TpSize \in Positive /\ RowsIn(w) = TpSize * (RowsIn(w) \div TpSize)
      /\ (RowsIn(w) + TpSize - 1) \div TpSize = RowsIn(w) \div TpSize
  BY <1>2, Divides
<1> QED
  BY <1>2, <1>3 DEF Share, Positive

\* The rows of a weight that are a rank's.
LEMMA RankRows ==
  ASSUME NEW w \in Weights, NEW r \in Ranks
  PROVE  /\ r * Share(w) \in Nat /\ r * Share(w) + Share(w) <= RowsIn(w)
         /\ Narrow(Tensor(w), r * Share(w), Share(w)) \in Seq(Row)
         /\ Len(Narrow(Tensor(w), r * Share(w), Share(w))) = Share(w)
         /\ \A i \in 1 .. Share(w) : Narrow(Tensor(w), r * Share(w), Share(w))[i] = <<w, r * Share(w) + i - 1>>
<1> DEFINE s == Share(w)
           m == r * s
           n == RowsIn(w)
<1>1. s \in Positive /\ n \in Nat /\ n = TpSize * s /\ TpSize \in Nat /\ r \in Nat /\ r + 1 <= TpSize
  BY ShareFacts, TpFacts DEF Ranks, Positive
<1> HIDE DEF s, n
<1>2. m \in Nat /\ m + s <= n
  <2>1. s \in Nat
    BY <1>1 DEF Positive
  <2>2. r * s \in Nat /\ (r + 1) * s = r * s + s /\ (r + 1) * s <= TpSize * s
    BY <1>1, <2>1, ProductNat, ProductMonotone
  <2> QED
    BY <1>1, <2>2
<1> HIDE DEF m
<1>3. Tensor(w) \in Seq(Row) /\ Len(Tensor(w)) = n /\ \A i \in 1 .. n : Tensor(w)[i] = <<w, i - 1>>
  <2>1. Tensor(w) = [i \in 1 .. n |-> <<w, i - 1>>]
    BY DEF Tensor, n
  <2>0. n \in Nat
    BY <1>1
  <2>2. \A i \in 1 .. n : <<w, i - 1>> \in Row
    <3>1. \A i \in 1 .. n : i - 1 \in Nat
      BY <2>0
    <3> QED
      BY <3>1 DEF Row
  <2>3. Tensor(w) \in [1 .. n -> Row]
    BY <2>1, <2>2
  <2> QED
    BY <2>0, <2>1, <2>3
<1>4. SubSeq(Tensor(w), m + 1, m + s) \in Seq(Row) /\ Len(SubSeq(Tensor(w), m + 1, m + s)) = s
      /\ \A i \in 1 .. s : SubSeq(Tensor(w), m + 1, m + s)[i] = Tensor(w)[m + i]
  BY <1>1, <1>2, <1>3, SubSeqProperties DEF Positive
<1>5. \A i \in 1 .. s : m + i \in 1 .. n /\ (m + i) - 1 = m + i - 1
  BY <1>1, <1>2 DEF Positive
<1>6. ASSUME NEW i \in 1 .. s PROVE Tensor(w)[m + i] = <<w, m + i - 1>>
  <2> DEFINE k == m + i
  <2>1. k \in 1 .. n
    BY <1>5
  <2> HIDE DEF k
  <2>2. Tensor(w)[k] = <<w, k - 1>>
    BY <1>3, <2>1
  <2> QED
    BY <1>5, <2>2 DEF k
<1> QED
  BY <1>2, <1>4, <1>6 DEF Narrow, s, m, n

LEMMA ChunkIs ==
  ASSUME NEW w \in Weights, NEW r \in Ranks
  PROVE  Chunk(Tensor(w), r) = Narrow(Tensor(w), r * Share(w), Share(w))
<1>1. Len(Tensor(w)) = RowsIn(w)
  BY ShareFacts DEF Tensor
<1> QED
  BY <1>1, ShareFacts DEF Chunk

LEMMA SizeFacts ==
  /\ \A w \in Weights : Share(w) \in Positive
  /\ Share("q") = Share("o") /\ Share("k") = Share("v") /\ Share("gate") = Share("up") /\ Share("up") = Share("down")
  /\ \A w \in {"embed", "head"} : Share(w) = Share("embed")
  /\ Offset("q") = 0 /\ Offset("k") = Share("q") /\ Offset("v") = Share("q") + Share("k")
  /\ Offset("gate") = 0 /\ Offset("up") = Share("gate")
  /\ \A w \in {"o", "down", "embed", "head"} : Offset(w) = 0
<1>1. /\ Share("q") = Share("o") /\ Share("k") = Share("v") /\ Share("gate") = Share("up") /\ Share("up") = Share("down")
      /\ \A w \in {"embed", "head"} : Share(w) = Share("embed")
  BY DEF Share, RowsIn
<1>2. \A w \in Weights : Share(w) \in Positive
  BY ShareFacts
<1>3. Share("q") = Heads \div TpSize /\ Share("k") = HeadsKV \div TpSize /\ Share("gate") = Inter \div TpSize
  BY DEF Share, RowsIn
<1>4. Offset("q") = 0 /\ Offset("k") = Share("q") /\ Offset("v") = Share("q") + Share("k")
  BY <1>3 DEF Offset, QkvOffset
<1>5. Offset("gate") = 0 /\ Offset("up") = Share("gate")
  BY <1>3 DEF Offset, MergedOffset
<1>6. \A w \in {"o", "down", "embed", "head"} : Offset(w) = 0
  BY DEF Offset
<1> QED
  BY <1>1, <1>2, <1>4, <1>5, <1>6

\* A weight's place is in its parameter, and apart from every other's.
LEMMA Places ==
  ASSUME NEW w \in Weights
  PROVE  /\ ParamOf(w) \in Names /\ Offset(w) \in Nat /\ Offset(w) + Share(w) <= SizeOf(ParamOf(w))
         /\ SizeOf(ParamOf(w)) \in Nat
         /\ \A u \in Weights : u # w /\ ParamOf(u) = ParamOf(w) =>
              Offset(u) + Share(u) <= Offset(w) \/ Offset(w) + Share(w) <= Offset(u)
<1>1. Weights \subseteq {"q", "k", "v", "o", "gate", "up", "down", "embed", "head"}
  BY DEF Weights
<1>2. \A u \in {"q", "k", "v", "o", "gate", "up", "down", "embed"} : Share(u) \in Nat
  BY SizeFacts DEF Positive, Weights
<1>3. ParamOf(w) \in Names
  BY <1>1 DEF ParamOf, Names
<1>4. /\ Offset(w) \in Nat /\ Offset(w) + Share(w) <= SizeOf(ParamOf(w)) /\ SizeOf(ParamOf(w)) \in Nat
  <2>1. CASE w \in {"q", "k", "v"}
    BY <2>1, <1>2, SizeFacts DEF ParamOf, SizeOf
  <2>2. CASE w \in {"gate", "up"}
    BY <2>2, <1>2, SizeFacts DEF ParamOf, SizeOf
  <2>3. CASE w \in {"o", "down", "embed", "head"}
    BY <2>3, <1>2, SizeFacts DEF ParamOf, SizeOf
  <2> QED
    BY <1>1, <2>1, <2>2, <2>3
<1>5. ASSUME NEW u \in Weights, u # w, ParamOf(u) = ParamOf(w)
      PROVE  Offset(u) + Share(u) <= Offset(w) \/ Offset(w) + Share(w) <= Offset(u)
  <2>1. \/ u \in {"q", "k", "v"} /\ w \in {"q", "k", "v"}
        \/ u \in {"gate", "up"} /\ w \in {"gate", "up"}
    BY <1>1, <1>5 DEF ParamOf
  <2>2. CASE u \in {"q", "k", "v"} /\ w \in {"q", "k", "v"}
    BY <2>2, <1>2, <1>5, SizeFacts
  <2>3. CASE u \in {"gate", "up"} /\ w \in {"gate", "up"}
    BY <2>3, <1>2, <1>5, SizeFacts
  <2> QED
    BY <2>1, <2>2, <2>3
<1> QED
  BY <1>3, <1>4, <1>5

\* A rank puts its share of a weight in its place and leaves the others' alone.
LEMMA CopyIs ==
  ASSUME NEW n \in Nat, NEW param \in Seq(Row), Len(param) = n, NEW o \in Nat, NEW part \in Seq(Row), o + Len(part) <= n
  PROVE  /\ CopyInto(param, o, part) \in Seq(Row) /\ Len(CopyInto(param, o, part)) = n
         /\ \A i \in 1 .. Len(part) : CopyInto(param, o, part)[o + i] = part[i]
         /\ \A i \in 1 .. n : (i <= o \/ i > o + Len(part)) => CopyInto(param, o, part)[i] = param[i]
<1> DEFINE m == Len(part)
           new == CopyInto(param, o, part)
<1>1. m \in Nat /\ DOMAIN param = 1 .. n /\ part \in [1 .. m -> Row] /\ param \in [1 .. n -> Row]
  OBVIOUS
<1>2. new = [i \in 1 .. n |-> IF i \in o + 1 .. o + m THEN part[i - o] ELSE param[i]]
  BY <1>1 DEF CopyInto
<1> HIDE DEF m, new
<1>3. \A i \in 1 .. n : i \in o + 1 .. o + m => i - o \in 1 .. m
  BY <1>1
<1>4. new \in [1 .. n -> Row]
  BY <1>1, <1>2, <1>3
<1>5. new \in Seq(Row) /\ Len(new) = n
  BY <1>2, <1>4
<1>6. ASSUME NEW i \in 1 .. m PROVE new[o + i] = part[i]
  <2>1. o + i \in 1 .. n /\ o + i \in o + 1 .. o + m /\ (o + i) - o = i
    BY <1>1 DEF m
  <2> QED
    BY <1>2, <2>1
<1>7. ASSUME NEW i \in 1 .. n, i <= o \/ i > o + m PROVE new[i] = param[i]
  <2>1. i \notin o + 1 .. o + m
    BY <1>1, <1>7
  <2> QED
    BY <1>2, <2>1
<1> QED
  BY <1>5, <1>6, <1>7 DEF new, m

\* What a weight's parameter is after loading it.
LEMMA LoadIs ==
  ASSUME NEW r \in Ranks, NEW p, Shaped(p), NEW w \in Weights
  PROVE  /\ LoadInto(r, p, w) \in Seq(Row) /\ Len(LoadInto(r, p, w)) = SizeOf(ParamOf(w))
         /\ \A i \in 1 .. Share(w) : LoadInto(r, p, w)[Offset(w) + i] = <<w, r * Share(w) + i - 1>>
         /\ \A i \in 1 .. SizeOf(ParamOf(w)) : (i <= Offset(w) \/ i > Offset(w) + Share(w)) =>
              LoadInto(r, p, w)[i] = p[ParamOf(w)][i]
<1> DEFINE part == Narrow(Tensor(w), r * Share(w), Share(w))
           param == p[ParamOf(w)]
           n == SizeOf(ParamOf(w))
<1>1. part \in Seq(Row) /\ Len(part) = Share(w) /\ \A i \in 1 .. Share(w) : part[i] = <<w, r * Share(w) + i - 1>>
  BY RankRows
<1>2. param \in Seq(Row) /\ Len(param) = n /\ n \in Nat /\ Offset(w) \in Nat /\ Offset(w) + Share(w) <= n
  BY Places DEF Shaped
<1>3. Chunk(Tensor(w), r) = part
  BY ChunkIs
<1>4. CASE w \in {"q", "k", "v", "gate", "up"}
  <2>1. LoadInto(r, p, w) = CopyInto(param, Offset(w), part)
    BY <1>3, <1>4 DEF LoadInto, ParamOf, Offset
  <2> DEFINE o == Offset(w)
             s == Share(w)
             new == LoadInto(r, p, w)
  <2>2. part \in Seq(Row) /\ Len(part) = s /\ param \in Seq(Row) /\ Len(param) = n /\ n \in Nat /\ o \in Nat
        /\ o + Len(part) <= n
    BY <1>1, <1>2
  <2>3. new = CopyInto(param, o, part)
    BY <2>1
  <2> HIDE DEF part, param, n, o, s, new
  <2>4. /\ new \in Seq(Row) /\ Len(new) = n
        /\ \A i \in 1 .. s : new[o + i] = part[i]
        /\ \A i \in 1 .. n : (i <= o \/ i > o + s) => new[i] = param[i]
    BY <2>2, <2>3, CopyIs
  <2> QED
    BY <1>1, <2>4 DEF n, param, o, s, new
<1>5. CASE w \in {"o", "down", "embed", "head"}
  <2>1. n = Share(w) /\ Offset(w) = 0 /\ Share(w) \in Nat
    BY <1>5, SizeFacts DEF SizeOf, ParamOf, Positive
  <2>2. LoadInto(r, p, w) = part
    BY <1>2, <1>5, <2>1 DEF LoadInto, OwnShard, ParamOf
  <2> HIDE DEF part, param, n
  <2>3. \A i \in 1 .. n : ~ (i <= 0 \/ i > 0 + Share(w))
    BY <2>1
  <2>4. \A i \in 1 .. Share(w) : 0 + i = i
    BY <2>1
  <2> QED
    BY <1>1, <2>1, <2>2, <2>3, <2>4 DEF n
<1> QED
  BY <1>4, <1>5 DEF Weights

LEMMA WeightLoaded ==
  ASSUME NEW r \in Ranks, NEW p, Shaped(p), NEW w \in Weights
  PROVE  /\ Shaped(LoadWeight(r, p, w)) /\ Placed(r, LoadWeight(r, p, w), w)
         /\ \A u \in Weights : Placed(r, p, u) => Placed(r, LoadWeight(r, p, w), u)
<1> DEFINE new == LoadWeight(r, p, w)
           x == ParamOf(w)
           n == SizeOf(x)
           o == Offset(w)
           s == Share(w)
           m == r * s
<1>1. DOMAIN new = DOMAIN p /\ new[x] = LoadInto(r, p, w) /\ \A y \in Names : y # x => new[y] = p[y]
  BY Places DEF LoadWeight, Shaped
<1>2. /\ new[x] \in Seq(Row) /\ Len(new[x]) = n
      /\ \A i \in 1 .. s : new[x][o + i] = <<w, m + i - 1>>
      /\ \A i \in 1 .. n : (i <= o \/ i > o + s) => new[x][i] = p[x][i]
  BY <1>1, LoadIs
<1>3. Shaped(new)
  BY <1>1, <1>2 DEF Shaped
<1>4. Placed(r, new, w)
  BY <1>2 DEF Placed
<1>5. ASSUME NEW u \in Weights, Placed(r, p, u) PROVE Placed(r, new, u)
  <2> HIDE DEF new
  <2>1. CASE u = w
    BY <1>4, <2>1
  <2>2. CASE ParamOf(u) # x
    <3>1. new[ParamOf(u)] = p[ParamOf(u)]
      BY <1>1, <2>2, Places
    <3> QED
      BY <1>5, <3>1 DEF Placed
  <2>3. CASE ParamOf(u) = x /\ u # w
    <3> SUFFICES ASSUME NEW i \in 1 .. Share(u) PROVE new[x][Offset(u) + i] = p[x][Offset(u) + i]
      BY <1>5, <2>3 DEF Placed
    <3>1. Offset(u) + Share(u) <= o \/ o + s <= Offset(u)
      BY <2>3, Places
    <3>2. {Offset(u), Share(u), o, s, n} \subseteq Nat /\ Offset(u) + Share(u) <= n
      BY <2>3, Places, ShareFacts DEF Positive
    <3>3. Offset(u) + i \in 1 .. n /\ (Offset(u) + i <= o \/ Offset(u) + i > o + s)
      BY <3>1, <3>2
    <3> HIDE DEF x, n, o, s
    <3> QED
      BY <1>2, <3>3
  <2> QED
    BY <2>1, <2>2, <2>3
<1> QED
  BY <1>3, <1>4, <1>5

-----------------------------------------------------------------------------
(* A file of weights *)

\* What holds of no steps, and of one more, holds of all.
Passes(J, n) == 0 \in J /\ \A i \in 1 .. n : i - 1 \in J => i \in J

LEMMA StepByStep ==
  ASSUME NEW n \in Nat, NEW J, Passes(J, n)
  PROVE  \A i \in 0 .. n : i \in J
<1> DEFINE out == {i \in 0 .. n : i \notin J}
<1> SUFFICES ASSUME out # {}  PROVE FALSE
  OBVIOUS
<1>1. out \subseteq Nat
  OBVIOUS
<1>2. PICK i \in out : \A j \in out : i <= j
  BY <1>1, FirstOf
<1>3. i \in 1 .. n /\ i \notin J
  BY <1>2 DEF Passes
<1>4. i - 1 \in 0 .. n /\ ~ (i <= i - 1)
  BY <1>3
<1> QED
  BY <1>2, <1>3, <1>4 DEF Passes

LEMMA LastPosition ==
  ASSUME NEW n \in Nat, NEW s \in SUBSET (1 .. n), s # {}
  PROVE  Max(s) \in s /\ \A j \in s : Max(s) >= j
<1> DEFINE back == {n - i : i \in s}
<1>1. back \subseteq Nat /\ back # {}
  <2>1. \A i \in s : n - i \in Nat
    OBVIOUS
  <2> QED
    BY <2>1
<1>2. PICK m \in back : \A j \in back : m <= j
  BY <1>1, FirstOf
<1>3. PICK i \in s : m = n - i
  BY <1>2
<1>4. \A j \in s : i >= j
  <2> SUFFICES ASSUME NEW j \in s  PROVE i >= j
    OBVIOUS
  <2>1. n - i <= n - j
    BY <1>2, <1>3
  <2> QED
    BY <2>1
<1> QED
  BY <1>4 DEF Max

\* What the weights at the positions s of a file leave in a rank's parameters.
Filled(it, r, p, f, s) == IF s = {} THEN p ELSE LoadWeight(r, it[s \ {Max(s)}], f[Max(s)])

LEMMA FillingExists ==
  ASSUME NEW r, NEW p, NEW f, NEW n \in Nat
  PROVE  \E it : it = [s \in SUBSET (1 .. n) |-> Filled(it, r, p, f, s)]
<1> DEFINE J == {k \in 0 .. n : \E it : \A s \in SUBSET (1 .. k) : it[s] = Filled(it, r, p, f, s)}
<1>1. 0 \in J
  <2> DEFINE none == [s \in {{}} |-> p]
  <2>1. \A s \in SUBSET (1 .. 0) : none[s] = Filled(none, r, p, f, s)
    BY DEF Filled
  <2>2. 0 \in 0 .. n
    OBVIOUS
  <2> HIDE DEF none
  <2> QED
    BY <2>1, <2>2
<1>2. ASSUME NEW k \in 1 .. n, k - 1 \in J  PROVE k \in J
  <2>1. PICK it : \A s \in SUBSET (1 .. (k - 1)) : it[s] = Filled(it, r, p, f, s)
    BY <1>2
  <2>0. k \in Nat
    OBVIOUS
  <2> HIDE DEF J
  <2> DEFINE next == [s \in SUBSET (1 .. k) |-> Filled(it, r, p, f, s)]
  <2>2. ASSUME NEW s \in SUBSET (1 .. k)  PROVE next[s] = Filled(next, r, p, f, s)
    <3>1. CASE s = {}
      BY <3>1 DEF Filled
    <3>2. CASE s # {}
      <4> DEFINE u == s \ {Max(s)}
      <4>1. Max(s) \in s /\ \A j \in s : Max(s) >= j
        BY <2>0, <3>2, LastPosition
      <4>2. u \in SUBSET (1 .. (k - 1)) /\ u \in SUBSET (1 .. k)
        <5>1. \A m \in 1 .. k : \A j \in 1 .. k : m >= j /\ j # m => j \in 1 .. (k - 1)
          BY <2>0
        <5>2. Max(s) \in 1 .. k /\ \A j \in s : j \in 1 .. k
          BY <4>1
        <5> QED
          BY <4>1, <5>1, <5>2
      <4>3. next[u] = it[u]
        BY <2>1, <4>2
      <4> HIDE DEF u
      <4>4. next[s] = Filled(it, r, p, f, s)
        OBVIOUS
      <4> HIDE DEF next
      <4> QED
        BY <4>3, <4>4 DEF Filled, u
    <3> QED
      BY <3>1, <3>2
  <2> HIDE DEF next
  <2> QED
    BY <2>2 DEF J
<1>3. n \in J
  <2> HIDE DEF J
  <2>1. Passes(J, n)
    BY <1>1, <1>2 DEF Passes
  <2> QED
    BY <2>1, StepByStep
<1>4. PICK it : \A s \in SUBSET (1 .. n) : it[s] = Filled(it, r, p, f, s)
  BY <1>3
<1> DEFINE same == [s \in SUBSET (1 .. n) |-> it[s]]
<1>5. ASSUME NEW s \in SUBSET (1 .. n)  PROVE same[s] = Filled(same, r, p, f, s)
  <2>1. s \ {Max(s)} \in SUBSET (1 .. n)
    OBVIOUS
  <2>2. same[s \ {Max(s)}] = it[s \ {Max(s)}] /\ same[s] = it[s]
    BY <2>1
  <2> HIDE DEF same
  <2> QED
    BY <1>4, <2>2 DEF Filled
<1>6. same = [s \in SUBSET (1 .. n) |-> Filled(same, r, p, f, s)]
  <2>1. same = [s \in SUBSET (1 .. n) |-> same[s]]
    OBVIOUS
  <2> HIDE DEF same
  <2> QED
    BY <1>5, <2>1
<1> QED
  BY <1>6

\* Loading a file, weight by weight.
LEMMA FileSteps ==
  ASSUME NEW r, NEW p, NEW f \in Seq(Weights)
  PROVE  \E t : /\ t[0] = p /\ \A i \in 1 .. Len(f) : t[i] = LoadWeight(r, t[i - 1], f[i])
                /\ LoadFile(r, p, f) = t[Len(f)]
<1> DEFINE n == Len(f)
<1>1. n \in Nat /\ DOMAIN f = 1 .. n
  OBVIOUS
<1>2. LoadFile(r, p, f) = (CHOOSE it : it = [s \in SUBSET (1 .. n) |-> Filled(it, r, p, f, s)])[1 .. n]
  <2> HIDE DEF n
  <2> QED
    BY <1>1 DEF LoadFile, FoldLeft, MapThenFoldSet, Filled
<1> HIDE DEF n
<1> DEFINE it == CHOOSE x : x = [s \in SUBSET (1 .. n) |-> Filled(x, r, p, f, s)]
<1>3. it = [s \in SUBSET (1 .. n) |-> Filled(it, r, p, f, s)]
  BY <1>1, FillingExists
<1>4. \A s \in SUBSET (1 .. n) : it[s] = Filled(it, r, p, f, s)
  <2> HIDE DEF it
  <2> QED
    BY <1>3
<1> HIDE DEF it
<1> DEFINE t == [i \in 0 .. n |-> it[1 .. i]]
<1>5. t[0] = p
  <2>1. 1 .. 0 = {} /\ 0 \in 0 .. n
    BY <1>1
  <2> QED
    BY <1>4, <2>1 DEF Filled
<1>6. ASSUME NEW i \in 1 .. n PROVE t[i] = LoadWeight(r, t[i - 1], f[i])
  <2>1. 1 .. i \in SUBSET (1 .. n) /\ i \in 1 .. i /\ i \in 0 .. n /\ i - 1 \in 0 .. n /\ i \in Nat
    BY <1>1
  <2>2. Max(1 .. i) = i
    <3>1. IsMax(i, 1 .. i) /\ 1 .. i \subseteq Int
      BY <2>1 DEF IsMax
    <3> QED
      BY <3>1, MaxIs
  <2>3. (1 .. i) \ {i} = 1 .. (i - 1)
    BY <2>1
  <2>4. it[1 .. i] = LoadWeight(r, it[1 .. (i - 1)], f[i])
    BY <1>4, <2>1, <2>2, <2>3 DEF Filled
  <2> QED
    BY <2>1, <2>4
<1>7. LoadFile(r, p, f) = t[n]
  BY <1>1, <1>2 DEF it
<1> HIDE DEF t
<1> QED
  BY <1>5, <1>6, <1>7 DEF n

\* A file leaves each of its weights in place, and those that were.
LEMMA FileLoaded ==
  ASSUME NEW r \in Ranks, NEW p, Shaped(p), NEW f \in Seq(Weights)
  PROVE  /\ Shaped(LoadFile(r, p, f))
         /\ \A w \in Range(f) : Placed(r, LoadFile(r, p, f), w)
         /\ \A w \in Weights : Placed(r, p, w) => Placed(r, LoadFile(r, p, f), w)
<1> DEFINE n == Len(f)
<1>1. PICK t : t[0] = p /\ (\A i \in 1 .. n : t[i] = LoadWeight(r, t[i - 1], f[i])) /\ LoadFile(r, p, f) = t[n]
  BY FileSteps
<1> DEFINE J == {i \in 0 .. n : /\ Shaped(t[i]) /\ \A j \in 1 .. i : Placed(r, t[i], f[j])
                                /\ \A w \in Weights : Placed(r, p, w) => Placed(r, t[i], w)}
<1>2. n \in Nat /\ (\A i \in 1 .. n : f[i] \in Weights) /\ Range(f) = {f[i] : i \in 1 .. n}
  BY DEF Range
<1> HIDE DEF n
<1>3. 0 \in J
  BY <1>1, <1>2
<1>4. ASSUME NEW i \in 1 .. n, i - 1 \in J PROVE i \in J
  <2>1. Shaped(t[i - 1]) /\ (\A j \in 1 .. i - 1 : Placed(r, t[i - 1], f[j]))
        /\ (\A w \in Weights : Placed(r, p, w) => Placed(r, t[i - 1], w)) /\ i \in 0 .. n
    BY <1>2, <1>4
  <2>2. t[i] = LoadWeight(r, t[i - 1], f[i]) /\ f[i] \in Weights
    BY <1>1, <1>2
  <2>3. /\ Shaped(t[i]) /\ Placed(r, t[i], f[i])
        /\ \A u \in Weights : Placed(r, t[i - 1], u) => Placed(r, t[i], u)
    BY <2>1, <2>2, WeightLoaded
  <2>4. ASSUME NEW j \in 1 .. i PROVE Placed(r, t[i], f[j])
    <3>1. j \in 1 .. n /\ (j = i \/ j \in 1 .. i - 1)
      BY <1>2
    <3> QED
      BY <1>2, <2>1, <2>3, <3>1
  <2> QED
    BY <2>1, <2>3, <2>4
<1>5. n \in J
  <2> HIDE DEF J
  <2>1. Passes(J, n)
    BY <1>3, <1>4 DEF Passes
  <2> QED
    BY <1>2, <2>1, StepByStep
<1> QED
  BY <1>1, <1>2, <1>5

-----------------------------------------------------------------------------
(* What the ranks compute together *)

AllPlaced == \A r \in Ranks : Shaped(params[r]) /\ \A w \in Weights : Placed(r, params[r], w)

LEMMA SameFactor ==
  ASSUME NEW a \in Nat, NEW b \in Nat, NEW c \in Positive, a * c = b * c
  PROVE  a = b
<1>1. ~ (a < b) /\ ~ (b < a)
  <2>1. a * c \in Nat /\ b * c \in Nat
    BY ProductNat DEF Positive
  <2>2. ~ (a * c < b * c) /\ ~ (b * c < a * c)
    BY <2>1
  <2> QED
    BY <2>2, ProductLess
<1> QED
  BY <1>1

\* A row of a weight is on one rank.
LEMMA RowOnRank ==
  ASSUME NEW w \in Weights, NEW n \in 0 .. RowsIn(w) - 1
  PROVE  /\ n \div Share(w) \in Ranks /\ n % Share(w) \in 0 .. Share(w) - 1
         /\ n = (n \div Share(w)) * Share(w) + (n % Share(w))
<1>1. RowsIn(w) = TpSize * Share(w) /\ Share(w) \in Positive /\ TpSize \in Nat
  BY ShareFacts, TpFacts DEF Positive
<1> QED
  BY <1>1, RankOfRow DEF Ranks

LEMMA RankHasRow ==
  ASSUME NEW w \in Weights, NEW r \in Ranks, NEW j \in 0 .. Share(w) - 1
  PROVE  /\ r * Share(w) + j \in 0 .. RowsIn(w) - 1 /\ (r * Share(w) + j) \div Share(w) = r
         /\ (r * Share(w) + j) % Share(w) = j
<1>1. RowsIn(w) = TpSize * Share(w) /\ Share(w) \in Positive /\ TpSize \in Nat
  BY ShareFacts, TpFacts DEF Positive
<1> QED
  BY <1>1, RowOfRank DEF Ranks

\* What a rank holds at a place.
LEMMA HeldIs ==
  ASSUME AllPlaced, NEW r \in Ranks, NEW w \in Weights, NEW j \in 0 .. Share(w) - 1
  PROVE  params[r][ParamOf(w)][Offset(w) + j + 1] = <<w, r * Share(w) + j>>
<1>1. Placed(r, params[r], w)
  BY DEF AllPlaced
<1>2. Share(w) \in Nat /\ Offset(w) \in Nat /\ r * Share(w) \in Nat
  <2>1. Share(w) \in Nat /\ r \in Nat
    BY ShareFacts, TpFacts DEF Positive, Ranks
  <2> QED
    BY <2>1, Places, ProductNat
<1> DEFINE m == r * Share(w)
           o == Offset(w)
<1> HIDE DEF m, o
<1>3. j + 1 \in 1 .. Share(w) /\ m + (j + 1) - 1 = m + j /\ o + (j + 1) = o + j + 1
  BY <1>2 DEF m, o
<1>4. params[r][ParamOf(w)][o + (j + 1)] = <<w, m + (j + 1) - 1>>
  BY <1>1, <1>3 DEF Placed, m, o
<1>5. params[r][ParamOf(w)][o + j + 1] = <<w, m + j>>
  BY <1>3, <1>4
<1> QED
  BY <1>5 DEF m, o

LEMMA EmbedsAll ==
  ASSUME AllPlaced, NEW t \in 0 .. Vocab - 1
  PROVE  EmbeddedAll(t) = {<<"embed", t>>}
<1> DEFINE s == Share("embed")
           z == t \div s
<1>0. "embed" \in Weights /\ RowsIn("embed") = Vocab
  BY DEF Weights, RowsIn
<1>1. z \in Ranks /\ t % s \in 0 .. s - 1 /\ t = z * s + (t % s)
  BY <1>0, RowOnRank
<1>2. s \in Positive /\ s = Vocab \div TpSize
  BY <1>0, SizeFacts DEF Share
<1>3. ASSUME NEW r \in Ranks
      PROVE  Embedded(r, t) = IF r = z THEN {<<"embed", t>>} ELSE {}
  <2> DEFINE m == r * s
             mask == m <= t /\ t < (r + 1) * s
  <2>0. r \in Nat /\ s \in Nat /\ t \in Nat /\ m \in Nat /\ (r + 1) * s = m + s
    BY <1>2, TpFacts, ProductNat DEF Ranks, Positive
  <2>1. mask => r = z
    <3> SUFFICES ASSUME mask PROVE r = z
      OBVIOUS
    <3> DEFINE c == t - m
    <3>1. m <= t /\ t < (r + 1) * s
      OBVIOUS
    <3> HIDE DEF m, s
    <3>2. c \in 0 .. s - 1 /\ t = m + c
      BY <2>0, <3>1
    <3> HIDE DEF c
    <3>3. t = r * s + c
      BY <3>2 DEF m
    <3> QED
      BY <1>2, <2>0, <3>2, <3>3, QuotientIs
  <2>2. r = z => mask /\ t - m \in 0 .. s - 1
    <3> SUFFICES ASSUME r = z PROVE mask /\ t - m \in 0 .. s - 1
      OBVIOUS
    <3> DEFINE c == t % s
    <3>1. c \in 0 .. s - 1 /\ t = m + c
      BY <1>1
    <3> HIDE DEF m, s, c
    <3> QED
      BY <2>0, <3>1
  <2>3. Embedded(r, t) = IF mask THEN {params[r].embed[t - m + 1]} ELSE {}
    BY <1>2 DEF Embedded
  <2>4. ASSUME r = z PROVE params[r].embed[t - m + 1] = <<"embed", t>>
    <3> DEFINE c == t - m
    <3>1. c \in 0 .. s - 1 /\ m + c = t
      BY <2>0, <2>2, <2>4
    <3> HIDE DEF c
    <3>2. params[r][ParamOf("embed")][Offset("embed") + c + 1] = <<"embed", r * Share("embed") + c>>
      BY <1>0, <3>1, HeldIs
    <3>3. ParamOf("embed") = "embed" /\ Offset("embed") = 0
      BY SizeFacts DEF ParamOf
    <3>4. params[r].embed[0 + c + 1] = <<"embed", m + c>>
      BY <3>2, <3>3
    <3>5. 0 + c + 1 = c + 1
      BY <3>1
    <3> QED
      BY <3>1, <3>4, <3>5 DEF c
  <2> HIDE DEF mask, m
  <2> QED
    BY <2>1, <2>2, <2>3, <2>4
<1> HIDE DEF z, s
<1> QED
  BY <1>1, <1>3 DEF EmbeddedAll

LEMMA MlpsAll ==
  ASSUME AllPlaced
  PROVE  UNION {MlpTriples(r) : r \in Ranks} = {<<<<"gate", i>>, <<"up", i>>, <<"down", i>>>> : i \in 0 .. Inter - 1}
<1> DEFINE s == Share("gate")
           Triple(i) == <<<<"gate", i>>, <<"up", i>>, <<"down", i>>>>
<1>1. {"gate", "up", "down"} \subseteq Weights /\ RowsIn("gate") = Inter /\ s = Inter \div TpSize
      /\ Share("up") = s /\ Share("down") = s /\ s \in Nat
  BY SizeFacts, ShareFacts DEF Weights, RowsIn, Share, Positive
<1>2. ASSUME NEW r \in Ranks, NEW j \in 0 .. s - 1
      PROVE  <<params[r].gate_up[j + 1], params[r].gate_up[s + (j + 1)], params[r].down[j + 1]>> = Triple(r * s + j)
  <2>1. params[r][ParamOf("gate")][Offset("gate") + j + 1] = <<"gate", r * s + j>>
    BY <1>1, HeldIs
  <2>2. params[r][ParamOf("up")][Offset("up") + j + 1] = <<"up", r * s + j>>
    BY <1>1, HeldIs
  <2>3. params[r][ParamOf("down")][Offset("down") + j + 1] = <<"down", r * s + j>>
    BY <1>1, HeldIs
  <2>4. ParamOf("gate") = "gate_up" /\ ParamOf("up") = "gate_up" /\ ParamOf("down") = "down"
        /\ Offset("gate") = 0 /\ Offset("up") = s /\ Offset("down") = 0
    BY SizeFacts DEF ParamOf
  <2> HIDE DEF s
  <2>5. 0 + j + 1 = j + 1 /\ s + j + 1 = s + (j + 1)
    BY <1>1
  <2> QED
    BY <2>1, <2>2, <2>3, <2>4, <2>5
<1>3. ASSUME NEW r \in Ranks PROVE MlpTriples(r) = {Triple(r * s + j) : j \in 0 .. s - 1}
  <2>1. MlpTriples(r) = {<<params[r].gate_up[i], params[r].gate_up[s + i], params[r].down[i]>> : i \in 1 .. s}
    BY <1>1 DEF MlpTriples
  <2> HIDE DEF s
  <2>2. (\A i \in 1 .. s : i - 1 \in 0 .. s - 1 /\ (i - 1) + 1 = i) /\ \A j \in 0 .. s - 1 : j + 1 \in 1 .. s
    BY <1>1
  <2>3. ASSUME NEW i \in 1 .. s
        PROVE  <<params[r].gate_up[i], params[r].gate_up[s + i], params[r].down[i]>> = Triple(r * s + (i - 1))
    BY <1>2, <2>2
  <2> HIDE DEF Triple
  <2> QED
    BY <1>2, <2>1, <2>2, <2>3
<1> HIDE DEF s, Triple
<1>4. \A i \in 0 .. Inter - 1 : \E r \in Ranks, j \in 0 .. s - 1 : i = r * s + j
  BY <1>1, RowOnRank DEF s
<1>5. \A r \in Ranks, j \in 0 .. s - 1 : r * s + j \in 0 .. Inter - 1
  BY <1>1, RankHasRow DEF s
<1> QED
  <2>1. UNION {MlpTriples(r) : r \in Ranks} = {Triple(i) : i \in 0 .. Inter - 1}
    BY <1>3, <1>4, <1>5
  <2> QED
    BY <2>1 DEF Triple

\* The heads of a rank come in whole groups.
LEMMA GroupFacts ==
  /\ Heads \div HeadsKV \in Positive
  /\ Share("q") = Share("k") * (Heads \div HeadsKV)
  /\ Share("q") \div Share("k") = Heads \div HeadsKV
<1> DEFINE g == Heads \div HeadsKV
           nh == Share("q")
           nk == Share("k")
<1>0. {Heads, HeadsKV, TpSize} \subseteq Positive /\ Heads % HeadsKV = 0
  BY TpFacts, TpAssumption
<1>1. g \in Positive /\ Heads = g * HeadsKV
  BY <1>0, Divides
<1>2. nh \in Positive /\ nk \in Positive /\ Heads = TpSize * nh /\ HeadsKV = TpSize * nk
  BY ShareFacts DEF Weights, RowsIn
<1> HIDE DEF g, nh, nk
<1>3. nh = nk * g
  <2> DEFINE T == TpSize
  <2>1. {g, nh, nk, T} \subseteq Nat
    BY <1>0, <1>1, <1>2 DEF Positive
  <2>2. T * nh = g * (T * nk)
    BY <1>1, <1>2
  <2> HIDE DEF T
  <2>3. g * (T * nk) = (nk * g) * T /\ T * nh = nh * T
    BY <2>1
  <2>4. nk * g \in Nat
    BY <2>1, ProductNat
  <2>5. nh * T = (nk * g) * T
    BY <2>2, <2>3
  <2> QED
    BY <1>0, <2>1, <2>4, <2>5, SameFactor DEF T
<1>4. nh \div nk = g
  <2>1. g \in Nat /\ nk \in Nat /\ nh \in Nat /\ 0 \in 0 .. nk - 1
    BY <1>1, <1>2 DEF Positive
  <2>2. nh = g * nk + 0
    <3>1. nk * g = g * nk /\ g * nk \in Nat
      BY <2>1, ProductNat
    <3> QED
      BY <1>3, <3>1
  <2> QED
    BY <1>2, <2>1, <2>2, QuotientIs
<1> QED
  BY <1>1, <1>3, <1>4 DEF g, nh, nk

LEMMA HeadsAll ==
  ASSUME AllPlaced
  PROVE  UNION {HeadPairs(r) : r \in Ranks} =
           {<<<<"q", h>>, <<"k", h \div (Heads \div HeadsKV)>>, <<"v", h \div (Heads \div HeadsKV)>>, <<"o", h>>>> :
              h \in 0 .. Heads - 1}
<1> DEFINE g == Heads \div HeadsKV
           nh == Share("q")
           nk == Share("k")
           Four(h) == <<<<"q", h>>, <<"k", h \div g>>, <<"v", h \div g>>, <<"o", h>>>>
<1>1. /\ {"q", "k", "v", "o"} \subseteq Weights /\ RowsIn("q") = Heads
      /\ nh = Heads \div TpSize /\ nk = HeadsKV \div TpSize /\ Share("v") = nk /\ Share("o") = nh
  BY SizeFacts DEF Weights, RowsIn, Share
<1>2. g \in Positive /\ nh = nk * g /\ nh \div nk = g /\ nk \in Positive /\ nh \in Positive
  BY <1>1, GroupFacts, ShareFacts
<1>3. ParamOf("q") = "qkv" /\ ParamOf("k") = "qkv" /\ ParamOf("v") = "qkv" /\ ParamOf("o") = "o"
      /\ Offset("q") = 0 /\ Offset("k") = nh /\ Offset("v") = nh + nk /\ Offset("o") = 0
  BY SizeFacts DEF ParamOf
<1>4. ASSUME NEW r \in Ranks, NEW j \in 0 .. nh - 1
      PROVE  <<params[r].qkv[j + 1], params[r].qkv[nh + (j \div g) + 1], params[r].qkv[nh + nk + (j \div g) + 1],
               params[r].o[j + 1]>> = Four(r * nh + j)
  <2> DEFINE x == j \div g
             y == j % g
  <2>1. x \in 0 .. nk - 1 /\ y \in 0 .. g - 1 /\ j = x * g + y
    <3>1. nk \in Nat /\ j \in 0 .. nk * g - 1
      BY <1>2 DEF Positive
    <3> QED
      BY <1>2, <3>1, RankOfRow
  <2>2. params[r][ParamOf("q")][Offset("q") + j + 1] = <<"q", r * Share("q") + j>>
    BY <1>1, HeldIs
  <2>3. params[r][ParamOf("o")][Offset("o") + j + 1] = <<"o", r * Share("o") + j>>
    BY <1>1, HeldIs
  <2>4. params[r][ParamOf("k")][Offset("k") + x + 1] = <<"k", r * Share("k") + x>>
    BY <1>1, <2>1, HeldIs
  <2>5. params[r][ParamOf("v")][Offset("v") + x + 1] = <<"v", r * Share("v") + x>>
    BY <1>1, <2>1, HeldIs
  <2> HIDE DEF x, y, g, nh, nk
  <2>6. j \in Nat /\ x \in Nat /\ r \in Nat /\ {nk, nh, g} \subseteq Nat
    BY <1>2, <2>1, TpFacts DEF Positive, Ranks
  <2>7. (r * nh + j) \div g = r * nk + x
    <3>1. r * nh = (r * nk) * g
      <4>1. r * (nk * g) = (r * nk) * g
        BY <2>6
      <4> QED
        BY <1>2, <4>1
    <3>2. r * nk \in Nat /\ (r * nk) * g \in Nat /\ x * g \in Nat
      BY <2>6, ProductNat
    <3>3. (r * nk + x) * g = (r * nk) * g + x * g
      <4> DEFINE z == r * nk
      <4>1. z \in Nat
        BY <3>2
      <4> HIDE DEF z
      <4>2. (z + x) * g = z * g + x * g
        BY <2>6, <4>1
      <4> QED
        BY <4>2 DEF z
    <3>4. r * nh + j \in Nat /\ r * nh + j = (r * nk + x) * g + y /\ r * nk + x \in Nat
      BY <2>1, <2>6, <3>1, <3>2, <3>3
    <3> QED
      BY <1>2, <2>1, <3>4, QuotientIs
  <2>8. 0 + j + 1 = j + 1
    BY <2>6
  <2> QED
    BY <1>1, <1>3, <2>2, <2>3, <2>4, <2>5, <2>7, <2>8 DEF x, nh, nk
<1>5. ASSUME NEW r \in Ranks PROVE HeadPairs(r) = {Four(r * nh + j) : j \in 0 .. nh - 1}
  <2> DEFINE At(h) == <<params[r].qkv[h], params[r].qkv[nh + (h - 1) \div g + 1],
                        params[r].qkv[nh + nk + (h - 1) \div g + 1], params[r].o[h]>>
  <2>1. HeadPairs(r) = {At(h) : h \in 1 .. nh}
    BY <1>1, <1>2 DEF HeadPairs
  <2>0. nh \in Nat
    BY <1>2 DEF Positive
  <2> HIDE DEF g, nh, nk, Four
  <2>2. (\A i \in 1 .. nh : i - 1 \in 0 .. nh - 1 /\ (i - 1) + 1 = i) /\ \A j \in 0 .. nh - 1 : j + 1 \in 1 .. nh
    BY <2>0
  <2>3. ASSUME NEW i \in 1 .. nh PROVE At(i) = Four(r * nh + (i - 1))
    BY <1>4, <2>2
  <2> HIDE DEF At
  <2>4. \A j \in 0 .. nh - 1 : (j + 1) - 1 = j
    BY <2>0
  <2>5. \A j \in 0 .. nh - 1 : At(j + 1) = Four(r * nh + j)
    BY <2>2, <2>3, <2>4
  <2> QED
    BY <2>1, <2>2, <2>3, <2>5
<1>6. \A i \in 0 .. Heads - 1 : \E r \in Ranks, j \in 0 .. nh - 1 : i = r * nh + j
  BY <1>1, RowOnRank
<1>7. \A r \in Ranks, j \in 0 .. nh - 1 : r * nh + j \in 0 .. Heads - 1
  BY <1>1, RankHasRow
<1> HIDE DEF nh, Four
<1>8. UNION {HeadPairs(r) : r \in Ranks} = {Four(i) : i \in 0 .. Heads - 1}
  BY <1>5, <1>6, <1>7
<1> QED
  BY <1>8 DEF Four

LEMMA SameSeq ==
  ASSUME NEW S, NEW a \in Seq(S), NEW b \in Seq(S), Len(a) = Len(b), \A i \in 1 .. Len(a) : a[i] = b[i]
  PROVE  a = b
BY SeqEqual

\* t parts of s rows each.
Slices(parts, n, s, t) ==
  /\ parts \in Seq(Seq({n} \X Nat)) /\ Len(parts) = t
  /\ \A i \in 1 .. t : Len(parts[i]) = s /\ \A j \in 1 .. s : parts[i][j] = <<n, (i - 1) * s + (j - 1)>>

\* The ranks' logits, one after the other.
LEMMA FlattenIs ==
  ASSUME NEW n, NEW s \in Nat, NEW t \in Nat \ {0}, NEW parts, Slices(parts, n, s, t)
  PROVE  FlattenSeq(parts) = [k \in 1 .. t * s |-> <<n, k - 1>>]
<1> DEFINE Joined(fl) == [i \in 1 .. t |-> IF i = 1 THEN parts[i] ELSE fl[i - 1] \o parts[i]]
           Whole(i) == [k \in 1 .. i * s |-> <<n, k - 1>>]
           S == {n} \X Nat
<1>0. /\ parts \in Seq(Seq({n} \X Nat)) /\ Len(parts) = t
      /\ \A i \in 1 .. t : Len(parts[i]) = s /\ \A j \in 1 .. s : parts[i][j] = <<n, (i - 1) * s + (j - 1)>>
  BY DEF Slices
<1>1. FlattenSeq(parts) = (CHOOSE fl : fl = Joined(fl))[t]
  BY <1>0 DEF FlattenSeq
<1>2. ASSUME NEW i \in 1 .. t
      PROVE  Whole(i) \in Seq(S) /\ Len(Whole(i)) = i * s
  <2>1. i * s \in Nat /\ \A k \in 1 .. i * s : k - 1 \in Nat
    <3>1. i * s \in Nat
      BY ProductNat
    <3> DEFINE m == i * s
    <3> HIDE DEF m
    <3>2. \A k \in 1 .. m : k - 1 \in Nat
      BY <3>1 DEF m
    <3> QED
      BY <3>1, <3>2 DEF m
  <2> DEFINE m == i * s
  <2> HIDE DEF m
  <2>2. [k \in 1 .. m |-> <<n, k - 1>>] \in Seq(S) /\ Len([k \in 1 .. m |-> <<n, k - 1>>]) = m
    BY <2>1 DEF m
  <2> QED
    BY <2>2 DEF m
<1>3. Whole(1) = parts[1]
  <2>1. 1 \in 1 .. t /\ 1 * s = s
    OBVIOUS
  <2>2. \A j \in 1 .. s : parts[1][j] = <<n, j - 1>>
    <3>1. \A j \in 1 .. s : (1 - 1) * s + (j - 1) = j - 1
      OBVIOUS
    <3> QED
      BY <1>0, <2>1, <3>1
  <2>3. parts[1] \in Seq(S) /\ Len(parts[1]) = s
    BY <1>0, <2>1
  <2>4. Whole(1) \in Seq(S) /\ Len(Whole(1)) = s /\ \A j \in 1 .. s : Whole(1)[j] = <<n, j - 1>>
    BY <1>2, <2>1
  <2> DEFINE a == Whole(1)
             b == parts[1]
  <2>5. a \in Seq(S) /\ b \in Seq(S) /\ Len(a) = s /\ Len(b) = s /\ \A j \in 1 .. s : a[j] = b[j]
    BY <2>2, <2>3, <2>4
  <2> HIDE DEF Whole, S, a, b
  <2>6. a = b
    BY <2>5, SameSeq
  <2> QED
    BY <2>6 DEF a, b
<1>4. ASSUME NEW i \in 2 .. t PROVE Whole(i) = Whole(i - 1) \o parts[i]
  <2> DEFINE m == (i - 1) * s
             a == Whole(i - 1)
             b == parts[i]
             c == Whole(i)
  <2>1. m \in Nat /\ i * s = m + s /\ i - 1 \in 1 .. t /\ i \in 1 .. t
    <3>1. i - 1 \in Nat /\ (i - 1) + 1 = i /\ i - 1 \in 1 .. t /\ i \in 1 .. t
      OBVIOUS
    <3> QED
      BY <3>1, ProductNat
  <2>2. a \in Seq(S) /\ Len(a) = m /\ c \in Seq(S) /\ Len(c) = m + s
    BY <1>2, <2>1
  <2>3. \A k \in 1 .. m : a[k] = <<n, k - 1>>
    OBVIOUS
  <2>4. \A k \in 1 .. m + s : c[k] = <<n, k - 1>>
    BY <2>1
  <2>5. b \in Seq(S) /\ Len(b) = s /\ \A j \in 1 .. s : b[j] = <<n, m + (j - 1)>>
    <3>1. parts[i] \in Seq(S)
      BY <1>0, <2>1
    <3> HIDE DEF S
    <3> QED
      BY <1>0, <2>1, <3>1
  <2> HIDE DEF m, a, b, c, S
  <2>6. /\ a \o b \in Seq(S) /\ Len(a \o b) = m + s
        /\ \A k \in 1 .. m : (a \o b)[k] = a[k]
        /\ \A k \in 1 .. s : (a \o b)[m + k] = b[k]
    <3>1. a \in Seq(S) /\ b \in Seq(S) /\ m \in Nat /\ s \in Nat /\ Len(a) = m /\ Len(b) = s
      BY <2>1, <2>2, <2>5
    <3> QED
      BY <3>1
  <2>9. ASSUME NEW k \in 1 .. m + s PROVE (a \o b)[k] = c[k]
    <3>1. CASE k <= m
      <4>1. k \in 1 .. m
        BY <2>1, <3>1
      <4> QED
        BY <2>3, <2>4, <2>6, <4>1
    <3>2. CASE ~ (k <= m)
      <4> DEFINE j == k - m
      <4>1. j \in 1 .. s /\ m + j = k /\ m + (j - 1) = k - 1
        BY <2>1, <3>2
      <4> HIDE DEF j
      <4>2. (a \o b)[m + j] = <<n, m + (j - 1)>>
        BY <2>5, <2>6, <4>1
      <4> QED
        BY <2>4, <4>1, <4>2
    <3> QED
      BY <3>1, <3>2
  <2>10. a \o b = c
    BY <2>2, <2>6, <2>9, SameSeq
  <2> QED
    BY <2>10 DEF a, b, c
<1> DEFINE all == [i \in 1 .. t |-> Whole(i)]
<1>5. all = Joined(all)
  <2> HIDE DEF Whole
  <2>1. ASSUME NEW i \in 1 .. t PROVE all[i] = IF i = 1 THEN parts[i] ELSE all[i - 1] \o parts[i]
    <3>1. CASE i = 1
      BY <1>3, <3>1
    <3>2. CASE i # 1
      <4>1. i \in 2 .. t /\ i - 1 \in 1 .. t
        BY <3>2
      <4> QED
        BY <1>4, <3>2, <4>1
    <3> QED
      BY <3>1, <3>2
  <2> HIDE DEF all
  <2>2. all = [i \in 1 .. t |-> all[i]]
    BY DEF all
  <2> QED
    BY <2>1, <2>2
<1> DEFINE fl == CHOOSE x : x = Joined(x)
<1>6. fl = Joined(fl)
  <2> HIDE DEF all, Joined
  <2> QED
    BY <1>5
<1> HIDE DEF fl, Whole, all
<1>7. \A i \in 1 .. t : fl[i] = IF i = 1 THEN parts[i] ELSE fl[i - 1] \o parts[i]
  BY <1>6
<1> HIDE DEF Joined
<1> DEFINE J == {i \in 0 .. t : i = 0 \/ fl[i] = Whole(i)}
<1>8. \A i \in 0 .. t : i \in J
  <2>1. 0 \in J
    OBVIOUS
  <2>2. ASSUME NEW i \in 1 .. t, i - 1 \in J PROVE i \in J
    <3>1. CASE i = 1
      BY <1>3, <1>7, <3>1
    <3>2. CASE i # 1
      <4>1. i \in 2 .. t /\ i - 1 # 0 /\ i \in 0 .. t
        BY <3>2
      <4>2. fl[i - 1] = Whole(i - 1)
        BY <2>2, <4>1
      <4>3. fl[i] = fl[i - 1] \o parts[i]
        BY <1>7, <3>2
      <4> QED
        BY <1>4, <4>1, <4>2, <4>3
    <3> QED
      BY <3>1, <3>2
  <2> HIDE DEF J
  <2>3. Passes(J, t)
    BY <2>1, <2>2 DEF Passes
  <2> QED
    BY <2>3, StepByStep
<1>9. fl[t] = Whole(t)
  <2>1. t \in 0 .. t /\ t # 0
    OBVIOUS
  <2> QED
    BY <1>8, <2>1
<1>10. FlattenSeq(parts) = fl[t]
  BY <1>1 DEF fl
<1> QED
  BY <1>9, <1>10 DEF Whole

LEMMA LogitsAll ==
  ASSUME AllPlaced
  PROVE  Logits = [t \in 1 .. Vocab |-> <<IF Tied THEN "embed" ELSE "head", t - 1>>]
<1> DEFINE n == IF Tied THEN "embed" ELSE "head"
           s == Share("embed")
           parts == [i \in 1 .. TpSize |-> HeadParam(i - 1)]
           S == {n} \X Nat
<1>1. n \in Weights /\ n \in Names /\ ParamOf(n) = n /\ Offset(n) = 0 /\ Share(n) = s /\ SizeOf(n) = s /\ RowsIn(n) = Vocab
  BY SizeFacts DEF Weights, Names, ParamOf, SizeOf, RowsIn
<1>2. s \in Nat /\ Vocab = TpSize * s /\ TpSize \in Nat \ {0}
  BY <1>1, ShareFacts, TpFacts DEF Positive
<1>3. ASSUME NEW i \in 1 .. TpSize
      PROVE  /\ parts[i] \in Seq(S) /\ Len(parts[i]) = s
             /\ \A j \in 1 .. s : parts[i][j] = <<n, (i - 1) * s + (j - 1)>>
  <2>1. i - 1 \in Ranks /\ i - 1 \in Nat
    BY <1>2 DEF Ranks
  <2> DEFINE r == i - 1
             q == HeadParam(r)
  <2>2. q = params[r][n] /\ parts[i] = q
    BY DEF HeadParam
  <2> HIDE DEF n, s, r, q, parts
  <2>3. r \in Ranks /\ r \in Nat
    BY <2>1 DEF r
  <2>4. q \in Seq(Row) /\ Len(q) = s
    BY <1>1, <2>2, <2>3 DEF AllPlaced, Shaped
  <2>5. ASSUME NEW j \in 1 .. s PROVE q[j] = <<n, r * s + (j - 1)>>
    <3>1. j - 1 \in 0 .. s - 1 /\ 0 + (j - 1) + 1 = j
      BY <1>2
    <3>2. params[r][ParamOf(n)][Offset(n) + (j - 1) + 1] = <<n, r * Share(n) + (j - 1)>>
      BY <1>1, <2>3, <3>1, HeldIs
    <3> QED
      BY <1>1, <2>2, <3>1, <3>2
  <2>6. \A j \in 1 .. s : q[j] \in S
    <3>1. r * s \in Nat
      BY <1>2, <2>3, ProductNat
    <3> DEFINE m == r * s
    <3> HIDE DEF m
    <3>2. \A j \in 1 .. s : m + (j - 1) \in Nat
      BY <1>2, <3>1 DEF m
    <3>3. \A j \in 1 .. s : q[j] = <<n, m + (j - 1)>>
      BY <2>5 DEF m
    <3> QED
      BY <3>2, <3>3
  <2>7. q \in [1 .. s -> S]
    <3>1. q \in [1 .. s -> Row]
      BY <2>4
    <3> QED
      BY <2>6, <3>1
  <2>8. q \in Seq(S)
    BY <1>2, <2>7
  <2> QED
    BY <2>2, <2>4, <2>5, <2>8 DEF r
<1> DEFINE t == TpSize
<1> HIDE DEF n, s, parts
<1>4. parts \in Seq(Seq(S)) /\ Len(parts) = t
  <2>1. parts \in [1 .. t -> Seq(S)]
    BY <1>3 DEF parts
  <2>2. DOMAIN parts = 1 .. t
    BY DEF parts
  <2> HIDE DEF S
  <2> QED
    BY <1>2, <2>1, <2>2
<1>5. FlattenSeq(parts) = [k \in 1 .. t * s |-> <<n, k - 1>>]
  <2>1. t \in Nat \ {0} /\ s \in Nat
    BY <1>2
  <2> HIDE DEF t
  <2>2. \A i \in 1 .. t : Len(parts[i]) = s /\ \A j \in 1 .. s : parts[i][j] = <<n, (i - 1) * s + (j - 1)>>
    BY <1>3 DEF t
  <2>3. Slices(parts, n, s, t)
    BY <1>4, <2>2 DEF Slices
  <2> QED
    BY <2>1, <2>3, FlattenIs
<1> QED
  BY <1>2, <1>5 DEF Logits, parts, n

-----------------------------------------------------------------------------
(* The ranks *)

\* Each rank has in place what it has loaded, and the engine starts when all
\* have loaded everything.
RanksInv ==
  /\ DOMAIN at = Ranks /\ DOMAIN loaded = Ranks /\ DOMAIN params = Ranks /\ <<"start">> \in DOMAIN met
  /\ \A r \in Ranks : /\ loaded[r] \subseteq Files /\ Shaped(params[r])
                      /\ \A f \in loaded[r] : \A w \in Range(f) : Placed(r, params[r], w)
                      /\ at[r] \in {"load", "off"} \/ loaded[r] = Files
  /\ \A r \in met[<<"start">>] : loaded[r] = Files
  /\ at[0] \in {"off", "load", "create", "barrier", "waiting"} \/ \A r \in Ranks : loaded[r] = Files
  /\ ShardsLineUp

LEMMA EmptyShaped == Shaped(EmptyParams)
<1>1. \A x \in Names : SizeOf(x) \in Nat
  BY SizeFacts DEF SizeOf, Positive, Weights
<1>2. {Heads, HeadsKV, Inter, Vocab} \subseteq Nat
  BY TpFacts DEF Positive
<1>3. ASSUME NEW n \in Nat PROVE Empty(n) \in Seq(Row) /\ Len(Empty(n)) = n
  BY DEF Empty, Row
<1>4. /\ (Heads + HeadsKV + HeadsKV) \div TpSize = SizeOf("qkv") /\ Heads \div TpSize = SizeOf("o")
      /\ (Inter + Inter) \div TpSize = SizeOf("gate_up") /\ Inter \div TpSize = SizeOf("down")
      /\ Vocab \div TpSize = SizeOf("embed") /\ Vocab \div TpSize = SizeOf("head")
  <2>1. /\ Share("q") = Heads \div TpSize /\ Share("o") = Heads \div TpSize /\ Share("k") = HeadsKV \div TpSize
        /\ Share("v") = HeadsKV \div TpSize /\ Share("embed") = Vocab \div TpSize
        /\ Share("gate") = Inter \div TpSize /\ Share("up") = Inter \div TpSize /\ Share("down") = Inter \div TpSize
    BY DEF Share, RowsIn
  <2>2. (Inter + Inter) \div TpSize = Inter \div TpSize + Inter \div TpSize
    BY TpFacts, Divides
  <2>3. (Heads + HeadsKV + HeadsKV) \div TpSize = Heads \div TpSize + HeadsKV \div TpSize + HeadsKV \div TpSize
    <3> DEFINE a == Heads \div TpSize
               b == HeadsKV \div TpSize
               T == TpSize
    <3>1. a \in Positive /\ b \in Positive /\ Heads = a * T /\ HeadsKV = b * T /\ T \in Positive
      BY TpFacts, Divides
    <3> HIDE DEF a, b, T
    <3>2. {a, b, T} \subseteq Nat
      BY <3>1 DEF Positive
    <3>3. (a + b + b) * T = a * T + b * T + b * T
      BY <3>2
    <3>4. Heads + HeadsKV + HeadsKV = (a + b + b) * T + 0 /\ a + b + b \in Nat /\ 0 \in 0 .. T - 1
      <4>1. (a + b + b) * T \in Nat
        BY <3>2, ProductNat
      <4> QED
        BY <3>1, <3>2, <3>3, <4>1 DEF Positive
    <3>5. (Heads + HeadsKV + HeadsKV) \div T = a + b + b
      BY <1>2, <3>1, <3>4, QuotientIs
    <3> QED
      BY <3>5 DEF a, b, T
  <2> QED
    BY <2>1, <2>2, <2>3 DEF SizeOf
<1>5. DOMAIN EmptyParams = Names
  BY DEF EmptyParams, Names
<1>6. \A x \in Names : EmptyParams[x] = Empty(SizeOf(x))
  BY <1>4 DEF EmptyParams, Names
<1> QED
  BY <1>1, <1>3, <1>5, <1>6 DEF Shaped

LEMMA RanksStart == Init => RanksInv
<1> SUFFICES ASSUME NEW first \in {"off", "load"}, RanksInit(first) PROVE RanksInv
  BY DEF Init
<1>1. /\ at = [r \in Ranks |-> first] /\ loaded = [r \in Ranks |-> {}] /\ params = [r \in Ranks |-> EmptyParams]
      /\ outcome = <<>> /\ <<"start">> \in DOMAIN met /\ met[<<"start">>] = {}
  BY DEF RanksInit
<1>2. 0 \in Ranks
  BY TpFacts DEF Ranks
<1> QED
  BY <1>1, <1>2, EmptyShaped DEF RanksInv, ShardsLineUp

LEMMA AllLoaded ==
  ASSUME RanksInv, \A r \in Ranks : loaded[r] = Files
  PROVE  AllPlaced
<1>1. \A w \in Weights : \E f \in Files : w \in Range(f)
  BY TpAssumption
<1> QED
  BY <1>1 DEF AllPlaced, RanksInv

\* Loading a file.
LEMMA LoadKeeps ==
  ASSUME RanksInv, NEW r \in Ranks, NEW f \in Files, Load(r, f)
  PROVE  RanksInv'
<1>1. /\ at[r] = "load" /\ f \in Files \ loaded[r] /\ loaded' = [loaded EXCEPT ![r] = @ \cup {f}]
      /\ params' = [params EXCEPT ![r] = LoadFile(r, @, f)]
      /\ at' = [at EXCEPT ![r] = IF loaded[r] \cup {f} # Files THEN "load" ELSE IF r = 0 THEN "create" ELSE "barrier"]
      /\ met' = met /\ outcome' = outcome
  BY DEF Load
<1>2. f \in Seq(Weights)
  BY TpAssumption
<1>3. /\ DOMAIN at = Ranks /\ DOMAIN loaded = Ranks /\ DOMAIN params = Ranks /\ <<"start">> \in DOMAIN met
      /\ \A z \in Ranks : /\ loaded[z] \subseteq Files /\ Shaped(params[z])
                          /\ \A g \in loaded[z] : \A w \in Range(g) : Placed(z, params[z], w)
                          /\ at[z] \in {"load", "off"} \/ loaded[z] = Files
      /\ \A z \in met[<<"start">>] : loaded[z] = Files
      /\ at[0] \in {"off", "load", "create", "barrier", "waiting"} \/ \A z \in Ranks : loaded[z] = Files
  BY DEF RanksInv
<1>4. /\ Shaped(params'[r]) /\ \A w \in Range(f) : Placed(r, params'[r], w)
      /\ \A w \in Weights : Placed(r, params[r], w) => Placed(r, params'[r], w)
  <2>1. params'[r] = LoadFile(r, params[r], f)
    BY <1>1, <1>3
  <2> QED
    BY <1>2, <1>3, <2>1, FileLoaded
<1>5. \A z \in Ranks : z # r => loaded'[z] = loaded[z] /\ params'[z] = params[z] /\ at'[z] = at[z]
  BY <1>1, <1>3
<1>6. loaded'[r] = loaded[r] \cup {f} /\ at'[r] \in {"load", "create", "barrier"}
      /\ (at'[r] = "load" \/ loaded'[r] = Files)
  BY <1>1, <1>3
<1>7. \A g \in loaded[r] : \A w \in Range(g) : w \in Weights
  BY <1>3, TpAssumption
<1>8. ASSUME NEW z \in Ranks
      PROVE  /\ loaded'[z] \subseteq Files /\ Shaped(params'[z])
             /\ \A g \in loaded'[z] : \A w \in Range(g) : Placed(z, params'[z], w)
             /\ at'[z] \in {"load", "off"} \/ loaded'[z] = Files
  BY <1>1, <1>3, <1>4, <1>5, <1>6, <1>7
<1>9. loaded[r] # Files
  BY <1>1
<1>10. \A z \in met'[<<"start">>] : loaded'[z] = Files
  <2>1. r \notin met[<<"start">>]
    BY <1>3, <1>9
  <2> QED
    BY <1>1, <1>3, <2>1
<1>11. at'[0] \in {"off", "load", "create", "barrier", "waiting"} \/ \A z \in Ranks : loaded'[z] = Files
  <2>1. 0 \in Ranks
    BY TpFacts DEF Ranks
  <2> QED
    BY <1>3, <1>5, <1>6, <1>9, <2>1
<1>12. ShardsLineUp'
  BY <1>1 DEF RanksInv, ShardsLineUp
<1> QED
  BY <1>1, <1>3, <1>8, <1>10, <1>11, <1>12 DEF RanksInv

Early == {"off", "load", "create", "barrier", "waiting"}

\* A rank that has loaded goes on.
LEMMA GoesOn ==
  ASSUME RanksInv, NEW r \in Ranks, NEW to, at[r] \notin {"load", "off"},
         at' = [at EXCEPT ![r] = to], loaded' = loaded, params' = params,
         <<"start">> \in DOMAIN met', \A z \in met'[<<"start">>] : z \in met[<<"start">>] \/ z = r,
         r = 0 => to \in Early \/ \A z \in Ranks : loaded[z] = Files,
         ShardsLineUp'
  PROVE  RanksInv'
<1>1. /\ DOMAIN at = Ranks /\ DOMAIN loaded = Ranks /\ DOMAIN params = Ranks
      /\ \A z \in Ranks : /\ loaded[z] \subseteq Files /\ Shaped(params[z])
                          /\ \A f \in loaded[z] : \A w \in Range(f) : Placed(z, params[z], w)
                          /\ at[z] \in {"load", "off"} \/ loaded[z] = Files
      /\ \A z \in met[<<"start">>] : loaded[z] = Files
      /\ at[0] \in Early \/ \A z \in Ranks : loaded[z] = Files
  BY DEF RanksInv, Early
<1>2. loaded[r] = Files
  BY <1>1
<1>3. DOMAIN at' = Ranks /\ \A z \in Ranks : at'[z] = IF z = r THEN to ELSE at[z]
  BY <1>1
<1>4. 0 \in Ranks
  BY TpFacts DEF Ranks
<1>5. at'[0] \in Early \/ \A z \in Ranks : loaded[z] = Files
  BY <1>1, <1>3, <1>4
<1>6. \A z \in Ranks : at'[z] \in {"load", "off"} \/ loaded[z] = Files
  BY <1>1, <1>2, <1>3
<1>7. \A z \in met'[<<"start">>] : loaded[z] = Files
  BY <1>1, <1>2
<1> QED
  BY <1>1, <1>3, <1>5, <1>6, <1>7 DEF RanksInv, Early

\* The tokens are taken when every rank has loaded everything.
LEMMA TokensLineUp ==
  ASSUME RanksInv, TakeTokens
  PROVE  ShardsLineUp'
<1>1. at[0] = "tokens" /\ outcome' = <<RunResult>>
  BY DEF TakeTokens, Goes
<1>2. \A r \in Ranks : loaded[r] = Files
  BY <1>1 DEF RanksInv
<1>3. AllPlaced
  BY <1>2, AllLoaded
<1> DEFINE res == outcome'[1]
<1>4. res = RunResult
  BY <1>1
<1>5. /\ res.embed = [t \in 0 .. Vocab - 1 |-> EmbeddedAll(t)] /\ res.attn = UNION {HeadPairs(r) : r \in Ranks}
      /\ res.mlp = UNION {MlpTriples(r) : r \in Ranks} /\ res.logits = Logits
  BY <1>4 DEF RunResult
<1> HIDE DEF res
<1>6. \A t \in 0 .. Vocab - 1 : res.embed[t] = {<<"embed", t>>}
  BY <1>3, <1>5, EmbedsAll
<1>7. res.attn = {<<<<"q", h>>, <<"k", h \div (Heads \div HeadsKV)>>, <<"v", h \div (Heads \div HeadsKV)>>, <<"o", h>>>> :
                    h \in 0 .. Heads - 1}
  BY <1>3, <1>5, HeadsAll
<1>8. res.mlp = {<<<<"gate", i>>, <<"up", i>>, <<"down", i>>>> : i \in 0 .. Inter - 1}
  BY <1>3, <1>5, MlpsAll
<1>9. res.logits = [t \in 1 .. Vocab |-> <<IF Tied THEN "embed" ELSE "head", t - 1>>]
  BY <1>3, <1>5, LogitsAll
<1> QED
  BY <1>6, <1>7, <1>8, <1>9 DEF ShardsLineUp, res

LEMMA RankStepKeeps ==
  ASSUME RanksInv, NEW r \in Ranks, RankStep(r)
  PROVE  RanksInv'
<1>0. /\ <<"start">> \in DOMAIN met /\ ShardsLineUp /\ 0 \in Ranks
      /\ at[0] \in Early \/ \A z \in Ranks : loaded[z] = Files
  BY TpFacts DEF RanksInv, Early, Ranks
<1>1. ASSUME NEW f \in Files, Load(r, f) PROVE RanksInv'
  BY <1>1, LoadKeeps
<1>2. CASE ComeToBarrier(r)
  <2>1. at[r] = "barrier" /\ at' = [at EXCEPT ![r] = "waiting"] /\ loaded' = loaded /\ params' = params /\ outcome' = outcome
        /\ met' = [met EXCEPT ![<<"start">>] = @ \cup {r}]
    BY <1>2 DEF ComeToBarrier, Goes, Arrive
  <2>2. ShardsLineUp'
    BY <1>0, <2>1 DEF ShardsLineUp
  <2>3. <<"start">> \in DOMAIN met' /\ \A z \in met'[<<"start">>] : z \in met[<<"start">>] \/ z = r
    BY <1>0, <2>1
  <2>4. "waiting" \in Early
    BY DEF Early
  <2> QED
    BY <2>1, <2>2, <2>3, <2>4, GoesOn
<1>3. CASE PassBarrier(r)
  <2>1. PICK to : at[r] = "waiting" /\ at' = [at EXCEPT ![r] = to] /\ loaded' = loaded /\ params' = params /\ outcome' = outcome
                  /\ met' = met /\ met[<<"start">>] = Ranks
    BY <1>3 DEF PassBarrier, Goes
  <2>2. ShardsLineUp'
    BY <1>0, <2>1 DEF ShardsLineUp
  <2>3. \A z \in Ranks : loaded[z] = Files
    BY <2>1 DEF RanksInv
  <2> QED
    BY <1>0, <2>1, <2>2, <2>3, GoesOn
<1>4. CASE JoinRun(r)
  <2>1. PICK to, p : at[r] = "run" /\ at' = [at EXCEPT ![r] = to] /\ loaded' = loaded /\ params' = params
                     /\ outcome' = outcome /\ met' = [met EXCEPT ![<<"run", p>>] = @ \cup {r}]
    BY <1>4 DEF JoinRun, Goes, Arrive
  <2>2. ShardsLineUp'
    BY <1>0, <2>1 DEF ShardsLineUp
  <2>3. <<"run", p>> # <<"start">>
    OBVIOUS
  <2>4. <<"start">> \in DOMAIN met' /\ met'[<<"start">>] = met[<<"start">>]
    BY <1>0, <2>1, <2>3
  <2>5. r = 0 => \A z \in Ranks : loaded[z] = Files
    BY <1>0, <2>1 DEF Early
  <2> QED
    BY <2>1, <2>2, <2>4, <2>5, GoesOn
<1>5. CASE CloseShm(r)
  <2>1. at[r] = "exit" /\ at' = [at EXCEPT ![r] = "closed"] /\ loaded' = loaded /\ params' = params
        /\ outcome' = outcome /\ met' = [met EXCEPT ![<<"end">>] = @ \cup {r}]
    BY <1>5 DEF CloseShm, Goes, Arrive
  <2>2. ShardsLineUp'
    BY <1>0, <2>1 DEF ShardsLineUp
  <2>3. <<"end">> # <<"start">>
    OBVIOUS
  <2>4. <<"start">> \in DOMAIN met' /\ met'[<<"start">>] = met[<<"start">>]
    BY <1>0, <2>1, <2>3
  <2>5. r = 0 => \A z \in Ranks : loaded[z] = Files
    BY <1>0, <2>1 DEF Early
  <2> QED
    BY <2>1, <2>2, <2>4, <2>5, GoesOn
<1>6. CASE LeaveEnd(r)
  <2>1. at[r] = "closed" /\ at' = [at EXCEPT ![r] = "gone"] /\ loaded' = loaded /\ params' = params
        /\ outcome' = outcome /\ met' = met
    BY <1>6 DEF LeaveEnd, Goes
  <2>2. ShardsLineUp'
    BY <1>0, <2>1 DEF ShardsLineUp
  <2>3. r = 0 => \A z \in Ranks : loaded[z] = Files
    BY <1>0, <2>1 DEF Early
  <2> QED
    BY <1>0, <2>1, <2>2, <2>3, GoesOn
<1>7. CASE CreateShm
  <2>1. at[0] = "create" /\ at' = [at EXCEPT ![0] = "barrier"] /\ loaded' = loaded /\ params' = params
        /\ outcome' = outcome /\ met' = met
    BY <1>7 DEF CreateShm, Goes
  <2>2. ShardsLineUp'
    BY <1>0, <2>1 DEF ShardsLineUp
  <2>3. "barrier" \in Early
    BY DEF Early
  <2> QED
    BY <1>0, <2>1, <2>2, <2>3, GoesOn
<1>8. CASE WriteLength \/ TakeTokens
  <2>1. PICK to : at[0] \in {"engine", "tokens"} /\ at' = [at EXCEPT ![0] = to] /\ loaded' = loaded /\ params' = params
                  /\ met' = met
    BY <1>8 DEF WriteLength, TakeTokens, Goes
  <2>2. ShardsLineUp'
    <3>1. CASE WriteLength
      BY <1>0, <3>1 DEF ShardsLineUp, WriteLength
    <3> QED
      BY <1>8, <3>1, TokensLineUp
  <2>3. \A z \in Ranks : loaded[z] = Files
    BY <1>0, <2>1 DEF Early
  <2> QED
    BY <1>0, <2>1, <2>2, <2>3, GoesOn
<1>9. CASE WriteBody \/ \E w \in Workers : SetEvent(w)
  <2>1. PICK to, seen : /\ at[0] \in {"length", "events"} /\ at' = [at EXCEPT ![0] = to] /\ loaded' = loaded
                        /\ params' = params /\ outcome' = outcome /\ met' = [met EXCEPT ![<<"told">>] = seen]
    <3>1. CASE WriteBody
      BY <3>1 DEF WriteBody, Goes
    <3>2. ASSUME NEW w \in Workers, SetEvent(w)
          PROVE  \E to, seen : /\ at[0] \in {"length", "events"} /\ at' = [at EXCEPT ![0] = to] /\ loaded' = loaded
                               /\ params' = params /\ outcome' = outcome /\ met' = [met EXCEPT ![<<"told">>] = seen]
      BY <3>2 DEF SetEvent, Arrive
    <3> QED
      BY <1>9, <3>1, <3>2
  <2>2. ShardsLineUp'
    BY <1>0, <2>1 DEF ShardsLineUp
  <2>3. <<"told">> # <<"start">>
    OBVIOUS
  <2>4. <<"start">> \in DOMAIN met' /\ met'[<<"start">>] = met[<<"start">>]
    BY <1>0, <2>1, <2>3
  <2>5. \A z \in Ranks : loaded[z] = Files
    BY <1>0, <2>1 DEF Early
  <2> QED
    BY <1>0, <2>1, <2>2, <2>4, <2>5, GoesOn
<1>10. CASE r # 0 /\ (OpenShm(r) \/ ReadLength(r) \/ ReadBody(r) \/ ClearEvent(r))
  <2>1. PICK to : at[r] \in {"open", "loop", "body", "clear"} /\ at' = [at EXCEPT ![r] = to] /\ loaded' = loaded
                  /\ params' = params /\ outcome' = outcome /\ met' = met
    BY <1>10 DEF OpenShm, ReadLength, ReadBody, ClearEvent, Goes
  <2>2. ShardsLineUp'
    BY <1>0, <2>1 DEF ShardsLineUp
  <2> QED
    BY <1>0, <1>10, <2>1, <2>2, GoesOn
<1> QED
  BY <1>1, <1>2, <1>3, <1>4, <1>5, <1>6, <1>7, <1>8, <1>9, <1>10 DEF RankStep

\* Whatever order each rank loads the checkpoint's files in, and however the
\* ranks then interleave, what they compute together is the whole model: every
\* embedding once, every head with its group's keys, every row of the gated
\* layer with its pair, the logits in the vocabulary's order (load_model, the
\* weight loaders, VocabParallelEmbedding, ParallelLMHead).
THEOREM RanksComputeTheModel == Spec => []ShardsLineUp
<1>1. RanksInv /\ [Next]_vars => RanksInv'
  <2> SUFFICES ASSUME RanksInv, [Next]_vars PROVE RanksInv'
    OBVIOUS
  <2>1. CASE OnRanks
    BY <2>1, RankStepKeeps DEF OnRanks, RanksNext
  <2>2. CASE OnDevice \/ UNCHANGED vars
    <3>1. UNCHANGED <<at, loaded, params, met, outcome>>
      BY <2>2 DEF OnDevice, vars, ranks
    <3> QED
      BY <3>1 DEF RanksInv, ShardsLineUp
  <2> QED
    BY <2>1, <2>2 DEF Next
<1>2. RanksInv => ShardsLineUp
  BY DEF RanksInv
<1> QED
  BY <1>1, <1>2, RanksStart, PTL DEF Spec
=============================================================================
