------------------------- MODULE BlockManagerProofs -------------------------
(***************************************************************************)
(* Safety of the block manager for every number of blocks, block size,     *)
(* set of sequences, vocabulary and set of prompts, in mid-loop too.       *)
(*                                                                         *)
(* First its accounts: reference counts are exact and no block is lost or  *)
(* handed out twice.  They need each other: ref_count can only be          *)
(* decremented below zero if it undercounts, and the block taken from the  *)
(* free list is held by nobody only if that list is exact.                 *)
(*                                                                         *)
(* Then what the blocks hold: a full block in a table holds the tokens of  *)
(* its place, in the table of each of its holders, and no assertion fails. *)
(* Neither is inductive.  Whether a block is full follows from its place   *)
(* and from how much of the sequence is settled, which differs by one      *)
(* token before and after the call of may_append; and that can_append asks *)
(* for enough blocks follows from a table that covers what is settled and  *)
(* no more.  ContentInv says so, over the counts of IInv.                  *)
(*                                                                         *)
(* Last whose a hash is: the prefix of whoever holds the block (OwnInv),   *)
(* as long as what a hit finds is of that prefix, which it is when a       *)
(* block's tokens tell its place and what comes before (OneTextPerBlock).  *)
(***************************************************************************)
EXTENDS BlockManager, FiniteSetTheorems, SequenceTheorems, TLAPS

(* A block is held finitely often, so that its holders can be counted.     *)
FinitelyHeld == \A b \in Blocks : IsFiniteSet(Holders(b))

(* The loop of deallocate() ends with the last block of the table.         *)
DrainsTable == job.op = "deallocate" => table[job.seq] # <<>>

IInv == TypeOK /\ FinitelyHeld /\ RefCountsExact /\ NoLeak /\ DrainsTable
-----------------------------------------------------------------------------
(* deque.remove: the others keep their order.                              *)
LEMMA RemoveAtProperties ==
    ASSUME NEW S, NEW f \in Seq(S), NEW k \in DOMAIN f
    PROVE  /\ RemoveAt(f, k) \in Seq(S)
           /\ Len(RemoveAt(f, k)) = Len(f) - 1
           /\ \A i \in 1..(Len(f) - 1) :
                 RemoveAt(f, k)[i] = IF i < k THEN f[i] ELSE f[i + 1]
<1>0. Len(f) \in Nat /\ k \in 1..Len(f) /\ k \in Int /\ \A i \in 1..Len(f) : f[i] \in S
  BY LenProperties, ElementOfSeq
<1> DEFINE p == SubSeq(f, 1, k - 1)
           q == SubSeq(f, k + 1, Len(f))
<1>1. /\ p \in Seq(S) /\ Len(p) = k - 1
      /\ \A i \in 1..(k - 1) : p[i] = f[i]
  <2>1. \A i \in 1..(k - 1) : f[i] \in S
    BY <1>0
  <2>2. k - 1 \in Int
    BY <1>0
  <2>3. /\ p \in Seq(S) /\ Len(p) = (IF 1 <= k - 1 THEN k - 1 - 1 + 1 ELSE 0)
        /\ \A i \in 1..(k - 1 - 1 + 1) : p[i] = f[1 + i - 1]
    BY <2>1, <2>2, SubSeqProperties
  <2>4. Len(p) = k - 1
    BY <2>3, <1>0
  <2>5. ASSUME NEW i \in 1..(k - 1) PROVE p[i] = f[i]
    <3>1. i \in 1..(k - 1 - 1 + 1) /\ 1 + i - 1 = i
      BY <1>0
    <3> QED BY <3>1, <2>3
  <2> QED BY <2>3, <2>4, <2>5
<1>2. /\ q \in Seq(S) /\ Len(q) = Len(f) - k
      /\ \A i \in 1..(Len(f) - k) : q[i] = f[k + i]
  <2>1. \A i \in (k + 1)..Len(f) : f[i] \in S
    BY <1>0
  <2>2. k + 1 \in Int /\ Len(f) \in Int
    BY <1>0
  <2>3. /\ q \in Seq(S)
        /\ Len(q) = (IF k + 1 <= Len(f) THEN Len(f) - (k + 1) + 1 ELSE 0)
        /\ \A i \in 1..(Len(f) - (k + 1) + 1) : q[i] = f[k + 1 + i - 1]
    BY <2>1, <2>2, SubSeqProperties
  <2>4. Len(q) = Len(f) - k
    BY <2>3, <1>0
  <2>5. ASSUME NEW i \in 1..(Len(f) - k) PROVE q[i] = f[k + i]
    <3>1. i \in 1..(Len(f) - (k + 1) + 1) /\ k + 1 + i - 1 = k + i
      BY <1>0
    <3> QED BY <3>1, <2>3
  <2> QED BY <2>3, <2>4, <2>5
<1>3. RemoveAt(f, k) = p \o q
  BY DEF RemoveAt
<1>4. /\ p \o q \in Seq(S)
      /\ Len(p \o q) = Len(p) + Len(q)
      /\ \A i \in 1..(Len(p) + Len(q)) :
            (p \o q)[i] = IF i <= Len(p) THEN p[i] ELSE q[i - Len(p)]
  <2> HIDE DEF p, q
  <2> QED BY <1>1, <1>2, ConcatProperties
<1>5. ASSUME NEW i \in 1..(Len(f) - 1)
      PROVE  RemoveAt(f, k)[i] = IF i < k THEN f[i] ELSE f[i + 1]
  <2> HIDE DEF p, q
  <2>1. i \in 1..(Len(p) + Len(q))
    BY <1>0, <1>1, <1>2
  <2>2. CASE i < k
    <3>1. i <= Len(p) /\ i \in 1..(k - 1)
      BY <2>2, <1>0, <1>1
    <3> QED BY <3>1, <2>1, <2>2, <1>1, <1>3, <1>4
  <2>3. CASE ~(i < k)
    <3>1. ~(i <= Len(p)) /\ i - Len(p) \in 1..(Len(f) - k) /\ k + (i - Len(p)) = i + 1
      BY <2>3, <1>0, <1>1
    <3>2. RemoveAt(f, k)[i] = q[i - Len(p)]
      BY <3>1, <2>1, <1>3, <1>4
    <3>3. q[i - Len(p)] = f[k + (i - Len(p))]
      BY <3>1, <1>2
    <3>4. RemoveAt(f, k)[i] = f[i + 1]
      BY <3>1, <3>2, <3>3
    <3> QED BY <3>4, <2>3
  <2> QED BY <2>2, <2>3
<1> QED
  <2> HIDE DEF p, q
  <2>1. Len(RemoveAt(f, k)) = Len(f) - 1
    BY <1>0, <1>1, <1>2, <1>3, <1>4
  <2> QED BY <2>1, <1>3, <1>4, <1>5

(* Removing one of several distinct elements leaves the others.            *)
LEMMA RemoveAtRange ==
    ASSUME NEW S, NEW f \in Seq(S), NEW k \in DOMAIN f,
           \A i, j \in DOMAIN f : f[i] = f[j] => i = j
    PROVE  /\ \A i, j \in DOMAIN RemoveAt(f, k) :
                 RemoveAt(f, k)[i] = RemoveAt(f, k)[j] => i = j
           /\ Range(RemoveAt(f, k)) = Range(f) \ {f[k]}
<1> DEFINE g == RemoveAt(f, k)
<1>1. /\ g \in Seq(S) /\ Len(g) = Len(f) - 1
      /\ \A i \in 1..(Len(f) - 1) : g[i] = IF i < k THEN f[i] ELSE f[i + 1]
  BY RemoveAtProperties
<1>2. /\ Len(f) \in Nat /\ DOMAIN f = 1..Len(f) /\ k \in 1..Len(f)
      /\ DOMAIN g = 1..(Len(f) - 1)
  BY <1>1, LenProperties
<1> HIDE DEF g
<1>3. ASSUME NEW i \in DOMAIN g, NEW j \in DOMAIN g, g[i] = g[j]
      PROVE  i = j
  <2> DEFINE at(n) == IF n < k THEN n ELSE n + 1
  <2>1. \A n \in DOMAIN g : at(n) \in DOMAIN f /\ g[n] = f[at(n)]
    BY <1>1, <1>2
  <2>2. at(i) = at(j)
    BY <2>1, <1>3
  <2> QED BY <2>2, <1>2
<1>4. ASSUME NEW x PROVE x \in Range(g) <=> x \in Range(f) /\ x # f[k]
  <2>1. ASSUME x \in Range(g) PROVE x \in Range(f) /\ x # f[k]
    <3>1. PICK i \in DOMAIN g : x = g[i]
      BY <2>1 DEF Range
    <3>2. PICK n \in DOMAIN f : n # k /\ x = f[n]
      <4>1. CASE i < k
        BY <4>1, <3>1, <1>1, <1>2
      <4>2. CASE ~(i < k)
        <5>1. i + 1 \in DOMAIN f /\ i + 1 # k /\ x = f[i + 1]
          BY <4>2, <3>1, <1>1, <1>2
        <5> QED BY <5>1
      <4> QED BY <4>1, <4>2
    <3> QED BY <3>2 DEF Range
  <2>2. ASSUME x \in Range(f), x # f[k] PROVE x \in Range(g)
    <3>1. PICK n \in DOMAIN f : x = f[n] /\ n # k
      BY <2>2 DEF Range
    <3>2. CASE n < k
      <4>1. n \in DOMAIN g /\ g[n] = x
        BY <3>1, <3>2, <1>1, <1>2
      <4> QED BY <4>1 DEF Range
    <3>3. CASE n > k
      <4>1. n - 1 \in DOMAIN g /\ ~(n - 1 < k) /\ (n - 1) + 1 = n
        BY <3>1, <3>3, <1>2
      <4>2. g[n - 1] = x
        BY <4>1, <3>1, <1>1, <1>2
      <4> QED BY <4>1, <4>2 DEF Range
    <3> QED BY <3>1, <3>2, <3>3, <1>2
  <2> QED BY <2>1, <2>2
<1>5. Range(g) = Range(f) \ {f[k]}
  BY <1>4
<1> QED BY <1>3, <1>5 DEF g

(* Front drops the last element only.                                      *)
LEMMA FrontProperties ==
    ASSUME NEW S, NEW f \in Seq(S), f # <<>>
    PROVE  /\ Front(f) \in Seq(S) /\ Len(Front(f)) = Len(f) - 1
           /\ \A i \in 1..(Len(f) - 1) : Front(f)[i] = f[i]
           /\ Len(f) \in DOMAIN f /\ Last(f) = f[Len(f)] /\ Last(f) \in S
<1>1. /\ Len(f) \in Nat \ {0} /\ DOMAIN f = 1..Len(f)
      /\ \A i \in 1..Len(f) : f[i] \in S
  BY EmptySeq, LenProperties, ElementOfSeq
<1>2. 1 \in Int /\ Len(f) - 1 \in Int /\ \A i \in 1..(Len(f) - 1) : f[i] \in S
  BY <1>1
<1>3. /\ Front(f) \in Seq(S)
      /\ Len(Front(f)) = (IF 1 <= Len(f) - 1 THEN Len(f) - 1 - 1 + 1 ELSE 0)
      /\ \A i \in 1..(Len(f) - 1 - 1 + 1) : Front(f)[i] = f[1 + i - 1]
  BY <1>2, SubSeqProperties DEF Front
<1>4. Len(Front(f)) = Len(f) - 1
  <2> DEFINE n == Len(f)
             m == Len(Front(f))
  <2>1. n \in Nat \ {0} /\ m = IF 1 <= n - 1 THEN n - 1 - 1 + 1 ELSE 0
    BY <1>1, <1>3, Zenon
  <2>2. m = n - 1
    <3> HIDE DEF n, m
    <3> QED BY <2>1
  <2> QED BY <2>2
<1>5. ASSUME NEW i \in 1..(Len(f) - 1) PROVE Front(f)[i] = f[i]
  <2>1. i \in 1..(Len(f) - 1 - 1 + 1) /\ 1 + i - 1 = i
    BY <1>1
  <2> QED BY <2>1, <1>3
<1>6. Len(f) \in DOMAIN f /\ f[Len(f)] \in S
  BY <1>1
<1>7. Last(f) = f[Len(f)]
  BY DEF Last
<1> QED BY <1>3, <1>4, <1>5, <1>6, <1>7
(* deque.append of an element that is not there yet.                       *)
LEMMA AppendFresh ==
    ASSUME NEW S, NEW f \in Seq(S), NEW e \in S, e \notin Range(f),
           \A i, j \in DOMAIN f : f[i] = f[j] => i = j
    PROVE  /\ Append(f, e) \in Seq(S)
           /\ Range(Append(f, e)) = Range(f) \cup {e}
           /\ \A i, j \in DOMAIN Append(f, e) :
                 Append(f, e)[i] = Append(f, e)[j] => i = j
<1> DEFINE n == Len(f)
           g == Append(f, e)
<1>1. /\ n \in Nat /\ DOMAIN f = 1..n
      /\ g \in Seq(S) /\ Len(g) = n + 1
      /\ \A i \in 1..n : g[i] = f[i]
      /\ g[n + 1] = e
  BY LenProperties, AppendProperties
<1>2. DOMAIN g = 1..(n + 1)
  BY <1>1, LenProperties, Zenon
<1> HIDE DEF n, g
<1>3. ASSUME NEW i \in DOMAIN g
      PROVE  (i \in DOMAIN f /\ g[i] = f[i]) \/ (i = n + 1 /\ g[i] = e)
  BY <1>1, <1>2
<1>4. \A i \in DOMAIN f : f[i] # e
  BY DEF Range
<1>5. \A i, j \in DOMAIN g : g[i] = g[j] => i = j
  BY <1>3, <1>4
<1>6. \A i \in DOMAIN f : i \in DOMAIN g /\ g[i] = f[i]
  BY <1>1, <1>2
<1>7. n + 1 \in DOMAIN g
  BY <1>1, <1>2
<1>8. ASSUME NEW x PROVE x \in Range(g) <=> x \in Range(f) \cup {e}
  BY <1>1, <1>3, <1>6, <1>7 DEF Range
<1>9. Range(g) = Range(f) \cup {e}
  BY <1>8
<1> QED BY <1>1, <1>5, <1>9 DEF g
-----------------------------------------------------------------------------
(* The place p of the block tables t points at block c.                    *)
PointsAt(t, c, p) ==
    \E s \in Seqs : \E i \in DOMAIN t[s] : p = <<s, i>> /\ t[s][i] = c

(* The holders of a block, one by one.                                     *)
LEMMA HoldersAre ==
    ASSUME NEW t, NEW c, NEW p
    PROVE  p \in {q \in UNION {{s} \X DOMAIN t[s] : s \in Seqs} :
                      t[q[1]][q[2]] = c}
           <=> PointsAt(t, c, p)
<1>1. ASSUME NEW s \in Seqs, NEW i \in DOMAIN t[s], p = <<s, i>>, t[s][i] = c
      PROVE  /\ p \in UNION {{r} \X DOMAIN t[r] : r \in Seqs}
             /\ t[p[1]][p[2]] = c
  <2>1. p \in {s} \X DOMAIN t[s]
    BY <1>1
  <2>2. p[1] = s /\ p[2] = i
    BY <1>1
  <2> QED BY <1>1, <2>1, <2>2
<1>2. ASSUME p \in UNION {{s} \X DOMAIN t[s] : s \in Seqs}, t[p[1]][p[2]] = c
      PROVE  \E s \in Seqs : \E i \in DOMAIN t[s] : p = <<s, i>> /\ t[s][i] = c
  <2>1. PICK s \in Seqs : p \in {s} \X DOMAIN t[s]
    BY <1>2
  <2>2. PICK i \in DOMAIN t[s] : p = <<s, i>>
    BY <2>1
  <2>3. t[s][i] = c
    BY <1>2, <2>2
  <2> QED BY <2>2, <2>3
<1> QED BY <1>1, <1>2 DEF PointsAt

(* Appending b to the table of s adds one holder to b and none elsewhere.  *)
LEMMA ExtendHolders ==
    ASSUME table \in [Seqs -> Seq(Blocks)], NEW s \in Seqs, NEW b \in Blocks,
           Extend(s, b)
    PROVE  /\ table' \in [Seqs -> Seq(Blocks)]
           /\ <<s, Len(table[s]) + 1>> \notin Holders(b)
           /\ Holders(b)' = Holders(b) \cup {<<s, Len(table[s]) + 1>>}
           /\ \A c \in Blocks \ {b} : Holders(c)' = Holders(c)
<1> DEFINE n == Len(table[s])
<1>1. /\ n \in Nat /\ DOMAIN table[s] = 1..n
      /\ table' = [table EXCEPT ![s] = Append(table[s], b)]
      /\ table' \in [Seqs -> Seq(Blocks)]
  BY LenProperties, AppendProperties DEF Extend
<1>2. /\ \A r \in Seqs \ {s} : table'[r] = table[r]
      /\ table'[s] = Append(table[s], b)
  BY <1>1
<1>3. /\ DOMAIN table'[s] = 1..(n + 1)
      /\ \A i \in 1..n : table'[s][i] = table[s][i]
      /\ table'[s][n + 1] = b
  <2>1. table[s] \in Seq(Blocks)
    OBVIOUS
  <2>2. /\ Append(table[s], b) \in Seq(Blocks)
        /\ Len(Append(table[s], b)) = n + 1
        /\ \A i \in 1..n : Append(table[s], b)[i] = table[s][i]
        /\ Append(table[s], b)[n + 1] = b
    BY <2>1, AppendProperties
  <2>3. DOMAIN Append(table[s], b) = 1..(n + 1)
    BY <2>2, LenProperties, Zenon
  <2> QED BY <2>2, <2>3, <1>2, Zenon
<1> HIDE DEF n
<1>4. ASSUME NEW c, NEW p
      PROVE  PointsAt(table', c, p) <=> PointsAt(table, c, p) \/ (c = b /\ p = <<s, n + 1>>)
  <2>1. ASSUME NEW r \in Seqs, NEW i \in DOMAIN table'[r], p = <<r, i>>, table'[r][i] = c
        PROVE  \/ i \in DOMAIN table[r] /\ table[r][i] = c
               \/ c = b /\ p = <<s, n + 1>>
    <3>1. CASE r # s
      BY <3>1, <2>1, <1>2
    <3>2. CASE r = s /\ i = n + 1
      BY <3>2, <2>1, <1>3
    <3>3. CASE r = s /\ i # n + 1
      <4>1. i \in 1..n
        BY <3>3, <2>1, <1>1, <1>3
      <4> QED BY <4>1, <3>3, <2>1, <1>1, <1>3
    <3> QED BY <3>1, <3>2, <3>3
  <2>2. ASSUME NEW r \in Seqs, NEW i \in DOMAIN table[r]
        PROVE  i \in DOMAIN table'[r] /\ table'[r][i] = table[r][i]
    <3>1. CASE r # s
      BY <3>1, <1>2
    <3>2. CASE r = s
      <4>1. i \in 1..n /\ i \in 1..(n + 1)
        BY <3>2, <1>1
      <4> QED BY <4>1, <3>2, <1>3
    <3> QED BY <3>1, <3>2
  <2>3. n + 1 \in DOMAIN table'[s] /\ table'[s][n + 1] = b
    BY <1>1, <1>3
  <2> QED BY <2>1, <2>2, <2>3 DEF PointsAt
<1>5. ASSUME NEW c, NEW p
      PROVE  p \in Holders(c)' <=> p \in Holders(c) \/ (c = b /\ p = <<s, n + 1>>)
  <2>1. p \in Holders(c) <=> PointsAt(table, c, p)
    BY HoldersAre DEF Holders, Slots
  <2>2. p \in Holders(c)' <=> PointsAt(table', c, p)
    BY HoldersAre DEF Holders, Slots
  <2> QED BY <2>1, <2>2, <1>4
<1>6. <<s, n + 1>> \notin Holders(b)
  <2>1. <<s, n + 1>> \in Holders(b) => n + 1 \in DOMAIN table[s]
    BY HoldersAre DEF Holders, Slots, PointsAt
  <2> QED BY <2>1, <1>1
<1>7. Holders(b)' = Holders(b) \cup {<<s, n + 1>>}
  BY <1>5
<1>8. ASSUME NEW c \in Blocks \ {b} PROVE Holders(c)' = Holders(c)
  <2>1. \A p : p \in Holders(c)' <=> p \in Holders(c)
    BY <1>5
  <2> QED BY <2>1
<1> QED BY <1>1, <1>6, <1>7, <1>8 DEF n

(* Dropping the last block b of the table of s takes one holder from b.    *)
LEMMA DropHolders ==
    ASSUME table \in [Seqs -> Seq(Blocks)], NEW s \in Seqs, table[s] # <<>>,
           table' = [table EXCEPT ![s] = Front(@)],
           NEW b, b = Last(table[s])
    PROVE  /\ table' \in [Seqs -> Seq(Blocks)]
           /\ b \in Blocks
           /\ Len(table'[s]) = Len(table[s]) - 1
           /\ <<s, Len(table[s])>> \in Holders(b)
           /\ Holders(b)' = Holders(b) \ {<<s, Len(table[s])>>}
           /\ \A c \in Blocks \ {b} : Holders(c)' = Holders(c)
<1> DEFINE n == Len(table[s])
<1>1. /\ table[s] \in Seq(Blocks) /\ n \in Nat /\ DOMAIN table[s] = 1..n
      /\ n \in 1..n /\ table[s][n] = b /\ b \in Blocks
  BY LenProperties, FrontProperties
<1>2. /\ \A r \in Seqs \ {s} : table'[r] = table[r]
      /\ table'[s] = Front(table[s])
      /\ table' \in [Seqs -> Seq(Blocks)]
  BY <1>1, FrontProperties
<1>3. /\ DOMAIN table'[s] = 1..(n - 1) /\ Len(table'[s]) = n - 1
      /\ \A i \in 1..(n - 1) : table'[s][i] = table[s][i]
  <2>1. /\ Front(table[s]) \in Seq(Blocks) /\ Len(Front(table[s])) = n - 1
        /\ \A i \in 1..(n - 1) : Front(table[s])[i] = table[s][i]
    BY <1>1, FrontProperties
  <2>2. DOMAIN Front(table[s]) = 1..(n - 1)
    BY <2>1, LenProperties, Zenon
  <2> QED BY <2>1, <2>2, <1>2, Zenon
<1> HIDE DEF n
<1>4. ASSUME NEW c, NEW p
      PROVE  PointsAt(table', c, p) <=> PointsAt(table, c, p) /\ p # <<s, n>>
  <2>1. ASSUME NEW r \in Seqs, NEW i \in DOMAIN table'[r]
        PROVE  i \in DOMAIN table[r] /\ table[r][i] = table'[r][i] /\ <<r, i>> # <<s, n>>
    <3>1. CASE r # s
      BY <3>1, <1>2
    <3>2. CASE r = s
      <4>1. i \in 1..(n - 1) /\ i \in 1..n /\ i # n
        BY <3>2, <1>1, <1>3
      <4> QED BY <4>1, <3>2, <1>1, <1>3
    <3> QED BY <3>1, <3>2
  <2>2. ASSUME NEW r \in Seqs, NEW i \in DOMAIN table[r], <<r, i>> # <<s, n>>
        PROVE  i \in DOMAIN table'[r] /\ table'[r][i] = table[r][i]
    <3>1. CASE r # s
      BY <3>1, <1>2
    <3>2. CASE r = s
      <4>1. i \in 1..n /\ i # n
        BY <3>2, <2>2, <1>1
      <4>2. i \in 1..(n - 1)
        BY <4>1, <1>1
      <4> QED BY <4>2, <3>2, <1>3
    <3> QED BY <3>1, <3>2
  <2> QED BY <2>1, <2>2 DEF PointsAt
<1>5. ASSUME NEW c, NEW p
      PROVE  p \in Holders(c)' <=> p \in Holders(c) /\ p # <<s, n>>
  <2>1. p \in Holders(c) <=> PointsAt(table, c, p)
    BY HoldersAre DEF Holders, Slots
  <2>2. p \in Holders(c)' <=> PointsAt(table', c, p)
    BY HoldersAre DEF Holders, Slots
  <2> QED BY <2>1, <2>2, <1>4
<1>6. ASSUME NEW c PROVE <<s, n>> \in Holders(c) <=> c = b
  <2>1. <<s, n>> \in Holders(c) <=> PointsAt(table, c, <<s, n>>)
    BY HoldersAre DEF Holders, Slots
  <2> QED BY <2>1, <1>1 DEF PointsAt
<1>7. Holders(b)' = Holders(b) \ {<<s, n>>}
  BY <1>5
<1>8. ASSUME NEW c \in Blocks \ {b} PROVE Holders(c)' = Holders(c)
  <2>1. \A p : p \in Holders(c)' <=> p \in Holders(c)
    BY <1>5, <1>6
  <2> QED BY <2>1
<1> QED BY <1>1, <1>2, <1>3, <1>6, <1>7, <1>8 DEF n
-----------------------------------------------------------------------------
(* The pool and the counts agree on which blocks are held, and by how many.*)
Accounts == FinitelyHeld /\ RefCountsExact /\ NoLeak

PoolTypes ==
    /\ refCount \in [Blocks -> Nat]
    /\ free \in Seq(Blocks) /\ used \subseteq Blocks
    /\ table \in [Seqs -> Seq(Blocks)]

(* Taking a free block for s keeps the accounts.                           *)
LEMMA ClaimKeepsAccounts ==
    ASSUME PoolTypes, Accounts, NEW s \in Seqs, NEW b \in Blocks, NEW h, NEW toks,
           Claim(b, h, toks), Extend(s, b)
    PROVE  PoolTypes' /\ Accounts'
<1> DEFINE p == <<s, Len(table[s]) + 1>>
<1>1. /\ table' \in [Seqs -> Seq(Blocks)]
      /\ p \notin Holders(b) /\ Holders(b)' = Holders(b) \cup {p}
      /\ \A c \in Blocks \ {b} : Holders(c)' = Holders(c)
  BY ExtendHolders DEF PoolTypes
<1> HIDE DEF p
<1>2. /\ refCount[b] = 0 /\ refCount' = [refCount EXCEPT ![b] = 1]
      /\ used' = used \cup {b}
  BY DEF Claim
<1>3. PICK k \in DOMAIN free : free[k] = b /\ free' = RemoveAt(free, k)
  BY DEF Claim, Unfree
<1>4. /\ free' \in Seq(Blocks) /\ Range(free') = Range(free) \ {b}
      /\ \A i, j \in DOMAIN free' : free'[i] = free'[j] => i = j
  <2>1. free \in Seq(Blocks) /\ \A i, j \in DOMAIN free : free[i] = free[j] => i = j
    BY DEF PoolTypes, Accounts, NoLeak
  <2>2. RemoveAt(free, k) \in Seq(Blocks)
    BY <2>1, RemoveAtProperties
  <2>3. /\ \A i, j \in DOMAIN RemoveAt(free, k) :
              RemoveAt(free, k)[i] = RemoveAt(free, k)[j] => i = j
        /\ Range(RemoveAt(free, k)) = Range(free) \ {free[k]}
    BY <2>1, RemoveAtRange, Zenon
  <2> QED BY <2>2, <2>3, <1>3, Zenon
<1>5. /\ \A c \in Blocks : IsFiniteSet(Holders(c)) /\ refCount[c] = Cardinality(Holders(c))
      /\ refCount \in [Blocks -> Nat] /\ used \subseteq Blocks
      /\ Range(free) = Blocks \ used /\ used = {c \in Blocks : refCount[c] > 0}
  BY DEF PoolTypes, Accounts, FinitelyHeld, RefCountsExact, NoLeak
<1>6. PoolTypes'
  BY <1>1, <1>2, <1>4, <1>5 DEF PoolTypes
<1>7. /\ IsFiniteSet(Holders(b)')
      /\ Cardinality(Holders(b)') = Cardinality(Holders(b)) + 1
  BY <1>1, <1>5, FS_AddElement
<1>8. ASSUME NEW c \in Blocks
      PROVE  IsFiniteSet(Holders(c)') /\ refCount'[c] = Cardinality(Holders(c)')
  <2>1. CASE c = b
    BY <2>1, <1>2, <1>5, <1>7
  <2>2. CASE c # b
    BY <2>2, <1>1, <1>2, <1>5
  <2> QED BY <2>1, <2>2
<1>9. NoLeak'
  <2>1. used' = {c \in Blocks : refCount'[c] > 0}
    BY <1>2, <1>5
  <2>2. Range(free') = Blocks \ used'
    BY <1>2, <1>4, <1>5
  <2> QED BY <2>1, <2>2, <1>4 DEF NoLeak
<1> QED BY <1>6, <1>8, <1>9 DEF Accounts, FinitelyHeld, RefCountsExact

(* Sharing a block in use with s keeps the accounts.                       *)
LEMMA ShareKeepsAccounts ==
    ASSUME PoolTypes, Accounts, NEW s \in Seqs, NEW b \in used, NEW h, NEW toks,
           Share(b, h, toks), Extend(s, b)
    PROVE  PoolTypes' /\ Accounts'
<1> DEFINE p == <<s, Len(table[s]) + 1>>
<1>1. b \in Blocks
  BY DEF PoolTypes
<1>2. /\ table' \in [Seqs -> Seq(Blocks)]
      /\ p \notin Holders(b) /\ Holders(b)' = Holders(b) \cup {p}
      /\ \A c \in Blocks \ {b} : Holders(c)' = Holders(c)
  BY <1>1, ExtendHolders DEF PoolTypes
<1> HIDE DEF p
<1>3. /\ refCount' = [refCount EXCEPT ![b] = @ + 1]
      /\ used' = used /\ free' = free
  BY DEF Share, CountHolder, poolVars
<1>4. /\ \A c \in Blocks : IsFiniteSet(Holders(c)) /\ refCount[c] = Cardinality(Holders(c))
      /\ refCount \in [Blocks -> Nat] /\ used \subseteq Blocks /\ free \in Seq(Blocks)
      /\ Range(free) = Blocks \ used /\ used = {c \in Blocks : refCount[c] > 0}
      /\ \A i, j \in DOMAIN free : free[i] = free[j] => i = j
  BY DEF PoolTypes, Accounts, FinitelyHeld, RefCountsExact, NoLeak
<1>5. PoolTypes'
  BY <1>1, <1>2, <1>3, <1>4 DEF PoolTypes
<1>6. /\ IsFiniteSet(Holders(b)')
      /\ Cardinality(Holders(b)') = Cardinality(Holders(b)) + 1
  <2>1. IsFiniteSet(Holders(b))
    BY <1>1, <1>4
  <2>2. /\ IsFiniteSet(Holders(b) \cup {p})
        /\ Cardinality(Holders(b) \cup {p}) = Cardinality(Holders(b)) + 1
    BY <2>1, <1>2, FS_AddElement
  <2> QED BY <2>2, <1>2, Zenon
<1>7. ASSUME NEW c \in Blocks
      PROVE  IsFiniteSet(Holders(c)') /\ refCount'[c] = Cardinality(Holders(c)')
  <2>1. CASE c = b
    BY <2>1, <1>3, <1>4, <1>6
  <2>2. CASE c # b
    BY <2>2, <1>2, <1>3, <1>4
  <2> QED BY <2>1, <2>2
<1>8. NoLeak'
  <2>1. refCount[b] \in Nat /\ refCount[b] > 0
    BY <1>1, <1>4
  <2>2. used' = {c \in Blocks : refCount'[c] > 0}
    BY <2>1, <1>3, <1>4
  <2> QED BY <2>2, <1>3, <1>4 DEF NoLeak
<1> QED BY <1>5, <1>7, <1>8 DEF Accounts, FinitelyHeld, RefCountsExact

(* Releasing the last block of s keeps the accounts: a block goes back to  *)
(* the free list exactly when its last holder lets go of it.               *)
LEMMA DropKeepsAccounts ==
    ASSUME PoolTypes, Accounts, NEW s \in Seqs, table[s] # <<>>,
           NEW b, b = Last(table[s]),
           refCount' = [refCount EXCEPT ![b] = @ - 1],
           IF Unheld(b) THEN used' = used \ {b} /\ free' = Append(free, b)
                        ELSE UNCHANGED poolVars,
           table' = [table EXCEPT ![s] = Front(@)]
    PROVE  PoolTypes' /\ Accounts'
<1> DEFINE p == <<s, Len(table[s])>>
<1>1. /\ table' \in [Seqs -> Seq(Blocks)] /\ b \in Blocks
      /\ p \in Holders(b) /\ Holders(b)' = Holders(b) \ {p}
      /\ \A c \in Blocks \ {b} : Holders(c)' = Holders(c)
  BY DropHolders DEF PoolTypes
<1> HIDE DEF p
<1>2. /\ \A c \in Blocks : IsFiniteSet(Holders(c)) /\ refCount[c] = Cardinality(Holders(c))
      /\ refCount \in [Blocks -> Nat] /\ used \subseteq Blocks /\ free \in Seq(Blocks)
      /\ Range(free) = Blocks \ used /\ used = {c \in Blocks : refCount[c] > 0}
      /\ \A i, j \in DOMAIN free : free[i] = free[j] => i = j
  BY DEF PoolTypes, Accounts, FinitelyHeld, RefCountsExact, NoLeak
<1>3. /\ IsFiniteSet(Holders(b)')
      /\ Cardinality(Holders(b)') = Cardinality(Holders(b)) - 1
  <2>1. IsFiniteSet(Holders(b))
    BY <1>1, <1>2
  <2>2. /\ IsFiniteSet(Holders(b) \ {p})
        /\ Cardinality(Holders(b) \ {p}) = Cardinality(Holders(b)) - 1
    BY <2>1, <1>1, FS_RemoveElement
  <2> QED BY <2>2, <1>1, Zenon
<1>4. refCount[b] \in Nat \ {0}
  <2>1. IsFiniteSet(Holders(b)) /\ Cardinality(Holders(b)) # 0
    BY <1>1, <1>2, FS_EmptySet
  <2> QED BY <2>1, <1>1, <1>2
<1>5. /\ refCount' \in [Blocks -> Nat] /\ refCount'[b] = refCount[b] - 1
      /\ \A c \in Blocks \ {b} : refCount'[c] = refCount[c]
  BY <1>1, <1>2, <1>4
<1>6. ASSUME NEW c \in Blocks
      PROVE  IsFiniteSet(Holders(c)') /\ refCount'[c] = Cardinality(Holders(c)')
  <2>1. CASE c = b
    BY <2>1, <1>2, <1>3, <1>5
  <2>2. CASE c # b
    BY <2>2, <1>1, <1>2, <1>5
  <2> QED BY <2>1, <2>2
<1>7. PoolTypes' /\ NoLeak'
  <2>1. CASE Unheld(b)
    <3>1. used' = used \ {b} /\ free' = Append(free, b) /\ refCount'[b] = 0
      BY <2>1, <1>5 DEF Unheld
    <3>2. b \in used /\ b \notin Range(free)
      BY <1>1, <1>2, <1>4
    <3>3. /\ free' \in Seq(Blocks) /\ Range(free') = Range(free) \cup {b}
          /\ \A i, j \in DOMAIN free' : free'[i] = free'[j] => i = j
      <4>1. free \in Seq(Blocks) /\ \A i, j \in DOMAIN free : free[i] = free[j] => i = j
        BY <1>2
      <4>2. /\ Append(free, b) \in Seq(Blocks)
            /\ Range(Append(free, b)) = Range(free) \cup {b}
            /\ \A i, j \in DOMAIN Append(free, b) :
                  Append(free, b)[i] = Append(free, b)[j] => i = j
        BY <4>1, <3>2, <1>1, AppendFresh
      <4> QED BY <4>2, <3>1, Zenon
    <3>4. used' = {c \in Blocks : refCount'[c] > 0}
      BY <3>1, <1>2, <1>5
    <3>5. Range(free') = Blocks \ used'
      BY <3>1, <3>2, <3>3, <1>1, <1>2
    <3> QED BY <3>1, <3>3, <3>4, <3>5, <1>1, <1>2, <1>5 DEF PoolTypes, NoLeak
  <2>2. CASE ~Unheld(b)
    <3>1. used' = used /\ free' = free
      BY <2>2 DEF poolVars
    <3>2. refCount[b] > 0 /\ refCount'[b] > 0
      BY <2>2, <1>4, <1>5 DEF Unheld
    <3>3. used' = {c \in Blocks : refCount'[c] > 0}
      BY <3>1, <3>2, <1>1, <1>2, <1>5
    <3> QED BY <3>1, <3>3, <1>1, <1>2, <1>5 DEF PoolTypes, NoLeak
  <2> QED BY <2>1, <2>2
<1> QED BY <1>6, <1>7 DEF Accounts, FinitelyHeld, RefCountsExact

(* A step that leaves the pool and the tables alone keeps the accounts.    *)
LEMMA IdleKeepsAccounts ==
    ASSUME PoolTypes, Accounts, UNCHANGED <<refCount, poolVars, table>>
    PROVE  PoolTypes' /\ Accounts'
<1>1. refCount' = refCount /\ free' = free /\ used' = used /\ table' = table
  BY DEF poolVars
<1>2. \A c : Holders(c)' = Holders(c)
  BY <1>1 DEF Holders, Slots
<1> QED BY <1>1, <1>2 DEF PoolTypes, Accounts, FinitelyHeld, RefCountsExact, NoLeak
-----------------------------------------------------------------------------
(* The rest of the state: what blocks hold, the prefix cache, the requests.*)
ContentTypes ==
    /\ blockHash \in [Blocks -> Seq(Tokens)]
    /\ blockTokens \in [Blocks -> Seq(Tokens)]
    /\ DOMAIN hashTo \subseteq Seq(Tokens)
    /\ \A h \in DOMAIN hashTo : hashTo[h] \in Blocks
    /\ tokens \in [Seqs -> Seq(Tokens) \ {<<>>}]
    /\ cached \in [Seqs -> Nat]
    /\ due \subseteq Seqs
    /\ job \in Jobs
    /\ raised \in BOOLEAN

LEMMA Parts == IInv <=> PoolTypes /\ Accounts /\ ContentTypes /\ DrainsTable
BY DEF IInv, TypeOK, PoolTypes, Accounts, ContentTypes

(* Sequence.block(i) is a list of tokens.                                  *)
LEMMA BlockOfType ==
    ASSUME ContentTypes, NEW s \in Seqs, NEW i \in Nat
    PROVE  BlockOf(s, i) \in Seq(Tokens)
<1> DEFINE f == tokens[s]
           n == Len(f)
           m == i * BlockSize + 1
           e == IF (i + 1) * BlockSize < n THEN (i + 1) * BlockSize ELSE n
<1>1. f \in Seq(Tokens) /\ n \in Nat /\ \A j \in 1..n : f[j] \in Tokens
  BY LenProperties, ElementOfSeq DEF ContentTypes
<1>2. i * BlockSize \in Nat /\ (i + 1) * BlockSize \in Nat
  BY BlockAssumption
<1>3. BlockOf(s, i) = SubSeq(f, m, e)
  BY DEF BlockOf
<1> HIDE DEF f, n, m, e
<1>4. m \in Int /\ e \in Int /\ m >= 1 /\ e <= n
  BY <1>1, <1>2 DEF m, e
<1>5. \A j \in m..e : f[j] \in Tokens
  BY <1>1, <1>4
<1> QED BY <1>3, <1>4, <1>5, SubSeqProperties

(* A chained hash is a list of tokens too.                                 *)
LEMMA HashType ==
    ASSUME NEW p \in Seq(Tokens), NEW toks \in Seq(Tokens)
    PROVE  ComputeHash(toks, p) \in Seq(Tokens)
BY ConcatProperties DEF ComputeHash

(* Updating the prefix cache keeps it a map from hashes to blocks.         *)
LEMMA RegisteredType ==
    ASSUME ContentTypes, NEW h \in Seq(Tokens), NEW b \in Blocks
    PROVE  /\ DOMAIN Registered(h, b) \subseteq Seq(Tokens)
           /\ \A k \in DOMAIN Registered(h, b) : Registered(h, b)[k] \in Blocks
BY DEF ContentTypes, Registered

(* What the current iteration of allocate() reads.                         *)
LEMMA IterationType ==
    ASSUME PoolTypes, ContentTypes, job.op = "allocate"
    PROVE  /\ job.seq \in Seqs /\ job.hash \in Seq(Tokens) /\ job.miss \in BOOLEAN
           /\ job = [op |-> "allocate", seq |-> job.seq, hash |-> job.hash, miss |-> job.miss]
           /\ NextTokens \in Seq(Tokens) /\ NextHash \in Seq(Tokens)
<1>1. job \in [op : {"allocate"}, seq : Seqs, hash : Seq(Tokens), miss : BOOLEAN]
  BY DEF ContentTypes, Jobs, Idle
<1>2. Len(table[job.seq]) \in Nat
  BY <1>1, LenProperties DEF PoolTypes
<1>3. NextTokens \in Seq(Tokens)
  BY <1>1, <1>2, BlockOfType DEF NextTokens
<1>4. NextHash \in Seq(Tokens)
  <2>1. <<>> \in Seq(Tokens)
    BY EmptySeq
  <2> QED BY <1>1, <1>3, <2>1, HashType DEF NextHash, NoHash
<1> QED BY <1>1, <1>3, <1>4
-----------------------------------------------------------------------------
LEMMA InitIInv == Init => IInv
<1> SUFFICES ASSUME Init PROVE IInv
  OBVIOUS
<1>1. /\ 0 \in Nat /\ <<>> \in Seq(Tokens) /\ <<>> \in Seq(Blocks) /\ FALSE \in BOOLEAN
      /\ DOMAIN <<>> = {} /\ NumBlocks \in Nat \ {0}
  BY EmptySeq, BlockAssumption
<1>2. /\ free \in Seq(Blocks) /\ DOMAIN free = 1..NumBlocks
      /\ \A i \in 1..NumBlocks : free[i] = i - 1
  <2>1. \A i \in 1..NumBlocks : i - 1 \in Blocks
    BY <1>1 DEF Blocks
  <2>2. free \in [1..NumBlocks -> Blocks]
    BY <2>1 DEF Init
  <2>3. free \in Seq(Blocks)
    BY <2>2, <1>1, SeqDef
  <2> QED BY <2>2, <2>3 DEF Init
<1>3. PoolTypes
  <2>1. refCount \in [Blocks -> Nat] /\ used \subseteq Blocks
    BY <1>1 DEF Init
  <2>2. table \in [Seqs -> Seq(Blocks)]
    BY <1>1 DEF Init
  <2> QED BY <2>1, <2>2, <1>2 DEF PoolTypes
<1>4. ContentTypes
  <2>1. /\ blockHash \in [Blocks -> Seq(Tokens)] /\ blockTokens \in [Blocks -> Seq(Tokens)]
        /\ cached \in [Seqs -> Nat] /\ due \subseteq Seqs /\ raised \in BOOLEAN
    BY <1>1 DEF Init, NoHash
  <2>2. DOMAIN hashTo = {}
    BY <1>1 DEF Init
  <2>3. tokens \in [Seqs -> Seq(Tokens) \ {<<>>}]
    BY BlockAssumption DEF Init
  <2>4. job \in Jobs
    BY DEF Init, Jobs, Idle
  <2> QED BY <2>1, <2>2, <2>3, <2>4 DEF ContentTypes
<1>5. \A b : Holders(b) = {}
  <2>1. \A s \in Seqs : DOMAIN table[s] = {}
    BY <1>1 DEF Init
  <2> QED BY <2>1 DEF Holders, Slots
<1>6. FinitelyHeld /\ RefCountsExact
  BY <1>5, FS_EmptySet DEF FinitelyHeld, RefCountsExact, Init
<1>7. NoLeak
  <2>1. \A i, j \in DOMAIN free : free[i] = free[j] => i = j
    BY <1>2
  <2>2. \A b \in Blocks : b + 1 \in 1..NumBlocks /\ free[b + 1] = b
    BY <1>1, <1>2 DEF Blocks
  <2>3. Range(free) = Blocks
    <3>1. Range(free) \subseteq Blocks
      BY <1>1, <1>2 DEF Range, Blocks
    <3>2. Blocks \subseteq Range(free)
      BY <2>2, <1>2 DEF Range
    <3> QED BY <3>1, <3>2
  <2>4. used = {} /\ {b \in Blocks : refCount[b] > 0} = {}
    BY DEF Init
  <2> QED BY <2>1, <2>3, <2>4 DEF NoLeak
<1>8. DrainsTable
  BY DEF Init, DrainsTable, Idle
<1> QED BY <1>3, <1>4, <1>6, <1>7, <1>8, Parts DEF Accounts

(* A failed call changes nothing that the invariant speaks of.             *)
LEMMA FailStep == IInv /\ Fail => IInv'
<1> SUFFICES ASSUME IInv, Fail PROVE IInv'
  OBVIOUS
<1>1. PoolTypes /\ Accounts /\ ContentTypes
  BY Parts
<1>2. PoolTypes' /\ Accounts'
  BY <1>1, IdleKeepsAccounts DEF Fail, blockVars, poolVars
<1>3. job' = Idle /\ Idle \in Jobs /\ raised' = TRUE
  BY DEF Fail, Jobs
<1>4. ContentTypes'
  BY <1>1, <1>3 DEF Fail, blockVars, ContentTypes, Jobs
<1>5. DrainsTable'
  BY <1>3 DEF DrainsTable, Idle
<1> QED BY <1>2, <1>4, <1>5 DEF IInv, TypeOK, PoolTypes, Accounts, ContentTypes

LEMMA ClearCacheStep == IInv /\ ClearCache => IInv'
<1> SUFFICES ASSUME IInv, ClearCache PROVE IInv'
  OBVIOUS
<1>1. PoolTypes /\ Accounts /\ ContentTypes /\ DrainsTable
  BY Parts
<1>2. PoolTypes' /\ Accounts'
  BY <1>1, IdleKeepsAccounts DEF ClearCache
<1>3. <<>> \in Seq(Tokens) /\ DOMAIN <<>> = {}
  BY EmptySeq
<1>4. /\ blockHash' \in [Blocks -> Seq(Tokens)] /\ blockTokens' \in [Blocks -> Seq(Tokens)]
      /\ DOMAIN hashTo' = {}
  BY <1>1, <1>3 DEF ClearCache, ContentTypes, NoHash
<1>5. /\ tokens' = tokens /\ cached' = cached /\ due' = due /\ job' = job
      /\ raised' = raised /\ table' = table
  BY DEF ClearCache
<1>6. ContentTypes'
  BY <1>1, <1>4, <1>5 DEF ContentTypes, Jobs
<1>7. DrainsTable'
  BY <1>1, <1>5 DEF DrainsTable
<1> QED BY <1>2, <1>6, <1>7 DEF IInv, TypeOK, PoolTypes, Accounts, ContentTypes

LEMMA BeginAllocateStep ==
    ASSUME NEW s \in Seqs, IInv, BeginAllocate(s) PROVE IInv'
<1>1. CASE Fail
  BY <1>1, FailStep
<1>2. CASE ~Fail
  <2>1. PoolTypes /\ Accounts /\ ContentTypes
    BY Parts
  <2>2. /\ job' = [op |-> "allocate", seq |-> s, hash |-> NoHash, miss |-> FALSE]
        /\ UNCHANGED <<blockVars, hashTo, poolVars, tokens, table, cached, due, raised>>
    BY <1>2 DEF BeginAllocate
  <2>3. PoolTypes' /\ Accounts'
    BY <2>1, <2>2, IdleKeepsAccounts DEF blockVars, poolVars
  <2>4. job' \in Jobs
    <3>1. NoHash \in Seq(Tokens)
      BY EmptySeq DEF NoHash
    <3> QED BY <2>2, <3>1 DEF Jobs
  <2>5. ContentTypes'
    BY <2>1, <2>2, <2>4 DEF ContentTypes, blockVars, Jobs
  <2>6. DrainsTable'
    BY <2>2 DEF DrainsTable
  <2> QED BY <2>3, <2>5, <2>6 DEF IInv, TypeOK, PoolTypes, Accounts, ContentTypes
<1> QED BY <1>1, <1>2

LEMMA BeginDeallocateStep ==
    ASSUME NEW s \in Seqs, IInv, MayBeReleased(s), BeginDeallocate(s) PROVE IInv'
<1>1. PoolTypes /\ Accounts /\ ContentTypes
  BY Parts
<1>2. /\ job' = [op |-> "deallocate", seq |-> s] /\ table' = table /\ table[s] # <<>>
      /\ UNCHANGED <<blockVars, hashTo, poolVars, tokens, table, cached, due, raised>>
  BY DEF BeginDeallocate, MayBeReleased
<1>3. PoolTypes' /\ Accounts'
  BY <1>1, <1>2, IdleKeepsAccounts DEF blockVars, poolVars
<1>4. ContentTypes'
  BY <1>1, <1>2 DEF ContentTypes, blockVars, Jobs
<1>5. DrainsTable'
  BY <1>2 DEF DrainsTable
<1> QED BY <1>3, <1>4, <1>5 DEF IInv, TypeOK, PoolTypes, Accounts, ContentTypes

LEMMA AppendTokenStep ==
    ASSUME NEW s \in Seqs, NEW t \in Tokens, IInv, AppendToken(s, t) PROVE IInv'
<1>1. PoolTypes /\ Accounts /\ ContentTypes
  BY Parts
<1>2. PoolTypes' /\ Accounts'
  BY <1>1, IdleKeepsAccounts DEF AppendToken, blockVars, poolVars
<1>3. tokens' \in [Seqs -> Seq(Tokens) \ {<<>>}]
  <2>1. Append(tokens[s], t) \in Seq(Tokens) \ {<<>>}
    BY <1>1, AppendProperties DEF ContentTypes
  <2> QED BY <1>1, <2>1 DEF AppendToken, ContentTypes
<1>4. ContentTypes'
  BY <1>1, <1>3 DEF AppendToken, ContentTypes, blockVars, Jobs
<1>5. DrainsTable'
  BY DEF AppendToken, DrainsTable, Idle
<1> QED BY <1>2, <1>4, <1>5 DEF IInv, TypeOK, PoolTypes, Accounts, ContentTypes

LEMMA DeallocateStep == IInv /\ DeallocateNext => IInv'
<1> SUFFICES ASSUME IInv, DeallocateNext PROVE IInv'
  OBVIOUS
<1>1. CASE Fail
  BY <1>1, FailStep
<1>2. CASE ~Fail
  <2> DEFINE s == job.seq
             b == Last(table[s])
  <2>1. PoolTypes /\ Accounts /\ ContentTypes /\ DrainsTable
    BY Parts
  <2>2. /\ refCount' = [refCount EXCEPT ![b] = @ - 1]
        /\ IF Unheld(b) THEN used' = used \ {b} /\ free' = Append(free, b)
                        ELSE UNCHANGED poolVars
        /\ table' = [table EXCEPT ![s] = Front(@)]
        /\ IF Len(table[s]) = 1
           THEN job' = Idle /\ cached' = [cached EXCEPT ![s] = 0]
           ELSE job' = job /\ cached' = cached
        /\ UNCHANGED <<blockHash, blockTokens, hashTo, tokens, due, raised>>
    BY <1>2 DEF DeallocateNext
  <2>3. job \in [op : {"deallocate"}, seq : Seqs] /\ job.op = "deallocate"
    BY <2>1 DEF DeallocateNext, ContentTypes, Jobs, Idle
  <2>4. s \in Seqs /\ table[s] # <<>> /\ table[s] \in Seq(Blocks)
    BY <2>1, <2>3 DEF DrainsTable, PoolTypes
  <2>5. PoolTypes' /\ Accounts'
    <3> HIDE DEF s
    <3>1. b = Last(table[s])
      OBVIOUS
    <3> HIDE DEF b
    <3> QED BY <3>1, <2>1, <2>2, <2>4, DropKeepsAccounts
  <2>6. ContentTypes'
    <3>1. job' \in Jobs
      BY <2>2, <2>3 DEF Jobs
    <3>2. cached' \in [Seqs -> Nat]
      <4>1. cached' = cached \/ cached' = [cached EXCEPT ![s] = 0]
        BY <2>2
      <4>2. cached \in [Seqs -> Nat]
        BY <2>1 DEF ContentTypes
      <4> HIDE DEF s
      <4> QED BY <4>1, <4>2
    <3> QED BY <2>1, <2>2, <3>1, <3>2 DEF ContentTypes, Jobs
  <2>7. DrainsTable'
    <3>1. CASE Len(table[s]) = 1
      BY <3>1, <2>2 DEF DrainsTable, Idle
    <3>2. CASE Len(table[s]) # 1
      <4>1. job' = job /\ table'[s] = Front(table[s])
        BY <3>2, <2>1, <2>2, <2>4 DEF PoolTypes
      <4>2. Front(table[s]) # <<>>
        <5> DEFINE n == Len(table[s])
                   m == Len(Front(table[s]))
        <5>1. n \in Nat /\ n # 0 /\ n # 1 /\ m = n - 1
          BY <2>4, <3>2, LenProperties, EmptySeq, FrontProperties, Zenon
        <5>2. m # 0
          <6> HIDE DEF n, m
          <6> QED BY <5>1
        <5>3. Len(<<>>) = 0
          BY EmptySeq
        <5> QED BY <5>2, <5>3, Zenon
      <4> QED BY <4>1, <4>2 DEF DrainsTable
    <3> QED BY <3>1, <3>2
  <2> QED BY <2>5, <2>6, <2>7 DEF IInv, TypeOK, PoolTypes, Accounts, ContentTypes
<1> QED BY <1>1, <1>2

(* Placing the block of an iteration of allocate().                        *)
LEMMA PlacedStep ==
    ASSUME PoolTypes, ContentTypes, job.op = "allocate", NEW b \in Blocks, Placed(b),
           blockHash' \in [Blocks -> Seq(Tokens)],
           blockTokens' \in [Blocks -> Seq(Tokens)],
           cached' \in [Seqs -> Nat]
    PROVE  ContentTypes' /\ DrainsTable'
<1> DEFINE s == job.seq
<1>1. /\ s \in Seqs /\ NextHash \in Seq(Tokens) /\ Misses \in BOOLEAN
      /\ job = [op |-> "allocate", seq |-> s, hash |-> job.hash, miss |-> job.miss]
  BY IterationType DEF Misses
<1>2. job' \in Jobs /\ job'.op # "deallocate"
  <2>1. CASE job' = Idle
    BY <2>1 DEF Jobs, Idle
  <2>2. CASE job' = [job EXCEPT !.hash = NextHash, !.miss = Misses]
    <3>1. job' = [op |-> "allocate", seq |-> s, hash |-> NextHash, miss |-> Misses]
      BY <2>2, <1>1
    <3> QED BY <3>1, <1>1 DEF Jobs
  <2> QED BY <2>1, <2>2 DEF Placed
<1>3. due' \subseteq Seqs /\ tokens' = tokens /\ raised' = raised
  BY <1>1 DEF Placed, ContentTypes
<1>4. /\ DOMAIN hashTo' \subseteq Seq(Tokens)
      /\ \A k \in DOMAIN hashTo' : hashTo'[k] \in Blocks
  BY <1>1, RegisteredType DEF Placed
<1>5. ContentTypes'
  BY <1>2, <1>3, <1>4 DEF ContentTypes, Jobs
<1> QED BY <1>2, <1>5 DEF DrainsTable

(* What _allocate_block and update leave in the blocks.                    *)
LEMMA ClaimTypes ==
    ASSUME ContentTypes, NEW b \in Blocks, NEW h \in Seq(Tokens),
           NEW toks \in Seq(Tokens), Claim(b, h, toks)
    PROVE  /\ blockHash' \in [Blocks -> Seq(Tokens)]
           /\ blockTokens' \in [Blocks -> Seq(Tokens)]
<1>1. Contents(b, h, toks) \in Seq(Tokens)
  BY EmptySeq DEF Contents
<1> QED BY <1>1 DEF Claim, ContentTypes

LEMMA HeadType ==
    ASSUME PoolTypes, free # <<>> PROVE Head(free) \in Blocks
BY HeadTailProperties DEF PoolTypes

LEMMA AllocateStep == IInv /\ AllocateNext => IInv'
<1> SUFFICES ASSUME IInv, AllocateNext PROVE IInv'
  OBVIOUS
<1>1. PoolTypes /\ Accounts /\ ContentTypes /\ DrainsTable
  BY Parts
<1>2. /\ job.op = "allocate" /\ job.seq \in Seqs
      /\ NextTokens \in Seq(Tokens) /\ NextHash \in Seq(Tokens)
  BY <1>1, IterationType DEF AllocateNext
<1>3. CASE AllocateFails
  BY <1>3, FailStep DEF AllocateFails
<1>4. CASE AllocateMiss
  <2>1. /\ Head(free) \in Blocks /\ Claim(Head(free), NextHash, NextTokens)
        /\ Placed(Head(free)) /\ cached' = cached
    BY <1>1, <1>4, HeadType DEF AllocateMiss
  <2>2. PoolTypes' /\ Accounts'
    BY <1>1, <1>2, <2>1, ClaimKeepsAccounts DEF Placed
  <2>3. ContentTypes' /\ DrainsTable'
    <3>1. cached' \in [Seqs -> Nat]
      BY <1>1, <2>1 DEF ContentTypes
    <3> QED BY <1>1, <1>2, <2>1, <3>1, ClaimTypes, PlacedStep
  <2> QED BY <2>2, <2>3 DEF IInv, TypeOK, PoolTypes, Accounts, ContentTypes
<1>5. CASE AllocateHit
  <2> DEFINE b == hashTo[NextHash]
  <2>1. b \in Blocks
    BY <1>1, <1>5 DEF AllocateHit, Misses, Hit, ContentTypes
  <2>2. /\ IF b \in used THEN Share(b, NextHash, NextTokens)
                          ELSE Claim(b, NextHash, NextTokens)
        /\ Placed(b)
        /\ cached' = [cached EXCEPT ![job.seq] = @ + BlockSize]
    BY <1>5 DEF AllocateHit
  <2> HIDE DEF b
  <2>3. PoolTypes' /\ Accounts'
    <3>1. CASE b \in used
      BY <3>1, <1>1, <1>2, <2>2, ShareKeepsAccounts DEF Placed
    <3>2. CASE b \notin used
      BY <3>2, <1>1, <1>2, <2>1, <2>2, ClaimKeepsAccounts DEF Placed
    <3> QED BY <3>1, <3>2
  <2>4. /\ blockHash' \in [Blocks -> Seq(Tokens)]
        /\ blockTokens' \in [Blocks -> Seq(Tokens)]
    <3>1. CASE b \in used
      BY <3>1, <1>1, <1>2, <2>2 DEF Share, ContentTypes
    <3>2. CASE b \notin used
      BY <3>2, <1>1, <1>2, <2>1, <2>2, ClaimTypes
    <3> QED BY <3>1, <3>2
  <2>5. cached' \in [Seqs -> Nat]
    <3>1. cached \in [Seqs -> Nat] /\ BlockSize \in Nat
      BY <1>1, BlockAssumption DEF ContentTypes
    <3> QED BY <3>1, <2>2, <1>2
  <2>6. ContentTypes' /\ DrainsTable'
    BY <1>1, <1>2, <2>1, <2>2, <2>4, <2>5, PlacedStep
  <2> QED BY <2>3, <2>6 DEF IInv, TypeOK, PoolTypes, Accounts, ContentTypes
<1> QED BY <1>3, <1>4, <1>5 DEF AllocateNext

LEMMA MayAppendStep ==
    ASSUME NEW s \in Seqs, IInv, MayBeExtended(s), MayAppend(s) PROVE IInv'
<1>1. PoolTypes /\ Accounts /\ ContentTypes /\ job = Idle
  BY Parts DEF MayAppend
<1>2. CASE Fail
  BY <1>2, FailStep
<1>3. ASSUME PoolTypes', Accounts',
             blockHash' \in [Blocks -> Seq(Tokens)],
             blockTokens' \in [Blocks -> Seq(Tokens)],
             DOMAIN hashTo' \subseteq Seq(Tokens),
             \A k \in DOMAIN hashTo' : hashTo'[k] \in Blocks,
             due' = due \cup {s}, UNCHANGED <<tokens, cached, job, raised>>
      PROVE  IInv'
  <2>1. ContentTypes'
    BY <1>1, <1>3 DEF ContentTypes, Jobs
  <2>2. DrainsTable'
    BY <1>1, <1>3 DEF DrainsTable, Idle
  <2> QED BY <1>3, <2>1, <2>2 DEF IInv, TypeOK, PoolTypes, Accounts, ContentTypes
<1>4. CASE ~Fail
  <2>1. /\ OpenBlock(s) \/ SealBlock(s) \/ StayInBlock(s)
        /\ due' = due \cup {s} /\ UNCHANGED <<tokens, cached, job, raised>>
    BY <1>4 DEF MayAppend
  <2>2. CASE OpenBlock(s)
    <3>1. /\ Head(free) \in Blocks /\ Claim(Head(free), NoHash, <<>>)
          /\ Extend(s, Head(free)) /\ hashTo' = hashTo
      BY <1>1, <2>2, HeadType DEF OpenBlock
    <3>2. PoolTypes' /\ Accounts'
      BY <1>1, <3>1, ClaimKeepsAccounts
    <3>3. /\ blockHash' \in [Blocks -> Seq(Tokens)]
          /\ blockTokens' \in [Blocks -> Seq(Tokens)]
      <4>1. NoHash \in Seq(Tokens) /\ <<>> \in Seq(Tokens)
        BY EmptySeq DEF NoHash
      <4> QED BY <1>1, <3>1, <4>1, ClaimTypes
    <3> QED BY <1>1, <1>3, <2>1, <3>1, <3>2, <3>3 DEF ContentTypes
  <2>3. CASE SealBlock(s)
    <3> DEFINE b == Last(table[s])
               toks == BlockOf(s, BlocksOf(s) - 1)
               h == ComputeHash(toks, PrefixHash(s))
    <3>1. /\ blockHash' = [blockHash EXCEPT ![b] = h]
          /\ blockTokens' = [blockTokens EXCEPT ![b] = toks]
          /\ hashTo' = Registered(h, b)
          /\ UNCHANGED <<refCount, poolVars, table>>
      BY <2>3 DEF SealBlock
    <3>2. b \in Blocks /\ table[s] \in Seq(Blocks) /\ table[s] # <<>>
      BY <1>1, FrontProperties DEF MayBeExtended, PoolTypes
    <3>3. toks \in Seq(Tokens)
      <4>1. BlocksOf(s) - 1 \in Nat
        <5> DEFINE n == Len(tokens[s])
        <5>1. n \in Nat \ {0}
          BY <1>1, LenProperties, EmptySeq DEF ContentTypes
        <5>2. BlocksOf(s) = (n + BlockSize - 1) \div BlockSize
          BY DEF BlocksOf
        <5> HIDE DEF n
        <5>3. (n + BlockSize - 1) \div BlockSize \in Nat \ {0}
          BY <5>1, BlockAssumption
        <5> QED BY <5>2, <5>3
      <4> QED BY <4>1, <1>1, BlockOfType
    <3>4. PrefixHash(s) \in Seq(Tokens)
      <4>1. CASE Len(table[s]) > 1
        <5>1. Len(table[s]) - 1 \in DOMAIN table[s]
          BY <4>1, <3>2, LenProperties
        <5>2. table[s][Len(table[s]) - 1] \in Blocks
          BY <5>1, <3>2, LenProperties, ElementOfSeq
        <5> QED BY <1>1, <4>1, <5>2 DEF PrefixHash, ContentTypes
      <4>2. CASE ~(Len(table[s]) > 1)
        BY <4>2, EmptySeq DEF PrefixHash, NoHash
      <4> QED BY <4>1, <4>2
    <3>5. h \in Seq(Tokens)
      BY <3>3, <3>4, HashType
    <3> HIDE DEF b, toks, h
    <3>6. PoolTypes' /\ Accounts'
      BY <1>1, <3>1, IdleKeepsAccounts
    <3>7. /\ DOMAIN hashTo' \subseteq Seq(Tokens)
          /\ \A k \in DOMAIN hashTo' : hashTo'[k] \in Blocks
      BY <1>1, <3>1, <3>2, <3>5, RegisteredType
    <3>8. /\ blockHash' \in [Blocks -> Seq(Tokens)]
          /\ blockTokens' \in [Blocks -> Seq(Tokens)]
      BY <1>1, <3>1, <3>3, <3>5 DEF ContentTypes
    <3> QED BY <1>3, <2>1, <3>6, <3>7, <3>8
  <2>4. CASE StayInBlock(s)
    <3>1. UNCHANGED <<blockVars, hashTo, poolVars, table>>
      BY <2>4 DEF StayInBlock
    <3>2. PoolTypes' /\ Accounts'
      BY <1>1, <3>1, IdleKeepsAccounts DEF blockVars
    <3> QED BY <1>1, <1>3, <2>1, <3>1, <3>2 DEF ContentTypes, blockVars
  <2> QED BY <2>1, <2>2, <2>3, <2>4
<1> QED BY <1>2, <1>4

LEMMA NextIInv == IInv /\ [Next]_bmVars => IInv'
<1> SUFFICES ASSUME IInv, [Next]_bmVars PROVE IInv'
  OBVIOUS
<1>1. CASE ClearCache
  BY <1>1, ClearCacheStep
<1>2. CASE AllocateNext
  BY <1>2, AllocateStep
<1>3. CASE DeallocateNext
  BY <1>3, DeallocateStep
<1>4. CASE \E s \in Seqs : MayBeAllocated(s) /\ BeginAllocate(s)
  BY <1>4, BeginAllocateStep
<1>5. CASE \E s \in Seqs : MayBeExtended(s) /\ MayAppend(s)
  BY <1>5, MayAppendStep
<1>6. CASE \E s \in Seqs : MayBeReleased(s) /\ BeginDeallocate(s)
  BY <1>6, BeginDeallocateStep
<1>7. CASE \E s \in Seqs, t \in Tokens : MaySample(s) /\ AppendToken(s, t)
  BY <1>7, AppendTokenStep
<1>8. CASE UNCHANGED bmVars
  <2>1. PoolTypes /\ Accounts /\ ContentTypes /\ DrainsTable
    BY Parts
  <2>2. PoolTypes' /\ Accounts'
    BY <2>1, <1>8, IdleKeepsAccounts DEF bmVars, blockVars, poolVars
  <2>3. ContentTypes' /\ DrainsTable'
    BY <2>1, <1>8 DEF bmVars, blockVars, poolVars, ContentTypes, DrainsTable, Jobs
  <2> QED BY <2>2, <2>3 DEF IInv, TypeOK, PoolTypes, Accounts, ContentTypes
<1> QED BY <1>1, <1>2, <1>3, <1>4, <1>5, <1>6, <1>7, <1>8 DEF Next

THEOREM Invariance == Spec => []IInv
<1> QED BY InitIInv, NextIInv, PTL DEF Spec
-----------------------------------------------------------------------------
(* The manager's variables keep their types, under every sequence of calls *)
(* its callers may make, in mid-loop and after a failed assertion too.     *)
THEOREM TypeCorrect == Spec => []TypeOK
<1>1. IInv => TypeOK
  BY DEF IInv
<1> QED BY <1>1, Invariance, PTL

(* Block.ref_count is the number of block-table entries that point at the  *)
(* block, whatever prefixes are shared and whatever is released.           *)
THEOREM CountsExact == Spec => []RefCountsExact
<1>1. IInv => RefCountsExact
  BY DEF IInv
<1> QED BY <1>1, Invariance, PTL

(* Every block is either listed once in free_block_ids or is in use, and   *)
(* the blocks in use are those held: none is lost, none handed out twice.  *)
THEOREM NothingLeaks == Spec => []NoLeak
<1>1. IInv => NoLeak
  BY DEF IInv
<1> QED BY <1>1, Invariance, PTL

-----------------------------------------------------------------------------
(* What the blocks hold *)

(* The loop in progress is over the blocks of s.                           *)
OnJob(s) == job # Idle /\ job.seq = s

(* The tokens whose blocks are as they should be: all of them once allocate *)
(* or may_append was called, all but the sampled one before.               *)
Settled(s) ==
    IF s \in due \/ (job.op = "allocate" /\ job.seq = s)
    THEN Len(tokens[s]) ELSE Len(tokens[s]) - 1

(* Block b at place i of the table of s: a full one is sealed and holds the *)
(* tokens of its place, the one after it is open and has one holder.       *)
SlotOK(s, i, b) ==
    /\ (i - 1) * BlockSize < Settled(s)
    /\ IF i * BlockSize <= Settled(s)
       THEN blockHash[b] # NoHash /\ blockTokens[b] = BlockOf(s, i - 1)
       ELSE blockHash[b] = NoHash /\ Holders(b) = {<<s, i>>}

(* Every place of every table.                                             *)
SlotsMatch ==
    \A s \in Seqs : \A i \in DOMAIN table[s] : \A b \in Blocks :
        table[s][i] = b => SlotOK(s, i, b)

(* Outside its own loop a table covers all that is settled.                *)
TablesComplete ==
    \A s \in Seqs : table[s] # <<>> /\ ~OnJob(s) =>
        Len(table[s]) * BlockSize >= Settled(s)

(* A sequence whose next token is computed is not in a loop.               *)
DueHold == \A s \in due : table[s] # <<>> /\ ~OnJob(s)

(* In allocate() a block is left to place, and the free ones suffice.      *)
AllocateFits ==
    job.op = "allocate" =>
        /\ Len(table[job.seq]) < BlocksOf(job.seq)
        /\ BlocksOf(job.seq) <= Len(table[job.seq]) + Len(free)

(* A block without a hash lists no tokens: reset() clears them.            *)
UnhashedAreEmpty == \A b \in Blocks : blockHash[b] = NoHash => blockTokens[b] = <<>>

(* No hash, -1 in the code, is never looked up with success.               *)
NoHashUncached == NoHash \notin DOMAIN hashTo

(* The inductive invariant, over IInv of BlockManagerProofs.               *)
ContentInv ==
    /\ SlotsMatch /\ TablesComplete /\ DueHold /\ AllocateFits
    /\ UnhashedAreEmpty /\ NoHashUncached /\ NeverRaises
-----------------------------------------------------------------------------
(* Division with remainder, the one fact about % that SMT needs.           *)
LEMMA DivMod ==
    ASSUME NEW n \in Nat
    PROVE  /\ n = BlockSize * (n \div BlockSize) + (n % BlockSize)
           /\ n % BlockSize \in 0..(BlockSize - 1) /\ n \div BlockSize \in Nat
BY BlockAssumption

(* The number of blocks that n tokens take.                                *)
LEMMA Ceiling ==
    ASSUME NEW n \in Nat \ {0}, NEW c, c = (n + BlockSize - 1) \div BlockSize
    PROVE  c \in Nat \ {0} /\ c * BlockSize >= n /\ (c - 1) * BlockSize < n
<1>1. BlockSize \in Nat /\ BlockSize >= 2 /\ n + BlockSize - 1 \in Nat
  BY BlockAssumption
<1>2. /\ n + BlockSize - 1 = BlockSize * c + ((n + BlockSize - 1) % BlockSize)
      /\ (n + BlockSize - 1) % BlockSize \in 0..(BlockSize - 1) /\ c \in Nat
  BY <1>1, DivMod
<1>3. c # 0
  BY <1>1, <1>2
<1> QED BY <1>1, <1>2, <1>3

(* Blocks before the one in which the text ends.                           *)
LEMMA NoMoreBlocks ==
    ASSUME NEW n \in Nat, NEW c \in Nat, NEW k \in Nat,
           (c - 1) * BlockSize < n, n <= k * BlockSize
    PROVE  c <= k
<1> SUFFICES ASSUME c > k PROVE FALSE
  OBVIOUS
<1>1. PICK w \in Nat : w = BlockSize
  BY BlockAssumption
<1>2. PICK d \in Nat : c - 1 = k + d
  <2>1. c - 1 - k \in Nat /\ c - 1 = k + (c - 1 - k)
    OBVIOUS
  <2> QED BY <2>1
<1>3. (k + d) * w = k * w + d * w /\ d * w \in Nat /\ k * w \in Nat
  OBVIOUS
<1> QED BY <1>1, <1>2, <1>3

(* More blocks hold more tokens.                                           *)
LEMMA BlocksGrow ==
    ASSUME NEW i \in Nat, NEW k \in Nat, i <= k
    PROVE  i * BlockSize <= k * BlockSize /\ i * BlockSize \in Nat
<1>1. PICK w \in Nat : w = BlockSize
  BY BlockAssumption
<1>2. PICK d \in Nat : k = i + d
  <2>1. k - i \in Nat /\ k = i + (k - i)
    OBVIOUS
  <2> QED BY <2>1
<1>3. (i + d) * w = i * w + d * w /\ d * w \in Nat /\ i * w \in Nat
  OBVIOUS
<1> QED BY <1>1, <1>2, <1>3

(* Sequence.num_blocks is the least number of blocks that suffices.        *)
LEMMA BlocksOfProperties ==
    ASSUME ContentTypes, NEW s \in Seqs
    PROVE  /\ tokens[s] \in Seq(Tokens) /\ Len(tokens[s]) \in Nat \ {0}
           /\ BlocksOf(s) \in Nat \ {0}
           /\ BlocksOf(s) * BlockSize >= Len(tokens[s])
           /\ (BlocksOf(s) - 1) * BlockSize < Len(tokens[s])
<1>1. tokens[s] \in Seq(Tokens) /\ Len(tokens[s]) \in Nat \ {0}
  BY EmptySeq DEF ContentTypes
<1>2. BlocksOf(s) = (Len(tokens[s]) + BlockSize - 1) \div BlockSize
  BY DEF BlocksOf
<1> QED BY <1>1, <1>2, Ceiling

(* Where block number i of a text begins and ends.                         *)
LEMMA BlockBounds ==
    ASSUME NEW i \in Nat \ {0}
    PROVE  /\ (i - 1) * BlockSize \in Nat /\ i * BlockSize \in Nat
           /\ i * BlockSize = (i - 1) * BlockSize + BlockSize
           /\ i - 1 + 1 = i
<1>1. PICK w \in Nat : w = BlockSize
  BY BlockAssumption
<1>2. PICK k \in Nat : i = k + 1 /\ k = i - 1
  OBVIOUS
<1>3. k * w \in Nat
  OBVIOUS
<1>4. (k + 1) * w = k * w + w
  OBVIOUS
<1> QED BY <1>1, <1>2, <1>3, <1>4

(* Block number i of a text, from 1: a full one, and the one at the end.   *)
LEMMA BlockOfProperties ==
    ASSUME ContentTypes, NEW s \in Seqs, NEW i \in Nat \ {0},
           (i - 1) * BlockSize < Len(tokens[s])
    PROVE  /\ BlockOf(s, i - 1) \in Seq(Tokens)
           /\ i * BlockSize <= Len(tokens[s]) =>
                 /\ Len(BlockOf(s, i - 1)) = BlockSize
                 /\ BlockOf(s, i - 1)
                       = SubSeq(tokens[s], (i - 1) * BlockSize + 1, i * BlockSize)
           /\ i * BlockSize > Len(tokens[s]) => Len(BlockOf(s, i - 1)) # BlockSize
<1> DEFINE f == tokens[s]
           n == Len(f)
           m == (i - 1) * BlockSize
           e == i * BlockSize
<1>1. /\ f \in Seq(Tokens) /\ n \in Nat /\ \A j \in 1..n : f[j] \in Tokens
      /\ BlockSize \in Nat /\ BlockSize >= 2
  BY LenProperties, ElementOfSeq, BlockAssumption DEF ContentTypes
<1>2. m \in Nat /\ e \in Nat /\ e = m + BlockSize /\ m < n
  BY BlockBounds
<1>3. BlockOf(s, i - 1) = SubSeq(f, m + 1, IF e < n THEN e ELSE n)
  <2>1. (i - 1 + 1) * BlockSize = e
    BY BlockBounds
  <2> QED BY <2>1 DEF BlockOf
<1> DEFINE x == IF e < n THEN e ELSE n
<1> HIDE DEF f, n, m, e
<1>4. m + 1 \in Int /\ x \in Int /\ \A j \in (m + 1)..x : f[j] \in Tokens
  BY <1>1, <1>2
<1>5. /\ SubSeq(f, m + 1, x) \in Seq(Tokens)
      /\ Len(SubSeq(f, m + 1, x)) = IF m + 1 <= x THEN x - (m + 1) + 1 ELSE 0
  BY <1>4, SubSeqProperties
<1>6. Len(SubSeq(f, m + 1, x)) = x - m
  <2> DEFINE k == Len(SubSeq(f, m + 1, x))
  <2>1. k = IF m + 1 <= x THEN x - (m + 1) + 1 ELSE 0
    BY <1>5
  <2> HIDE DEF k
  <2>2. k = x - m
    BY <2>1, <1>1, <1>2
  <2> QED BY <2>2 DEF k
<1>7. e <= n => x = e
  BY <1>1, <1>2
<1>8. e <= n => x - m = BlockSize
  BY <1>1, <1>2
<1>9. e > n => x - m # BlockSize
  BY <1>1, <1>2
<1>10. BlockOf(s, i - 1) = SubSeq(f, m + 1, x)
  BY <1>3
<1> HIDE DEF x
<1>11. /\ BlockOf(s, i - 1) \in Seq(Tokens)
       /\ e <= n => /\ Len(BlockOf(s, i - 1)) = BlockSize
                    /\ BlockOf(s, i - 1) = SubSeq(f, m + 1, e)
       /\ e > n => Len(BlockOf(s, i - 1)) # BlockSize
  BY <1>5, <1>6, <1>7, <1>8, <1>9, <1>10
<1> QED BY <1>11 DEF f, n, m, e

(* A text that grows keeps its full blocks.                                *)
LEMMA AppendKeepsBlock ==
    ASSUME ContentTypes, ContentTypes', NEW s \in Seqs, NEW t \in Tokens,
           tokens'[s] = Append(tokens[s], t),
           NEW i \in Nat \ {0}, i * BlockSize <= Len(tokens[s])
    PROVE  BlockOf(s, i - 1)' = BlockOf(s, i - 1)
<1> DEFINE f == tokens[s]
           m == (i - 1) * BlockSize
           e == i * BlockSize
<1>1. /\ f \in Seq(Tokens) /\ Len(f) \in Nat /\ BlockSize \in Nat /\ BlockSize >= 2
  BY LenProperties, BlockAssumption DEF ContentTypes
<1>2. m \in Nat /\ e \in Nat /\ e = m + BlockSize /\ (i - 1 + 1) * BlockSize = e
  BY BlockBounds
<1>3. BlockOf(s, i - 1) = SubSeq(f, m + 1, IF e < Len(f) THEN e ELSE Len(f))
  BY <1>2 DEF BlockOf
<1>4. BlockOf(s, i - 1)' = SubSeq(Append(f, t), m + 1,
                                  IF e < Len(Append(f, t)) THEN e ELSE Len(Append(f, t)))
  BY <1>2 DEF BlockOf
<1>5. /\ Append(f, t) = f \o <<t>> /\ <<t>> \in Seq(Tokens)
      /\ Len(Append(f, t)) = Len(f) + 1
  BY <1>1, AppendIsConcat, AppendProperties
<1>6. SubSeq(f \o <<t>>, m + 1, e) = SubSeq(f, m + 1, e)
  <2>1. m + 1 \in 1..Len(f) /\ e \in 1..Len(f)
    BY <1>1, <1>2
  <2> HIDE DEF f, m, e
  <2> QED BY <2>1, <1>1, <1>5, SubSeqOfConcat1
<1>7. BlockOf(s, i - 1) = SubSeq(f, m + 1, e)
  <2>1. (IF e < Len(f) THEN e ELSE Len(f)) = e
    BY <1>1, <1>2
  <2> QED BY <2>1, <1>3
<1>8. BlockOf(s, i - 1)' = SubSeq(f \o <<t>>, m + 1, e)
  <2>1. e < Len(f) + 1
    BY <1>1, <1>2
  <2>2. e < Len(Append(f, t))
    BY <2>1, <1>5
  <2> HIDE DEF m, e, f
  <2> QED BY <2>2, <1>4, <1>5, Zenon
<1> QED BY <1>6, <1>7, <1>8

(* A full block is never without a hash.                                   *)
LEMMA HashOfBlock ==
    ASSUME NEW toks \in Seq(Tokens), NEW p \in Seq(Tokens), Len(toks) = BlockSize
    PROVE  ComputeHash(toks, p) # NoHash /\ toks # <<>>
<1>1. toks # <<>>
  BY EmptySeq, BlockAssumption
<1> QED BY <1>1, ConcatEqualIffEmpty DEF ComputeHash, NoHash
-----------------------------------------------------------------------------
(* A block in a table is in use.                                           *)
LEMMA HeldIsUsed ==
    ASSUME PoolTypes, Accounts, NEW s \in Seqs, NEW i \in DOMAIN table[s],
           NEW b, table[s][i] = b
    PROVE  /\ b \in Blocks /\ <<s, i>> \in Holders(b)
           /\ refCount[b] > 0 /\ b \in used
<1>1. b \in Blocks
  BY LenProperties, ElementOfSeq DEF PoolTypes
<1>2. <<s, i>> \in Holders(b)
  BY HoldersAre DEF Holders, Slots, PointsAt
<1>3. IsFiniteSet(Holders(b)) /\ refCount[b] = Cardinality(Holders(b)) /\ refCount[b] \in Nat
  BY <1>1 DEF Accounts, FinitelyHeld, RefCountsExact, PoolTypes
<1>4. refCount[b] > 0
  BY <1>2, <1>3, FS_EmptySet
<1> QED BY <1>1, <1>2, <1>4 DEF Accounts, NoLeak

(* A count of zero means that no table has the block.                      *)
LEMMA UnheldHasNoHolder ==
    ASSUME PoolTypes, Accounts, NEW b \in Blocks, refCount[b] = 0
    PROVE  Holders(b) = {}
BY FS_EmptySet DEF Accounts, FinitelyHeld, RefCountsExact

(* A free block is there for _allocate_block, unused.                      *)
LEMMA FreeIsUnused ==
    ASSUME PoolTypes, Accounts, NEW b \in Range(free)
    PROVE  b \in Blocks /\ b \notin used /\ refCount[b] = 0
BY DEF PoolTypes, Accounts, NoLeak

(* free_block_ids[0], which may_append and allocate take.                  *)
LEMMA HeadIsFree ==
    ASSUME PoolTypes, Accounts, free # <<>>
    PROVE  /\ Head(free) \in Range(free) /\ Head(free) \in Blocks
           /\ refCount[Head(free)] = 0
<1>1. Head(free) = free[1] /\ 1 \in DOMAIN free
  BY EmptySeq, LenProperties DEF PoolTypes
<1>2. Head(free) \in Range(free)
  BY <1>1 DEF Range
<1> QED BY <1>2, FreeIsUnused

(* The places of the tables once b was appended to the table of s.         *)
LEMMA ExtendSlots ==
    ASSUME table \in [Seqs -> Seq(Blocks)], NEW s \in Seqs, NEW b \in Blocks,
           Extend(s, b), NEW r \in Seqs, NEW i \in DOMAIN table'[r]
    PROVE  \/ i \in DOMAIN table[r] /\ table'[r][i] = table[r][i]
           \/ r = s /\ i = Len(table[s]) + 1 /\ table'[r][i] = b
<1> DEFINE n == Len(table[s])
<1>1. /\ n \in Nat /\ DOMAIN table[s] = 1..n /\ table[s] \in Seq(Blocks)
      /\ table' = [table EXCEPT ![s] = Append(table[s], b)]
  BY LenProperties DEF Extend
<1>2. CASE r # s
  BY <1>1, <1>2
<1>3. CASE r = s
  <2>1. table'[r] = Append(table[s], b)
    BY <1>1, <1>3
  <2>2. /\ table'[r] \in Seq(Blocks) /\ Len(table'[r]) = n + 1
        /\ \A j \in 1..n : table'[r][j] = table[s][j]
        /\ table'[r][n + 1] = b
    BY <2>1, <1>1, AppendProperties
  <2>3. i \in 1..(n + 1)
    BY <2>2, LenProperties
  <2> HIDE DEF n
  <2>4. CASE i = n + 1
    BY <2>2, <2>4, <1>3 DEF n
  <2>5. CASE i # n + 1
    <3>1. i \in 1..n
      BY <2>3, <2>5, <1>1
    <3> QED BY <3>1, <2>2, <1>1, <1>3
  <2> QED BY <2>4, <2>5
<1> QED BY <1>2, <1>3

(* The length of a table to which a block was appended.                    *)
LEMMA ExtendLength ==
    ASSUME table \in [Seqs -> Seq(Blocks)], NEW s \in Seqs, NEW b \in Blocks,
           Extend(s, b)
    PROVE  /\ table'[s] # <<>> /\ Len(table'[s]) = Len(table[s]) + 1
           /\ \A r \in Seqs \ {s} : table'[r] = table[r]
<1>1. table'[s] = Append(table[s], b) /\ \A r \in Seqs \ {s} : table'[r] = table[r]
  BY DEF Extend
<1> QED BY <1>1, AppendProperties

(* A place of a table that a step leaves as it is.                         *)
LEMMA SlotStays ==
    ASSUME NEW s, NEW i, NEW b, SlotOK(s, i, b),
           Settled(s)' = Settled(s), tokens'[s] = tokens[s],
           blockHash'[b] = blockHash[b], blockTokens'[b] = blockTokens[b],
           Holders(b)' = Holders(b)
    PROVE  SlotOK(s, i, b)'
<1>1. BlockOf(s, i - 1)' = BlockOf(s, i - 1)
  BY DEF BlockOf
<1> HIDE DEF Settled
<1> QED BY <1>1 DEF SlotOK

(* Claiming the free block b for s leaves the other places alone.          *)
LEMMA ClaimSlots ==
    ASSUME PoolTypes, Accounts, ContentTypes, NEW s \in Seqs, NEW b \in Blocks,
           NEW h, NEW toks, Claim(b, h, toks), Extend(s, b),
           NEW r \in Seqs, NEW i \in DOMAIN table'[r], NEW c \in Blocks,
           table'[r][i] = c
    PROVE  \/ /\ i \in DOMAIN table[r] /\ table[r][i] = c
              /\ blockHash'[c] = blockHash[c] /\ blockTokens'[c] = blockTokens[c]
              /\ Holders(c)' = Holders(c)
           \/ /\ r = s /\ i = Len(table[s]) + 1 /\ c = b
              /\ blockHash'[b] = h /\ blockTokens'[b] = Contents(b, h, toks)
              /\ Holders(b)' = {<<s, i>>}
<1>1. refCount[b] = 0 /\ table \in [Seqs -> Seq(Blocks)]
  BY DEF Claim, PoolTypes
<1>2. /\ Holders(b) = {} /\ Holders(b)' = Holders(b) \cup {<<s, Len(table[s]) + 1>>}
      /\ \A d \in Blocks \ {b} : Holders(d)' = Holders(d)
  BY <1>1, UnheldHasNoHolder, ExtendHolders
<1>3. /\ blockHash' = [blockHash EXCEPT ![b] = h]
      /\ blockTokens' = [blockTokens EXCEPT ![b] = Contents(b, h, toks)]
      /\ blockHash \in [Blocks -> Seq(Tokens)] /\ blockTokens \in [Blocks -> Seq(Tokens)]
  BY DEF Claim, ContentTypes
<1>4. CASE i \in DOMAIN table[r] /\ table'[r][i] = table[r][i]
  <2>1. c # b
    <3>1. refCount[c] > 0
      BY <1>4, HeldIsUsed
    <3> QED BY <3>1, <1>1
  <2> QED BY <2>1, <1>2, <1>3, <1>4
<1>5. CASE r = s /\ i = Len(table[s]) + 1 /\ table'[r][i] = b
  BY <1>2, <1>3, <1>5
<1> QED BY <1>1, <1>4, <1>5, ExtendSlots
-----------------------------------------------------------------------------
(* The initial state satisfies the invariant.                              *)
LEMMA InitContent == Init => ContentInv
<1> SUFFICES ASSUME Init PROVE ContentInv
  OBVIOUS
<1>1. \A s \in Seqs : table[s] = <<>> /\ DOMAIN table[s] = {}
  BY DEF Init
<1>2. job = Idle /\ job.op # "allocate" /\ due = {} /\ raised = FALSE /\ hashTo = <<>>
  BY DEF Init, Idle
<1>3. DOMAIN hashTo = {}
  BY <1>2
<1>4. UnhashedAreEmpty
  BY DEF Init, UnhashedAreEmpty
<1> QED BY <1>1, <1>2, <1>3, <1>4 DEF ContentInv, SlotsMatch, TablesComplete, DueHold,
           AllocateFits, NoHashUncached, NeverRaises

(* clear_persistent_prefix_cache runs when no table holds a block.         *)
LEMMA ClearCacheContent ==
    ASSUME ContentTypes, ContentInv, ClearCache PROVE ContentInv'
<1>1. \A s \in Seqs : table'[s] = <<>> /\ DOMAIN table'[s] = {}
  BY DEF ClearCache
<1>2. /\ job' = Idle /\ job'.op # "allocate" /\ due' = due /\ raised' = raised
      /\ hashTo' = <<>> /\ table' = table
  BY DEF ClearCache, Idle
<1>3. DOMAIN hashTo' = {}
  BY <1>2
<1>4. UnhashedAreEmpty'
  BY DEF ClearCache, UnhashedAreEmpty, ContentTypes, ContentInv
<1>5. DueHold'
  BY <1>2 DEF ContentInv, DueHold, OnJob
<1> QED BY <1>1, <1>2, <1>3, <1>4, <1>5 DEF ContentInv, SlotsMatch, TablesComplete,
           AllocateFits, NoHashUncached, NeverRaises

(* Steps that change no block and no table.                                *)
LEMMA StillContent ==
    ASSUME ContentInv, UNCHANGED <<blockVars, hashTo, poolVars, tokens, table, raised>>,
           \A s \in Seqs : table[s] # <<>> => Settled(s)' = Settled(s)
    PROVE  SlotsMatch' /\ UnhashedAreEmpty' /\ NoHashUncached' /\ NeverRaises'
<1>1. /\ refCount' = refCount /\ blockHash' = blockHash /\ blockTokens' = blockTokens
      /\ hashTo' = hashTo /\ tokens' = tokens /\ table' = table /\ raised' = raised
  BY DEF blockVars
<1>2. \A b : Holders(b)' = Holders(b)
  BY <1>1 DEF Holders, Slots
<1>3. ASSUME NEW s \in Seqs, NEW i \in DOMAIN table'[s], NEW b \in Blocks, table'[s][i] = b
      PROVE  SlotOK(s, i, b)'
  <2>1. SlotOK(s, i, b)
    BY <1>1, <1>3 DEF ContentInv, SlotsMatch
  <2>2. table[s] # <<>>
    BY <1>1, <1>3
  <2>3. Settled(s)' = Settled(s)
    BY <2>2
  <2> QED BY <1>1, <1>2, <2>1, <2>3, SlotStays
<1>4. SlotsMatch'
  BY <1>3 DEF SlotsMatch
<1> QED BY <1>1, <1>4 DEF ContentInv, UnhashedAreEmpty, NoHashUncached, NeverRaises

(* allocate() starts after can_allocate: the blocks it needs are free.     *)
LEMMA BeginAllocateContent ==
    ASSUME IInv, ContentInv, NEW s \in Seqs, MayBeAllocated(s), BeginAllocate(s)
    PROVE  ContentInv'
<1>1. PoolTypes /\ ContentTypes
  BY Parts
<1>2. /\ job = Idle /\ table[s] = <<>>
      /\ job' = [op |-> "allocate", seq |-> s, hash |-> NoHash, miss |-> FALSE]
      /\ UNCHANGED <<blockVars, hashTo, poolVars, tokens, table, cached, due, raised>>
  BY DEF BeginAllocate, MayBeAllocated
<1>3. \A r \in Seqs : table[r] # <<>> => Settled(r)' = Settled(r)
  <2>1. ASSUME NEW r \in Seqs, table[r] # <<>> PROVE Settled(r)' = Settled(r)
    <3>1. job.op # "allocate" /\ job'.seq # r
      BY <1>2, <2>1 DEF Idle
    <3> QED BY <3>1, <1>2 DEF Settled
  <2> QED BY <2>1
<1>4. SlotsMatch' /\ UnhashedAreEmpty' /\ NoHashUncached' /\ NeverRaises'
  BY <1>2, <1>3, StillContent
<1>5. TablesComplete'
  <2>1. ASSUME NEW r \in Seqs, table'[r] # <<>>
        PROVE  Len(table'[r]) * BlockSize >= Settled(r)'
    <3>1. table' = table /\ Settled(r)' = Settled(r) /\ ~OnJob(r)
      BY <1>2, <1>3, <2>1 DEF OnJob
    <3> QED BY <2>1, <3>1 DEF ContentInv, TablesComplete
  <2> QED BY <2>1 DEF TablesComplete
<1>6. DueHold'
  BY <1>2 DEF ContentInv, DueHold, OnJob
<1>7. AllocateFits'
  <2>1. /\ job'.seq = s /\ table'[s] = <<>> /\ free' = free /\ Len(free) \in Nat
        /\ BlocksOf(s)' = BlocksOf(s) /\ BlocksOf(s) \in Nat \ {0} /\ Len(<<>>) = 0
    BY <1>1, <1>2, BlocksOfProperties DEF BlocksOf, poolVars, PoolTypes
  <2>2. BlocksOf(s) <= Len(free)
    BY <2>1 DEF MayBeAllocated, CanAllocate
  <2>3. BlocksOf(job.seq)' = BlocksOf(s)
    BY <1>2 DEF BlocksOf
  <2> QED BY <2>1, <2>2, <2>3 DEF AllocateFits
<1> QED BY <1>4, <1>5, <1>6, <1>7 DEF ContentInv

(* deallocate() starts on a table that nobody is computing for.            *)
LEMMA BeginDeallocateContent ==
    ASSUME IInv, ContentInv, NEW s \in Seqs, MayBeReleased(s), BeginDeallocate(s)
    PROVE  ContentInv'
<1>1. /\ job = Idle /\ table[s] # <<>> /\ s \notin due
      /\ job' = [op |-> "deallocate", seq |-> s]
      /\ UNCHANGED <<blockVars, hashTo, poolVars, tokens, table, cached, due, raised>>
  BY DEF BeginDeallocate, MayBeReleased
<1>2. \A r \in Seqs : Settled(r)' = Settled(r)
  BY <1>1 DEF Settled, Idle
<1>3. SlotsMatch' /\ UnhashedAreEmpty' /\ NoHashUncached' /\ NeverRaises'
  BY <1>1, <1>2, StillContent
<1>4. TablesComplete'
  <2>1. ASSUME NEW r \in Seqs, table'[r] # <<>>
        PROVE  Len(table'[r]) * BlockSize >= Settled(r)'
    <3>1. table' = table /\ Settled(r)' = Settled(r) /\ ~OnJob(r)
      BY <1>1, <1>2 DEF OnJob
    <3> QED BY <2>1, <3>1 DEF ContentInv, TablesComplete
  <2> QED BY <2>1 DEF TablesComplete
<1>5. DueHold'
  BY <1>1 DEF ContentInv, DueHold, OnJob
<1>6. AllocateFits'
  BY <1>1 DEF AllocateFits
<1> QED BY <1>3, <1>4, <1>5, <1>6 DEF ContentInv

(* A sampled token is not settled: the blocks are as they were.            *)
LEMMA AppendTokenContent ==
    ASSUME IInv, IInv', ContentInv, NEW s \in Seqs, NEW t \in Tokens, s \in due,
           AppendToken(s, t)
    PROVE  ContentInv'
<1>1. ContentTypes /\ ContentTypes' /\ PoolTypes
  BY Parts DEF IInv, TypeOK, ContentTypes
<1>2. /\ job = Idle /\ job' = Idle
      /\ tokens' = [tokens EXCEPT ![s] = Append(tokens[s], t)] /\ due' = due \ {s}
      /\ blockHash' = blockHash /\ blockTokens' = blockTokens /\ refCount' = refCount
      /\ hashTo' = hashTo /\ table' = table /\ free' = free /\ raised' = raised
  BY DEF AppendToken, blockVars, poolVars
<1>3. /\ tokens'[s] = Append(tokens[s], t) /\ Len(tokens'[s]) = Len(tokens[s]) + 1
      /\ Len(tokens[s]) \in Nat /\ \A r \in Seqs \ {s} : tokens'[r] = tokens[r]
  BY <1>1, <1>2, AppendProperties, BlocksOfProperties DEF ContentTypes
<1>4. ASSUME NEW r \in Seqs PROVE Settled(r)' = Settled(r)
  <2>1. job.op # "allocate" /\ job'.op # "allocate"
    BY <1>2 DEF Idle
  <2>2. CASE r = s
    <3>1. Settled(r) = Len(tokens[s]) /\ Settled(r)' = Len(tokens'[s]) - 1
      BY <1>2, <2>1, <2>2 DEF Settled
    <3> QED BY <3>1, <1>3
  <2>3. CASE r # s
    BY <1>2, <1>3, <2>1, <2>3 DEF Settled
  <2> QED BY <2>2, <2>3
<1>5. \A b : Holders(b)' = Holders(b)
  BY <1>2 DEF Holders, Slots
<1>6. ASSUME NEW r \in Seqs, NEW i \in DOMAIN table'[r], NEW b \in Blocks, table'[r][i] = b
      PROVE  SlotOK(r, i, b)'
  <2>1. SlotOK(r, i, b)
    BY <1>2, <1>6 DEF ContentInv, SlotsMatch
  <2>2. CASE r # s
    BY <2>1, <2>2, <1>2, <1>3, <1>4, <1>5, SlotStays
  <2>3. CASE r = s
    <3>1. i \in Nat \ {0} /\ Settled(s) = Len(tokens[s]) /\ Settled(s)' = Len(tokens[s])
      <4>1. i \in 1..Len(table[s]) /\ Len(table[s]) \in Nat
        BY <1>1, <1>2, <1>6, <2>3, LenProperties DEF PoolTypes
      <4> QED BY <4>1, <1>4 DEF Settled
    <3>2. i * BlockSize <= Len(tokens[s]) => BlockOf(s, i - 1)' = BlockOf(s, i - 1)
      BY <3>1, <1>1, <1>3, AppendKeepsBlock
    <3> QED BY <2>1, <2>3, <3>1, <3>2, <1>2, <1>5 DEF SlotOK
  <2> QED BY <2>2, <2>3
<1>7. SlotsMatch'
  BY <1>6 DEF SlotsMatch
<1>8. TablesComplete'
  BY <1>2, <1>4 DEF ContentInv, TablesComplete, OnJob
<1>9. DueHold'
  BY <1>2 DEF ContentInv, DueHold, OnJob
<1>10. AllocateFits'
  BY <1>2 DEF AllocateFits, Idle
<1> QED BY <1>2, <1>7, <1>8, <1>9, <1>10 DEF ContentInv, UnhashedAreEmpty, NoHashUncached,
           NeverRaises

(* The last block leaves the table; another holder keeps a full one.       *)
LEMMA DeallocateContent ==
    ASSUME IInv, IInv', ContentInv, DeallocateNext PROVE ContentInv'
<1>0. PICK s, b, n : s = job.seq /\ b = Last(table[s]) /\ n = Len(table[s])
  OBVIOUS
<1>1. PoolTypes /\ Accounts /\ ContentTypes /\ DrainsTable
  BY Parts
<1>2. job \in [op : {"deallocate"}, seq : Seqs] /\ job.op = "deallocate" /\ job # Idle
  BY <1>1 DEF DeallocateNext, ContentTypes, Jobs, Idle
<1>3. s \in Seqs /\ table[s] # <<>> /\ table[s] \in Seq(Blocks)
  BY <1>0, <1>1, <1>2 DEF DrainsTable, PoolTypes
<1>4. /\ n \in DOMAIN table[s] /\ n \in Nat \ {0} /\ DOMAIN table[s] = 1..n
      /\ b = table[s][n] /\ b \in Blocks /\ b \in used
      /\ Len(Front(table[s])) = n - 1
  <2>1. /\ Len(table[s]) \in DOMAIN table[s] /\ Last(table[s]) = table[s][Len(table[s])]
        /\ Len(table[s]) \in Nat \ {0} /\ DOMAIN table[s] = 1..Len(table[s])
        /\ Len(Front(table[s])) = Len(table[s]) - 1
    BY <1>3, FrontProperties, EmptySeq, LenProperties
  <2> QED BY <2>1, <1>0, <1>1, <1>3, HeldIsUsed
<1>5. /\ table' = [table EXCEPT ![s] = Front(@)]
      /\ IF n = 1 THEN job' = Idle ELSE job' = job
      /\ UNCHANGED <<blockHash, blockTokens, hashTo, tokens, due, raised>>
  BY <1>0, <1>4 DEF DeallocateNext
<1>6. /\ table' \in [Seqs -> Seq(Blocks)] /\ Len(table'[s]) = n - 1
      /\ Holders(b)' = Holders(b) \ {<<s, n>>}
      /\ \A c \in Blocks \ {b} : Holders(c)' = Holders(c)
      /\ \A r \in Seqs \ {s} : table'[r] = table[r]
      /\ table'[s] = Front(table[s])
  BY <1>0, <1>1, <1>3, <1>5, DropHolders DEF PoolTypes
<1>7. \A r \in Seqs : Settled(r)' = Settled(r)
  <2>1. job'.op # "allocate" /\ job.op # "allocate"
    BY <1>2, <1>5 DEF Idle
  <2> QED BY <2>1, <1>5 DEF Settled
<1>8. ASSUME NEW r \in Seqs, NEW i \in DOMAIN table'[r], NEW c \in Blocks, table'[r][i] = c
      PROVE  SlotOK(r, i, c)'
  <2>1. i \in DOMAIN table[r] /\ table[r][i] = c /\ <<r, i>> # <<s, n>>
    <3>1. CASE r # s
      BY <3>1, <1>6, <1>8
    <3>2. CASE r = s
      <4>1. i \in 1..(n - 1)
        <5>1. DOMAIN table'[s] = 1..Len(table'[s])
          BY <1>3, <1>6, LenProperties
        <5> QED BY <5>1, <3>2, <1>6, <1>8
      <4>2. i \in 1..n /\ i # n
        BY <4>1, <1>4
      <4>3. Front(table[s])[i] = table[s][i]
        BY <4>1, <1>0, <1>3, FrontProperties
      <4> QED BY <4>2, <4>3, <3>2, <1>4, <1>6, <1>8
    <3> QED BY <3>1, <3>2
  <2>2. SlotOK(r, i, c)
    BY <2>1, <1>8 DEF ContentInv, SlotsMatch
  <2>3. CASE c # b
    BY <2>2, <2>3, <1>5, <1>6, <1>7, SlotStays
  <2>4. CASE c = b
    <3>1. <<s, n>> \in Holders(b)
      BY <1>1, <1>3, <1>4, HeldIsUsed
    <3>2. i * BlockSize <= Settled(r)
      BY <2>1, <2>2, <2>4, <3>1 DEF SlotOK
    <3>3. BlockOf(r, i - 1)' = BlockOf(r, i - 1)
      BY <1>5 DEF BlockOf
    <3> QED BY <2>2, <3>2, <3>3, <1>5, <1>7 DEF SlotOK
  <2> QED BY <2>3, <2>4
<1>9. SlotsMatch'
  BY <1>8 DEF SlotsMatch
<1>10. TablesComplete'
  <2>1. ASSUME NEW r \in Seqs, table'[r] # <<>>, ~OnJob(r)'
        PROVE  Len(table'[r]) * BlockSize >= Settled(r)'
    <3>1. CASE r # s
      <4>1. table'[r] = table[r] /\ ~OnJob(r)
        BY <3>1, <1>0, <1>6 DEF OnJob
      <4> QED BY <4>1, <2>1, <1>7 DEF ContentInv, TablesComplete
    <3>2. CASE r = s
      <4>1. n = 1
        BY <2>1, <3>2, <1>0, <1>2, <1>5 DEF OnJob
      <4>2. Len(table'[s]) = 0
        BY <4>1, <1>6
      <4>3. Len(table'[s]) # 0
        BY <2>1, <3>2, <1>6, EmptySeq
      <4> QED BY <4>2, <4>3
    <3> QED BY <3>1, <3>2
  <2> QED BY <2>1 DEF TablesComplete
<1>11. DueHold'
  <2>1. s \notin due
    BY <1>0, <1>2 DEF ContentInv, DueHold, OnJob
  <2>2. ASSUME NEW r \in due' PROVE table'[r] # <<>> /\ ~OnJob(r)'
    <3>1. r \in due /\ r # s /\ r \in Seqs
      BY <2>1, <2>2, <1>1, <1>5 DEF ContentTypes
    <3>2. table[r] # <<>> /\ ~OnJob(r) /\ table'[r] = table[r]
      BY <3>1, <1>6 DEF ContentInv, DueHold
    <3> QED BY <3>1, <3>2, <1>0, <1>5 DEF OnJob, Idle
  <2> QED BY <2>2 DEF DueHold
<1>12. AllocateFits'
  BY <1>2, <1>5 DEF AllocateFits, Idle
<1> QED BY <1>5, <1>9, <1>10, <1>11, <1>12 DEF ContentInv, UnhashedAreEmpty,
           NoHashUncached, NeverRaises

(* The block that allocate() is about to fill.                             *)
LEMMA NextBlock ==
    ASSUME PoolTypes, ContentTypes, ContentInv, job.op = "allocate",
           NEW s, s = job.seq, NEW n, n = Len(table[s]) + 1
    PROVE  /\ s \in Seqs /\ n \in Nat \ {0} /\ Settled(s) = Len(tokens[s])
           /\ NextTokens = BlockOf(s, n - 1) /\ NextTokens \in Seq(Tokens)
           /\ (n - 1) * BlockSize < Settled(s)
           /\ n * BlockSize <= Settled(s) =>
                 /\ Len(NextTokens) = BlockSize /\ NextTokens # <<>> /\ NextHash # NoHash
           /\ n * BlockSize > Settled(s) => NextHash = NoHash /\ Misses
           /\ n <= BlocksOf(s) /\ BlocksOf(s) \in Nat
<1>1. /\ s \in Seqs /\ job.hash \in Seq(Tokens) /\ Len(table[s]) \in Nat
      /\ NextTokens \in Seq(Tokens)
  BY IterationType, LenProperties DEF PoolTypes
<1>2. n \in Nat \ {0} /\ Settled(s) = Len(tokens[s]) /\ n - 1 = Len(table[s])
  BY <1>1 DEF Settled
<1>3. NextTokens = BlockOf(s, n - 1)
  BY <1>2 DEF NextTokens
<1>4. /\ BlocksOf(s) \in Nat \ {0} /\ (BlocksOf(s) - 1) * BlockSize < Len(tokens[s])
      /\ Len(tokens[s]) \in Nat \ {0}
  BY <1>1, BlocksOfProperties
<1>5. n <= BlocksOf(s)
  BY <1>1, <1>2, <1>4 DEF ContentInv, AllocateFits
<1>6. (n - 1) * BlockSize < Len(tokens[s])
  <2>1. n - 1 \in Nat /\ BlocksOf(s) - 1 \in Nat /\ n - 1 <= BlocksOf(s) - 1
    BY <1>2, <1>4, <1>5
  <2>2. (n - 1) * BlockSize <= (BlocksOf(s) - 1) * BlockSize /\ (n - 1) * BlockSize \in Nat
        /\ (BlocksOf(s) - 1) * BlockSize \in Nat
    BY <2>1, BlocksGrow
  <2> QED BY <2>2, <1>4
<1>7. /\ n * BlockSize <= Len(tokens[s]) => Len(NextTokens) = BlockSize
      /\ n * BlockSize > Len(tokens[s]) => Len(NextTokens) # BlockSize
  BY <1>1, <1>2, <1>3, <1>6, BlockOfProperties
<1>8. n * BlockSize <= Settled(s) =>
         Len(NextTokens) = BlockSize /\ NextTokens # <<>> /\ NextHash # NoHash
  BY <1>1, <1>2, <1>7, HashOfBlock DEF NextHash
<1>9. n * BlockSize > Settled(s) => NextHash = NoHash /\ Misses
  BY <1>2, <1>7 DEF NextHash, Misses, Hit, ContentInv, NoHashUncached
<1> QED BY <1>1, <1>2, <1>3, <1>4, <1>5, <1>6, <1>8, <1>9

(* Nothing else of the manager's state than the block placed.              *)
LEMMA PlacedContent ==
    ASSUME PoolTypes, ContentTypes, ContentInv, job.op = "allocate",
           NEW s, s = job.seq, NEW b \in Blocks, Placed(b),
           Len(free) - 1 <= Len(free'), Len(free') \in Nat
    PROVE  /\ \A r \in Seqs : Settled(r)' = Settled(r)
           /\ TablesComplete' /\ DueHold' /\ AllocateFits' /\ NoHashUncached' /\ NeverRaises'
<1> DEFINE n == Len(table[s]) + 1
<1>1. /\ s \in Seqs /\ n \in Nat \ {0} /\ n <= BlocksOf(s) /\ BlocksOf(s) \in Nat
      /\ Len(table[s]) \in Nat
  BY NextBlock, LenProperties DEF PoolTypes
<1>2. /\ job = [op |-> "allocate", seq |-> s, hash |-> job.hash, miss |-> job.miss]
      /\ job # Idle
  BY IterationType DEF Idle
<1>3. /\ table'[s] # <<>> /\ Len(table'[s]) = n
      /\ \A r \in Seqs \ {s} : table'[r] = table[r]
  BY <1>1, ExtendLength DEF Placed, PoolTypes
<1>4. /\ tokens' = tokens /\ raised' = raised /\ hashTo' = Registered(NextHash, b)
      /\ \/ job' = Idle /\ due' = due \cup {s} /\ n = BlocksOf(s)
         \/ /\ job' = [job EXCEPT !.hash = NextHash, !.miss = Misses]
            /\ due' = due /\ n # BlocksOf(s)
  BY DEF Placed
<1> HIDE DEF n
<1>5. \/ job'.op # "allocate" /\ job' = Idle /\ due' = due \cup {s}
      \/ job'.op = "allocate" /\ job'.seq = s /\ job' # Idle /\ due' = due
  <2>1. CASE job' = Idle
    BY <2>1, <1>2, <1>4 DEF Idle
  <2>2. CASE job' = [job EXCEPT !.hash = NextHash, !.miss = Misses]
    <3>1. job' = [op |-> "allocate", seq |-> s, hash |-> NextHash, miss |-> Misses]
      BY <2>2, <1>2
    <3>2. job'.op = "allocate" /\ job'.seq = s
      BY <3>1
    <3>3. job' # Idle
      BY <3>1 DEF Idle
    <3>4. due' = due
      BY <3>3, <1>4
    <3> QED BY <3>2, <3>3, <3>4
  <2> QED BY <2>1, <2>2, <1>4
<1>6. ASSUME NEW r \in Seqs PROVE Settled(r)' = Settled(r)
  <2>1. job.op = "allocate" /\ job.seq = s /\ tokens' = tokens
    BY <1>4
  <2> QED BY <2>1, <1>5 DEF Settled
<1>7. NoHashUncached'
  BY <1>4 DEF Registered, ContentInv, NoHashUncached
<1>8. TablesComplete'
  <2>1. ASSUME NEW r \in Seqs, table'[r] # <<>>, ~OnJob(r)'
        PROVE  Len(table'[r]) * BlockSize >= Settled(r)'
    <3>1. CASE r # s
      <4>1. ~OnJob(r) /\ table'[r] = table[r]
        BY <3>1, <1>3 DEF OnJob
      <4> QED BY <4>1, <2>1, <1>6 DEF ContentInv, TablesComplete
    <3>2. CASE r = s
      <4>1. job' = Idle
        BY <2>1, <3>2, <1>5 DEF OnJob
      <4>2. n = BlocksOf(s)
        <5>1. CASE job' = [job EXCEPT !.hash = NextHash, !.miss = Misses]
          <6>1. job' = [op |-> "allocate", seq |-> s, hash |-> NextHash, miss |-> Misses]
            BY <5>1, <1>2
          <6> QED BY <6>1, <4>1 DEF Idle
        <5> QED BY <5>1, <1>4
      <4>3. BlocksOf(s) * BlockSize >= Len(tokens[s])
        BY <1>1, BlocksOfProperties
      <4>4. Settled(s) = Len(tokens[s])
        BY DEF Settled
      <4> QED BY <4>2, <4>3, <4>4, <3>2, <1>3, <1>6
    <3> QED BY <3>1, <3>2
  <2> QED BY <2>1 DEF TablesComplete
<1>9. DueHold'
  <2>1. ASSUME NEW r \in due' PROVE table'[r] # <<>> /\ ~OnJob(r)'
    <3>1. CASE r = s /\ job' = Idle
      BY <3>1, <1>3 DEF OnJob
    <3>2. CASE r # s
      <4>1. r \in due /\ r \in Seqs
        BY <3>2, <2>1, <1>5 DEF ContentTypes
      <4>2. table[r] # <<>>
        BY <4>1 DEF ContentInv, DueHold
      <4> QED BY <4>1, <4>2, <3>2, <1>3, <1>5 DEF OnJob
    <3>3. CASE r = s /\ job' # Idle
      <4>1. s \in due
        BY <3>3, <2>1, <1>5
      <4> QED BY <4>1, <1>2 DEF ContentInv, DueHold, OnJob
    <3> QED BY <3>1, <3>2, <3>3
  <2> QED BY <2>1 DEF DueHold
<1>10. AllocateFits'
  <2>1. CASE job'.op # "allocate"
    BY <2>1 DEF AllocateFits
  <2>2. CASE job'.op = "allocate"
    <3>1. job'.seq = s /\ n # BlocksOf(s)
      BY <2>2, <1>4, <1>5 DEF Idle
    <3>2. BlocksOf(job.seq)' = BlocksOf(s)
      BY <3>1, <1>4 DEF BlocksOf
    <3>3. BlocksOf(s) <= Len(table[s]) + Len(free) /\ Len(free) \in Nat
      BY LenProperties DEF ContentInv, AllocateFits, PoolTypes
    <3>4. n < BlocksOf(s)
      BY <3>1, <1>1
    <3>5. BlocksOf(s) <= n + Len(free')
      BY <3>3, <1>1 DEF n
    <3> QED BY <3>1, <3>2, <3>4, <3>5, <1>3 DEF AllocateFits
  <2> QED BY <2>1, <2>2
<1> QED BY <1>4, <1>6, <1>7, <1>8, <1>9, <1>10 DEF ContentInv, NeverRaises

(* allocate() takes a free block for the next tokens.                      *)
LEMMA ClaimContent ==
    ASSUME PoolTypes, Accounts, ContentTypes, ContentInv, job.op = "allocate",
           NEW s, s = job.seq, NEW b \in Blocks,
           Claim(b, NextHash, NextTokens), Placed(b)
    PROVE  ContentInv'
<1>0. PICK n : n = Len(table[s]) + 1
  OBVIOUS
<1>1. /\ s \in Seqs /\ Settled(s) = Len(tokens[s])
      /\ NextTokens = BlockOf(s, n - 1) /\ (n - 1) * BlockSize < Settled(s)
      /\ n * BlockSize <= Settled(s) => NextHash # NoHash
      /\ n * BlockSize > Settled(s) => NextHash = NoHash
      /\ n \in Nat \ {0} /\ Len(tokens[s]) \in Nat
  BY <1>0, NextBlock, BlocksOfProperties
<1>2. Len(free') = Len(free) - 1 /\ Len(free') \in Nat /\ Len(free) \in Nat
  <2>1. PICK k \in DOMAIN free : free' = RemoveAt(free, k)
    BY DEF Claim, Unfree
  <2>2. Len(free') = Len(free) - 1 /\ free' \in Seq(Blocks)
    BY <2>1, RemoveAtProperties DEF PoolTypes
  <2> QED BY <2>2, LenProperties DEF PoolTypes
<1>3. Len(free) - 1 <= Len(free') /\ Len(free') \in Nat
  BY <1>2
<1>4. /\ \A r \in Seqs : Settled(r)' = Settled(r)
      /\ TablesComplete' /\ DueHold' /\ AllocateFits' /\ NoHashUncached' /\ NeverRaises'
  BY <1>3, PlacedContent
<1>5. Extend(s, b) /\ tokens' = tokens
  BY DEF Placed
<1>6. ASSUME NEW r \in Seqs, NEW i \in DOMAIN table'[r], NEW c \in Blocks, table'[r][i] = c
      PROVE  SlotOK(r, i, c)'
  <2>1. CASE /\ i \in DOMAIN table[r] /\ table[r][i] = c
             /\ blockHash'[c] = blockHash[c] /\ blockTokens'[c] = blockTokens[c]
             /\ Holders(c)' = Holders(c)
    <3>1. SlotOK(r, i, c)
      BY <2>1 DEF ContentInv, SlotsMatch
    <3> QED BY <3>1, <2>1, <1>4, <1>5, SlotStays
  <2>2. CASE /\ r = s /\ i = n /\ c = b
             /\ blockHash'[b] = NextHash /\ blockTokens'[b] = Contents(b, NextHash, NextTokens)
             /\ Holders(b)' = {<<s, i>>}
    <3>1. BlockOf(s, n - 1)' = BlockOf(s, n - 1)
      BY <1>5 DEF BlockOf
    <3>2. Settled(s)' = Settled(s)
      BY <1>1, <1>4
    <3> HIDE DEF Settled
    <3>3. CASE n * BlockSize <= Settled(s)
      BY <3>1, <3>2, <3>3, <2>2, <1>1 DEF SlotOK, Contents
    <3>4. CASE ~(n * BlockSize <= Settled(s))
      <4>1. NextHash = NoHash
        <5>1. n * BlockSize \in Int /\ Settled(s) \in Int
          BY <1>1, BlockAssumption
        <5> QED BY <5>1, <3>4, <1>1
      <4> QED BY <4>1, <3>2, <3>4, <2>2, <1>1 DEF SlotOK
    <3> QED BY <3>3, <3>4
  <2> QED BY <2>1, <2>2, <1>0, <1>1, <1>5, <1>6, ClaimSlots
<1>7. SlotsMatch'
  BY <1>6 DEF SlotsMatch
<1>8. UnhashedAreEmpty'
  <2>1. /\ blockHash' = [blockHash EXCEPT ![b] = NextHash]
        /\ blockTokens' = [blockTokens EXCEPT ![b] = Contents(b, NextHash, NextTokens)]
    BY DEF Claim
  <2> QED BY <2>1 DEF ContentInv, UnhashedAreEmpty, ContentTypes, Contents
<1> QED BY <1>4, <1>7, <1>8 DEF ContentInv

(* allocate() finds the next tokens in a block in use.                     *)
LEMMA ShareContent ==
    ASSUME PoolTypes, Accounts, ContentTypes, ContentInv, job.op = "allocate",
           NEW s, s = job.seq, NEW b \in Blocks, ~Misses, b = hashTo[NextHash],
           Share(b, NextHash, NextTokens), Placed(b)
    PROVE  ContentInv'
<1> DEFINE n == Len(table[s]) + 1
<1>1. /\ s \in Seqs /\ Settled(s) = Len(tokens[s])
      /\ NextTokens = BlockOf(s, n - 1) /\ (n - 1) * BlockSize < Settled(s)
      /\ n * BlockSize <= Settled(s) => NextHash # NoHash /\ NextTokens # <<>>
      /\ n * BlockSize > Settled(s) => Misses
      /\ n \in Nat \ {0} /\ Len(tokens[s]) \in Nat
  BY NextBlock, BlocksOfProperties
<1>2. n * BlockSize <= Settled(s) /\ NextHash # NoHash /\ NextTokens # <<>>
  <2>1. n * BlockSize \in Int /\ Settled(s) \in Int
    BY <1>1, BlockAssumption
  <2> QED BY <2>1, <1>1
<1>3. blockTokens[b] = NextTokens /\ blockHash[b] # NoHash
  BY <1>2 DEF Misses, Hit, ContentInv, UnhashedAreEmpty
<1>4. free' = free /\ Len(free) \in Nat
  BY LenProperties DEF Share, poolVars, PoolTypes
<1>5. Len(free) - 1 <= Len(free') /\ Len(free') \in Nat
  BY <1>4
<1>6. /\ \A r \in Seqs : Settled(r)' = Settled(r)
      /\ TablesComplete' /\ DueHold' /\ AllocateFits' /\ NoHashUncached' /\ NeverRaises'
  BY <1>5, PlacedContent
<1>7. Extend(s, b) /\ tokens' = tokens /\ table \in [Seqs -> Seq(Blocks)]
  BY DEF Placed, PoolTypes
<1>8. /\ blockHash' = [blockHash EXCEPT ![b] = NextHash]
      /\ blockTokens' = [blockTokens EXCEPT ![b] = NextTokens]
      /\ blockHash \in [Blocks -> Seq(Tokens)] /\ blockTokens \in [Blocks -> Seq(Tokens)]
  BY DEF Share, ContentTypes
<1>9. /\ blockHash'[b] # NoHash /\ blockTokens' = blockTokens
      /\ \A c \in Blocks \ {b} : blockHash'[c] = blockHash[c] /\ Holders(c)' = Holders(c)
  BY <1>1, <1>2, <1>3, <1>7, <1>8, ExtendHolders
<1> HIDE DEF n
<1>10. ASSUME NEW r \in Seqs, NEW i \in DOMAIN table'[r], NEW c \in Blocks, table'[r][i] = c
       PROVE  SlotOK(r, i, c)'
  <2>1. BlockOf(r, i - 1)' = BlockOf(r, i - 1)
    BY <1>7 DEF BlockOf
  <2>2. Settled(r)' = Settled(r)
    BY <1>6
  <2>3. CASE i \in DOMAIN table[r] /\ table'[r][i] = table[r][i]
    <3>1. SlotOK(r, i, c)
      BY <2>3, <1>10 DEF ContentInv, SlotsMatch
    <3>2. CASE c = b
      BY <3>1, <3>2, <2>1, <2>2, <1>3, <1>9 DEF SlotOK
    <3>3. CASE c # b
      BY <3>1, <3>3, <2>2, <1>7, <1>9, SlotStays
    <3> QED BY <3>2, <3>3
  <2>4. CASE r = s /\ i = n /\ table'[r][i] = b
    BY <2>1, <2>2, <2>4, <1>1, <1>2, <1>3, <1>9, <1>10 DEF SlotOK
  <2> QED BY <2>3, <2>4, <1>1, <1>7, ExtendSlots DEF n
<1>11. SlotsMatch'
  BY <1>10 DEF SlotsMatch
<1>12. UnhashedAreEmpty'
  BY <1>9 DEF ContentInv, UnhashedAreEmpty
<1> QED BY <1>6, <1>11, <1>12 DEF ContentInv

(* One iteration of allocate(): it never lacks a block.                    *)
LEMMA AllocateContent ==
    ASSUME IInv, ContentInv, AllocateNext PROVE ContentInv'
<1>1. PoolTypes /\ Accounts /\ ContentTypes /\ job.op = "allocate"
  BY Parts DEF AllocateNext
<1>2. PICK s : s = job.seq
  OBVIOUS
<1>3. Misses => free # <<>>
  <2>1. /\ Len(table[s]) \in Nat /\ Len(free) \in Nat /\ Len(table[s]) < BlocksOf(s)
        /\ BlocksOf(s) <= Len(table[s]) + Len(free) /\ BlocksOf(s) \in Nat
    <3>1. s \in Seqs
      BY <1>1, <1>2, IterationType
    <3> QED BY <3>1, <1>1, <1>2, LenProperties, BlocksOfProperties
            DEF PoolTypes, ContentInv, AllocateFits
  <2>2. Len(free) # 0
    BY <2>1
  <2> QED BY <2>2, EmptySeq
<1>4. CASE AllocateMiss
  <2>1. PICK b : b = Head(free)
    OBVIOUS
  <2>2. b \in Blocks /\ Claim(b, NextHash, NextTokens) /\ Placed(b)
    BY <2>1, <1>1, <1>4, HeadIsFree DEF AllocateMiss
  <2> QED BY <2>2, <1>1, <1>2, ClaimContent
<1>5. ASSUME ~Misses
      PROVE  hashTo[NextHash] \in Blocks
  BY <1>1, <1>5 DEF Misses, Hit, ContentTypes
<1>6. CASE AllocateHit
  <2>1. PICK b : b = hashTo[NextHash]
    OBVIOUS
  <2>2. ~Misses /\ b \in Blocks /\ Placed(b)
        /\ IF b \in used THEN Share(b, NextHash, NextTokens) ELSE Claim(b, NextHash, NextTokens)
    BY <2>1, <1>5, <1>6 DEF AllocateHit
  <2>3. CASE b \in used
    BY <2>1, <2>2, <2>3, <1>1, <1>2, ShareContent
  <2>4. CASE b \notin used
    BY <2>2, <2>4, <1>1, <1>2, ClaimContent
  <2> QED BY <2>3, <2>4
<1>7. ~AllocateFails
  <2>1. CASE Misses
    <3>1. free # <<>> /\ refCount[Head(free)] = 0
      BY <2>1, <1>1, <1>3, HeadIsFree
    <3> QED BY <2>1, <3>1 DEF AllocateFails
  <2>2. CASE ~Misses
    <3>1. PICK b : b = hashTo[NextHash]
      OBVIOUS
    <3>2. b \notin used => refCount[b] = 0 /\ b \in Range(free)
      BY <3>1, <2>2, <1>1, <1>5 DEF Accounts, NoLeak, PoolTypes
    <3> QED BY <2>2, <3>1, <3>2 DEF AllocateFails
  <2> QED BY <2>1, <2>2
<1> QED BY <1>4, <1>6, <1>7 DEF AllocateNext
-----------------------------------------------------------------------------
(* Where the text ends, when its last block is number n of the table.      *)
LEMMA EndOfText ==
    ASSUME NEW n \in Nat \ {0}, NEW k \in Nat \ {0}, NEW g, g = k % BlockSize,
           NEW e, e = n * BlockSize, (n - 1) * BlockSize < k - 1, k - 1 <= e
    PROVE  /\ g = 1 => e = k - 1
           /\ g = 0 => e = k
           /\ g \notin {0, 1} => e > k /\ \A i \in Nat : i * BlockSize # k
<1>1. PICK q \in Nat, f \in 0..(BlockSize - 1) :
          k = BlockSize * q + f /\ f = g
  BY DivMod
<1>2. BlockSize \in Nat /\ BlockSize >= 2 /\ k = q * BlockSize + f
  <2>1. BlockSize * q = q * BlockSize /\ k = BlockSize * q + f
    BY <1>1, BlockAssumption
  <2> QED BY <2>1, BlockAssumption
<1>3. CASE f = 1
  <2>1. k - 1 = q * BlockSize
    BY <1>2, <1>3, BlocksGrow
  <2>2. (q - 1) * BlockSize < q * BlockSize
    BY <1>1, <1>2
  <2>3. n <= q /\ q <= n
    <3>1. n <= q
      BY <2>1, NoMoreBlocks, <1>1
    <3>2. q <= n
      BY <2>1, <2>2, NoMoreBlocks, <1>1
    <3> QED BY <3>1, <3>2
  <2>4. n = q
    BY <2>3
  <2>5. e = k - 1 /\ g = 1
    BY <2>1, <2>4, <1>1, <1>3
  <2> QED BY <2>5
<1>4. CASE f = 0
  <2>1. k = q * BlockSize
    BY <1>2, <1>4, BlocksGrow
  <2>2. (q - 1) * BlockSize < k - 1 /\ k - 1 <= q * BlockSize
    BY <2>1, <1>1, <1>2
  <2>3. n <= q /\ q <= n
    <3>1. k - 1 \in Nat
      OBVIOUS
    <3>2. n <= q
      BY <2>2, <3>1, NoMoreBlocks, <1>1
    <3>3. q <= n
      BY <2>2, <3>1, NoMoreBlocks, <1>1
    <3> QED BY <3>2, <3>3
  <2>4. n = q
    BY <2>3
  <2>5. e = k /\ g = 0
    BY <2>1, <2>4, <1>1, <1>4
  <2> QED BY <2>5
<1>5. CASE f \notin {0, 1}
  <2>1. ASSUME NEW i \in Nat PROVE i * BlockSize # k /\ i * BlockSize # k - 1
    <3>1. CASE i <= q
      <4>1. i * BlockSize <= q * BlockSize
        BY <3>1, BlocksGrow
      <4> QED BY <4>1, <1>1, <1>2, <1>5
    <3>2. CASE i > q
      <4>1. (q + 1) * BlockSize <= i * BlockSize
        BY <3>2, BlocksGrow
      <4>2. (q + 1) * BlockSize = BlockSize * q + BlockSize
        BY <1>1, <1>2
      <4> QED BY <4>1, <4>2, <1>1, <1>2, <1>5
    <3> QED BY <3>1, <3>2
  <2>2. n * BlockSize # k /\ n * BlockSize # k - 1 /\ n * BlockSize \in Nat
    BY <2>1, BlocksGrow
  <2>3. e > k /\ g \notin {0, 1}
    BY <2>2, <1>1, <1>5
  <2> QED BY <2>1, <2>3
<1> QED BY <1>1, <1>3, <1>4, <1>5

(* The last block of a sequence that may be extended.                      *)
LEMMA LastBlock ==
    ASSUME PoolTypes, ContentTypes, ContentInv, job = Idle,
           NEW s \in Seqs, table[s] # <<>>, s \notin due,
           NEW n, n = Len(table[s]), NEW b, b = Last(table[s]),
           NEW k, k = Len(tokens[s])
    PROVE  /\ n \in Nat \ {0} /\ DOMAIN table[s] = 1..n /\ table[s] \in Seq(Blocks)
           /\ b \in Blocks /\ table[s][n] = b
           /\ k \in Nat \ {0} /\ Settled(s) = k - 1 /\ SlotOK(s, n, b)
           /\ Fill(s) = 1 => n * BlockSize = k - 1 /\ blockHash[b] # NoHash
           /\ Fill(s) = 0 => /\ n * BlockSize = k /\ blockHash[b] = NoHash
                             /\ Holders(b) = {<<s, n>>}
           /\ Fill(s) \notin {0, 1} =>
                 /\ n * BlockSize > k /\ blockHash[b] = NoHash
                 /\ \A i \in Nat : i * BlockSize # k
<1>1. /\ n \in Nat \ {0} /\ DOMAIN table[s] = 1..n /\ table[s] \in Seq(Blocks)
      /\ b \in Blocks /\ table[s][n] = b
  <2>1. table[s] \in Seq(Blocks)
    BY DEF PoolTypes
  <2>2. /\ Len(table[s]) \in Nat \ {0} /\ DOMAIN table[s] = 1..Len(table[s])
        /\ Last(table[s]) = table[s][Len(table[s])]
        /\ Last(table[s]) \in Blocks
    BY <2>1, FrontProperties, EmptySeq, LenProperties
  <2> QED BY <2>1, <2>2
<1>2. k \in Nat \ {0} /\ Settled(s) = k - 1
  BY BlocksOfProperties DEF Settled, Idle
<1>3. SlotOK(s, n, b)
  BY <1>1 DEF ContentInv, SlotsMatch
<1>4. n * BlockSize >= Settled(s)
  BY DEF ContentInv, TablesComplete, OnJob
<1> HIDE DEF Settled
<1>5. (n - 1) * BlockSize < k - 1
  BY <1>2, <1>3 DEF SlotOK
<1>6. k - 1 <= n * BlockSize
  <2>1. n * BlockSize \in Nat
    BY <1>1, BlocksGrow
  <2> QED BY <1>2, <1>4, <2>1
<1>7. /\ Fill(s) = 1 => n * BlockSize = k - 1
      /\ Fill(s) = 0 => n * BlockSize = k
      /\ Fill(s) \notin {0, 1} =>
            n * BlockSize > k /\ \A i \in Nat : i * BlockSize # k
  BY <1>1, <1>2, <1>5, <1>6, EndOfText DEF Fill
<1>8. /\ n * BlockSize <= k - 1 => blockHash[b] # NoHash
      /\ ~(n * BlockSize <= k - 1) => blockHash[b] = NoHash /\ Holders(b) = {<<s, n>>}
  BY <1>2, <1>3 DEF SlotOK
<1>9. n * BlockSize \in Nat
  BY <1>1, BlocksGrow
<1> QED BY <1>1, <1>2, <1>3, <1>7, <1>8, <1>9

(* may_append keeps the sequences apart from s, and the tables.            *)
LEMMA ExtendedContent ==
    ASSUME PoolTypes, ContentTypes, ContentInv, job = Idle, NEW s \in Seqs,
           due' = due \cup {s}, UNCHANGED <<tokens, job, raised>>,
           table'[s] # <<>>, Len(tokens[s]) <= Len(table'[s]) * BlockSize,
           \A r \in Seqs \ {s} : table'[r] = table[r]
    PROVE  /\ \A r \in Seqs \ {s} : Settled(r)' = Settled(r)
           /\ Settled(s)' = Len(tokens[s])
           /\ TablesComplete' /\ DueHold' /\ AllocateFits' /\ NeverRaises'
<1>1. \A r \in Seqs \ {s} : Settled(r)' = Settled(r)
  BY DEF Settled, Idle
<1>2. Settled(s)' = Len(tokens[s])
  BY DEF Settled
<1>3. TablesComplete'
  <2>1. ASSUME NEW r \in Seqs, table'[r] # <<>>
        PROVE  Len(table'[r]) * BlockSize >= Settled(r)'
    <3>1. CASE r # s
      <4>1. ~OnJob(r)
        BY DEF OnJob
      <4> QED BY <4>1, <3>1, <2>1, <1>1 DEF ContentInv, TablesComplete
    <3>2. CASE r = s
      <4>1. Len(tokens[s]) \in Nat /\ Len(table'[s]) * BlockSize \in Int
        BY BlocksOfProperties, BlocksGrow
      <4> QED BY <3>2, <1>2
    <3> QED BY <3>1, <3>2
  <2> QED BY <2>1 DEF TablesComplete
<1>4. DueHold'
  <2>1. ASSUME NEW r \in due' PROVE table'[r] # <<>> /\ ~OnJob(r)'
    BY <2>1 DEF ContentInv, DueHold, OnJob, ContentTypes
  <2> QED BY <2>1 DEF DueHold
<1>5. AllocateFits' /\ NeverRaises'
  BY DEF AllocateFits, Idle, ContentInv, NeverRaises
<1> QED BY <1>1, <1>2, <1>3, <1>4, <1>5

(* The first token of a block: the table was full to its end.              *)
LEMMA OpenBlockContent ==
    ASSUME PoolTypes, Accounts, ContentTypes, ContentInv, job = Idle,
           NEW s \in Seqs, table[s] # <<>>, s \notin due, OpenBlock(s),
           due' = due \cup {s}, UNCHANGED <<tokens, job, raised>>
    PROVE  ContentInv'
<1>1. PICK b, n, k, a : /\ b = Head(free) /\ n = Len(table[s]) /\ k = Len(tokens[s])
                        /\ a = Last(table[s])
  OBVIOUS
<1>2. /\ b \in Blocks /\ Claim(b, NoHash, <<>>) /\ Extend(s, b) /\ hashTo' = hashTo
      /\ Fill(s) = 1
  BY <1>1, HeadIsFree DEF OpenBlock
<1>3. /\ n \in Nat \ {0} /\ DOMAIN table[s] = 1..n /\ k \in Nat \ {0}
      /\ Settled(s) = k - 1 /\ n * BlockSize = k - 1
  BY <1>1, <1>2, LastBlock
<1>4. /\ table'[s] # <<>> /\ Len(table'[s]) = n + 1
      /\ \A r \in Seqs \ {s} : table'[r] = table[r]
  BY <1>1, <1>2, ExtendLength DEF PoolTypes
<1>5. (n + 1) * BlockSize = n * BlockSize + BlockSize /\ BlockSize \in Nat /\ BlockSize >= 2
  BY <1>3, BlockAssumption
<1>6. k < (n + 1) * BlockSize /\ (n + 1 - 1) * BlockSize < k
  <2>1. n + 1 - 1 = n
    BY <1>3
  <2>2. (n + 1) * BlockSize = k - 1 + BlockSize
    BY <1>3, <1>5
  <2>3. k < k - 1 + BlockSize /\ k - 1 < k
    BY <1>3, <1>5
  <2>4. (n + 1 - 1) * BlockSize = k - 1
    BY <2>1, <1>3
  <2> QED BY <2>2, <2>3, <2>4
<1>7. k <= (n + 1) * BlockSize
  <2>1. (n + 1) * BlockSize \in Int
    BY <1>3, <1>5
  <2> QED BY <2>1, <1>3, <1>6
<1>8. /\ \A r \in Seqs \ {s} : Settled(r)' = Settled(r)
      /\ Settled(s)' = k
      /\ TablesComplete' /\ DueHold' /\ AllocateFits' /\ NeverRaises'
  BY <1>1, <1>4, <1>7, ExtendedContent
<1> HIDE DEF Settled
<1>9. ASSUME NEW r \in Seqs, NEW i \in DOMAIN table'[r], NEW c \in Blocks, table'[r][i] = c
      PROVE  SlotOK(r, i, c)'
  <2>1. CASE /\ i \in DOMAIN table[r] /\ table[r][i] = c
             /\ blockHash'[c] = blockHash[c] /\ blockTokens'[c] = blockTokens[c]
             /\ Holders(c)' = Holders(c)
    <3>1. SlotOK(r, i, c)
      BY <2>1 DEF ContentInv, SlotsMatch
    <3>2. CASE r # s
      BY <3>1, <3>2, <2>1, <1>8, SlotStays
    <3>3. CASE r = s
      <4>1. i \in Nat /\ i * BlockSize <= n * BlockSize /\ i * BlockSize \in Nat
        BY <2>1, <3>3, <1>3, BlocksGrow
      <4>2. i * BlockSize <= k - 1 /\ i * BlockSize <= k /\ (i - 1) * BlockSize < k
        <5>1. (i - 1) * BlockSize = i * BlockSize - BlockSize
          BY <4>1, <1>5
        <5> QED BY <5>1, <4>1, <1>3, <1>5
      <4>3. BlockOf(r, i - 1)' = BlockOf(r, i - 1)
        BY DEF BlockOf
      <4>4. blockHash[c] # NoHash /\ blockTokens[c] = BlockOf(r, i - 1)
        BY <3>1, <3>3, <4>2, <1>3 DEF SlotOK
      <4> QED BY <4>2, <4>3, <4>4, <2>1, <3>3, <1>8 DEF SlotOK
    <3> QED BY <3>2, <3>3
  <2>2. CASE r = s /\ i = n + 1 /\ blockHash'[c] = NoHash /\ Holders(c)' = {<<s, i>>}
    <3>1. ~((n + 1) * BlockSize <= k)
      <4>1. (n + 1) * BlockSize \in Int
        BY <1>3, <1>5
      <4> QED BY <4>1, <1>3, <1>6
    <3>2. (i - 1) * BlockSize < k /\ ~(i * BlockSize <= k)
      <4>1. i = n + 1
        BY <2>2
      <4>2. i - 1 = n
        BY <4>1, <1>3
      <4>3. (i - 1) * BlockSize < k
        BY <4>2, <1>3
      <4> QED BY <4>1, <4>3, <3>1
    <3>3. Settled(r)' = k /\ blockHash'[c] = NoHash /\ Holders(c)' = {<<r, i>>}
      BY <2>2, <1>8
    <3> QED BY <3>2, <3>3 DEF SlotOK
  <2> QED BY <2>1, <2>2, <1>1, <1>2, <1>9, ClaimSlots
<1>10. SlotsMatch'
  BY <1>9 DEF SlotsMatch
<1>11. UnhashedAreEmpty' /\ NoHashUncached'
  <2>1. /\ blockHash' = [blockHash EXCEPT ![b] = NoHash]
        /\ blockTokens' = [blockTokens EXCEPT ![b] = <<>>]
    BY <1>2 DEF Claim, Contents
  <2> QED BY <2>1, <1>2 DEF ContentInv, UnhashedAreEmpty, NoHashUncached, ContentTypes
<1> QED BY <1>8, <1>10, <1>11 DEF ContentInv

(* The last token of a block: only s holds it, so it may be written.       *)
LEMMA SealBlockContent ==
    ASSUME PoolTypes, Accounts, ContentTypes, ContentInv, job = Idle,
           NEW s \in Seqs, table[s] # <<>>, s \notin due, SealBlock(s),
           due' = due \cup {s}, UNCHANGED <<tokens, job, raised>>
    PROVE  ContentInv'
<1>1. PICK b, n, k, toks, h :
          /\ b = Last(table[s]) /\ n = Len(table[s]) /\ k = Len(tokens[s])
          /\ toks = BlockOf(s, BlocksOf(s) - 1) /\ h = ComputeHash(toks, PrefixHash(s))
  OBVIOUS
<1>2. /\ Fill(s) = 0 /\ blockHash' = [blockHash EXCEPT ![b] = h]
      /\ blockTokens' = [blockTokens EXCEPT ![b] = toks]
      /\ hashTo' = Registered(h, b) /\ refCount' = refCount /\ table' = table
  BY <1>1 DEF SealBlock
<1>3. /\ n \in Nat \ {0} /\ DOMAIN table[s] = 1..n /\ k \in Nat \ {0} /\ b \in Blocks
      /\ table[s] \in Seq(Blocks)
      /\ Settled(s) = k - 1 /\ n * BlockSize = k /\ Holders(b) = {<<s, n>>}
  BY <1>1, <1>2, LastBlock
<1>4. BlocksOf(s) = n
  <2>1. /\ BlocksOf(s) \in Nat \ {0} /\ BlocksOf(s) * BlockSize >= k
        /\ (BlocksOf(s) - 1) * BlockSize < k /\ BlocksOf(s) * BlockSize \in Nat
    BY <1>1, BlocksOfProperties, BlocksGrow
  <2>2. (n - 1) * BlockSize < k /\ k <= n * BlockSize /\ k <= BlocksOf(s) * BlockSize
    <3>1. (n - 1) * BlockSize = n * BlockSize - BlockSize /\ BlockSize \in Nat /\ BlockSize >= 2
      BY <1>3, BlockAssumption
    <3> QED BY <3>1, <2>1, <1>3
  <2>3. n <= BlocksOf(s) /\ BlocksOf(s) <= n
    BY <2>1, <2>2, <1>3, NoMoreBlocks
  <2> QED BY <2>1, <2>3, <1>3
<1>5. toks \in Seq(Tokens) /\ Len(toks) = BlockSize /\ toks = BlockOf(s, n - 1)
  <2>1. (n - 1) * BlockSize < Len(tokens[s]) /\ n * BlockSize <= Len(tokens[s])
    <3>1. (n - 1) * BlockSize = n * BlockSize - BlockSize /\ BlockSize \in Nat /\ BlockSize >= 2
      BY <1>3, BlockAssumption
    <3> QED BY <3>1, <1>1, <1>3
  <2> QED BY <2>1, <1>1, <1>3, <1>4, BlockOfProperties
<1>6. h # NoHash
  <2>1. PrefixHash(s) \in Seq(Tokens)
    <3>1. CASE Len(table[s]) > 1
      <4>1. Len(table[s]) - 1 \in DOMAIN table[s]
        BY <3>1, <1>1, <1>3
      <4>2. table[s][Len(table[s]) - 1] \in Blocks
        BY <4>1, <1>3, LenProperties, ElementOfSeq
      <4> QED BY <3>1, <4>2 DEF PrefixHash, ContentTypes
    <3>2. CASE ~(Len(table[s]) > 1)
      BY <3>2, EmptySeq DEF PrefixHash, NoHash
    <3> QED BY <3>1, <3>2
  <2> QED BY <2>1, <1>1, <1>5, HashOfBlock
<1>7. /\ \A r \in Seqs \ {s} : Settled(r)' = Settled(r)
      /\ Settled(s)' = k
      /\ TablesComplete' /\ DueHold' /\ AllocateFits' /\ NeverRaises'
  <2>1. Len(tokens[s]) <= Len(table'[s]) * BlockSize
    <3>1. k <= n * BlockSize
      BY <1>3
    <3> QED BY <3>1, <1>1, <1>2
  <2> QED BY <2>1, <1>1, <1>2, ExtendedContent
<1> HIDE DEF Settled
<1>8. \A c : Holders(c)' = Holders(c)
  BY <1>2 DEF Holders, Slots
<1>9. /\ blockHash'[b] = h /\ blockTokens'[b] = toks
      /\ \A c \in Blocks \ {b} : blockHash'[c] = blockHash[c] /\ blockTokens'[c] = blockTokens[c]
  BY <1>2, <1>3 DEF ContentTypes
<1>10. ASSUME NEW r \in Seqs, NEW i \in DOMAIN table'[r], NEW c \in Blocks, table'[r][i] = c
       PROVE  SlotOK(r, i, c)'
  <2>1. i \in DOMAIN table[r] /\ table[r][i] = c
    BY <1>2, <1>10
  <2>2. SlotOK(r, i, c)
    BY <2>1 DEF ContentInv, SlotsMatch
  <2>3. BlockOf(r, i - 1)' = BlockOf(r, i - 1)
    BY DEF BlockOf
  <2>4. CASE r # s
    <3>1. c # b
      BY <2>1, <2>4, <1>3, HeldIsUsed
    <3> QED BY <3>1, <2>2, <2>4, <1>7, <1>8, <1>9, SlotStays
  <2>5. CASE r = s /\ i = n
    <3>1. c = b
      BY <2>1, <2>5, <1>1, LastBlock, <1>2
    <3>2. (i - 1) * BlockSize < k /\ i * BlockSize <= k
      <4>1. (n - 1) * BlockSize = n * BlockSize - BlockSize /\ BlockSize \in Nat /\ BlockSize >= 2
        BY <1>3, BlockAssumption
      <4> QED BY <4>1, <2>5, <1>3
    <3> QED BY <3>1, <3>2, <2>3, <2>5, <1>5, <1>6, <1>7, <1>9 DEF SlotOK
  <2>6. CASE r = s /\ i # n
    <3>1. <<r, i>> \in Holders(c) /\ c # b
      BY <2>1, <2>6, <1>3, HeldIsUsed
    <3>2. i \in Nat \ {0} /\ i <= n - 1 /\ n - 1 \in Nat
      BY <2>1, <2>6, <1>3
    <3>3. i * BlockSize <= (n - 1) * BlockSize /\ i * BlockSize \in Nat
      BY <3>2, BlocksGrow
    <3>4. (n - 1) * BlockSize = n * BlockSize - BlockSize /\ BlockSize \in Nat /\ BlockSize >= 2
      BY <1>3, BlockAssumption
    <3>5. (i - 1) * BlockSize = i * BlockSize - BlockSize
      BY <3>2, <3>4
    <3>6. i * BlockSize <= k - 1 /\ i * BlockSize <= k /\ (i - 1) * BlockSize < k
      BY <3>3, <3>4, <3>5, <1>3
    <3>7. blockHash[c] # NoHash /\ blockTokens[c] = BlockOf(r, i - 1)
      BY <3>6, <2>2, <2>6, <1>3 DEF SlotOK
    <3> QED BY <3>1, <3>6, <3>7, <2>3, <2>6, <1>7, <1>9 DEF SlotOK
  <2> QED BY <2>4, <2>5, <2>6
<1>11. SlotsMatch'
  BY <1>10 DEF SlotsMatch
<1>12. UnhashedAreEmpty'
  BY <1>6, <1>9 DEF ContentInv, UnhashedAreEmpty
<1>13. NoHashUncached'
  BY <1>2, <1>6 DEF ContentInv, NoHashUncached, Registered
<1> QED BY <1>7, <1>11, <1>12, <1>13 DEF ContentInv

(* Any other token: the last block stays open.                             *)
LEMMA StayInBlockContent ==
    ASSUME PoolTypes, Accounts, ContentTypes, ContentInv, job = Idle,
           NEW s \in Seqs, table[s] # <<>>, s \notin due, StayInBlock(s),
           due' = due \cup {s}, UNCHANGED <<tokens, job, raised>>
    PROVE  ContentInv'
<1>1. PICK b, n, k : b = Last(table[s]) /\ n = Len(table[s]) /\ k = Len(tokens[s])
  OBVIOUS
<1>2. /\ Fill(s) \notin {0, 1} /\ blockHash' = blockHash /\ blockTokens' = blockTokens
      /\ hashTo' = hashTo /\ table' = table
  BY DEF StayInBlock, blockVars
<1>3. /\ n \in Nat \ {0} /\ DOMAIN table[s] = 1..n /\ k \in Nat \ {0}
      /\ Settled(s) = k - 1 /\ n * BlockSize > k /\ \A i \in Nat : i * BlockSize # k
  BY <1>1, <1>2, LastBlock
<1>4. /\ \A r \in Seqs \ {s} : Settled(r)' = Settled(r)
      /\ Settled(s)' = k
      /\ TablesComplete' /\ DueHold' /\ AllocateFits' /\ NeverRaises'
  <2>1. Len(tokens[s]) <= Len(table'[s]) * BlockSize
    <3>1. k <= n * BlockSize
      <4>1. n * BlockSize \in Nat
        BY <1>3, BlocksGrow
      <4> QED BY <4>1, <1>3
    <3> QED BY <3>1, <1>1, <1>2
  <2> QED BY <2>1, <1>1, <1>2, ExtendedContent
<1> HIDE DEF Settled
<1>5. \A c : Holders(c)' = Holders(c)
  BY <1>2 DEF Holders, Slots
<1>6. ASSUME NEW r \in Seqs, NEW i \in DOMAIN table'[r], NEW c \in Blocks, table'[r][i] = c
      PROVE  SlotOK(r, i, c)'
  <2>1. i \in DOMAIN table[r] /\ table[r][i] = c
    BY <1>2, <1>6
  <2>2. SlotOK(r, i, c)
    BY <2>1 DEF ContentInv, SlotsMatch
  <2>3. CASE r # s
    BY <2>2, <2>3, <1>2, <1>4, <1>5, SlotStays
  <2>4. CASE r = s
    <3>1. i \in Nat /\ i * BlockSize \in Nat /\ i * BlockSize # k
      BY <2>1, <2>4, <1>3, BlocksGrow
    <3>2. (i - 1) * BlockSize < k - 1
      BY <2>2, <2>4, <1>3 DEF SlotOK
    <3>3. (i - 1) * BlockSize \in Int
      BY <3>1, BlockAssumption
    <3>4. (i - 1) * BlockSize < k /\ (i * BlockSize <= k <=> i * BlockSize <= k - 1)
      BY <3>1, <3>2, <3>3, <1>3
    <3>5. BlockOf(r, i - 1)' = BlockOf(r, i - 1)
      BY DEF BlockOf
    <3>6. Settled(r) = k - 1 /\ Settled(r)' = k
      BY <2>4, <1>3, <1>4
    <3> QED BY <2>2, <3>4, <3>5, <3>6, <1>2, <1>5 DEF SlotOK
  <2> QED BY <2>3, <2>4
<1>7. SlotsMatch'
  BY <1>6 DEF SlotsMatch
<1> QED BY <1>2, <1>4, <1>7 DEF ContentInv, UnhashedAreEmpty, NoHashUncached

(* may_append: which of the three it is, and that it never fails.          *)
LEMMA MayAppendContent ==
    ASSUME IInv, ContentInv, NEW s \in Seqs, MayBeExtended(s), MayAppend(s)
    PROVE  ContentInv'
<1>1. /\ PoolTypes /\ Accounts /\ ContentTypes /\ job = Idle
      /\ table[s] # <<>> /\ s \notin due /\ CanAppend(s)
  BY Parts DEF MayAppend, MayBeExtended
<1>2. ~MayAppendFails(s)
  <2>1. PICK b, n, k : b = Last(table[s]) /\ n = Len(table[s]) /\ k = Len(tokens[s])
    OBVIOUS
  <2>2. /\ Fill(s) = 1 => blockHash[b] # NoHash
        /\ Fill(s) # 1 => blockHash[b] = NoHash
    BY <1>1, <2>1, LastBlock
  <2>3. CASE Fill(s) = 1
    <3>1. Len(free) >= 1
      BY <2>3, <1>1 DEF CanAppend
    <3>2. free # <<>>
      BY <3>1, EmptySeq
    <3>3. refCount[Head(free)] = 0
      BY <3>2, <1>1, HeadIsFree
    <3> QED BY <2>1, <2>2, <2>3, <3>2, <3>3 DEF MayAppendFails
  <2>4. CASE Fill(s) # 1
    BY <2>1, <2>2, <2>4 DEF MayAppendFails
  <2> QED BY <2>3, <2>4
<1>3. /\ OpenBlock(s) \/ SealBlock(s) \/ StayInBlock(s)
      /\ due' = due \cup {s} /\ UNCHANGED <<tokens, job, raised>>
  BY <1>2 DEF MayAppend
<1> QED BY <1>1, <1>3, OpenBlockContent, SealBlockContent, StayInBlockContent
-----------------------------------------------------------------------------
(* Every step keeps the invariant.                                         *)
LEMMA NextContent ==
    ASSUME IInv, IInv', ContentInv, [Next]_bmVars PROVE ContentInv'
<1>1. PoolTypes /\ ContentTypes
  BY Parts
<1>2. CASE ClearCache
  BY <1>1, <1>2, ClearCacheContent
<1>3. CASE AllocateNext
  BY <1>3, AllocateContent
<1>4. CASE DeallocateNext
  BY <1>4, DeallocateContent
<1>5. CASE \E s \in Seqs : MayBeAllocated(s) /\ BeginAllocate(s)
  BY <1>5, BeginAllocateContent
<1>6. CASE \E s \in Seqs : MayBeExtended(s) /\ MayAppend(s)
  BY <1>6, MayAppendContent
<1>7. CASE \E s \in Seqs : MayBeReleased(s) /\ BeginDeallocate(s)
  BY <1>7, BeginDeallocateContent
<1>8. CASE \E s \in Seqs, t \in Tokens : MaySample(s) /\ AppendToken(s, t)
  BY <1>8, AppendTokenContent DEF MaySample
<1>9. CASE UNCHANGED bmVars
  <2>1. /\ UNCHANGED <<blockVars, hashTo, poolVars, tokens, table, raised>>
        /\ job' = job /\ due' = due /\ tokens' = tokens /\ table' = table /\ free' = free
    BY <1>9 DEF bmVars, poolVars
  <2>2. \A s \in Seqs : Settled(s)' = Settled(s)
    BY <2>1 DEF Settled
  <2>3. SlotsMatch' /\ UnhashedAreEmpty' /\ NoHashUncached' /\ NeverRaises'
    BY <2>1, <2>2, StillContent
  <2>4. TablesComplete' /\ DueHold' /\ AllocateFits'
    BY <2>1, <2>2 DEF ContentInv, TablesComplete, DueHold, OnJob, AllocateFits, BlocksOf
  <2> QED BY <2>3, <2>4 DEF ContentInv
<1> QED BY <1>2, <1>3, <1>4, <1>5, <1>6, <1>7, <1>8, <1>9 DEF Next

(* The inductive invariant holds in every state the manager reaches.       *)
THEOREM ContentInvariance == Spec => [](IInv /\ ContentInv)
<1>1. IInv /\ ContentInv /\ [Next]_bmVars => (IInv /\ ContentInv)'
  BY NextIInv, NextContent
<1> QED BY <1>1, InitIInv, InitContent, PTL DEF Spec
-----------------------------------------------------------------------------
(* No assertion of allocate, may_append or _allocate_block fails, and no   *)
(* container lacks what is taken from it, in whatever order the scheduler  *)
(* makes its calls and however prefixes are shared.                        *)
THEOREM NothingRaises == Spec => []NeverRaises
<1>1. ContentInv => NeverRaises
  BY DEF ContentInv
<1> QED BY <1>1, ContentInvariance, PTL

(* A full block of a table, and the one that is still being filled.        *)
LEMMA Places ==
    ASSUME IInv, ContentInv, NEW s \in Seqs, NEW i \in DOMAIN table[s],
           NEW b, b = table[s][i], NEW k, k = Len(tokens[s])
    PROVE  /\ b \in Blocks /\ i \in Nat \ {0} /\ k \in Nat \ {0} /\ <<s, i>> \in Holders(b)
           /\ i * BlockSize \in Nat /\ Len(table[s]) \in DOMAIN table[s]
           /\ blockHash[b] # NoHash =>
                 blockTokens[b] = BlockOf(s, i - 1) /\ i * BlockSize <= k
           /\ blockHash[b] = NoHash =>
                 /\ Holders(b) = {<<s, i>>} /\ i = Len(table[s])
                 /\ s \in due => k < i * BlockSize
           /\ s \in due => (i - 1) * BlockSize < k
<1>1. PoolTypes /\ Accounts /\ ContentTypes
  BY Parts
<1>2. SlotOK(s, i, b) /\ b \in Blocks /\ <<s, i>> \in Holders(b)
  BY <1>1, HeldIsUsed DEF ContentInv, SlotsMatch
<1>3. PICK n : n = Len(table[s])
  OBVIOUS
<1>4. i \in Nat \ {0} /\ n \in Nat /\ i <= n /\ n \in DOMAIN table[s]
      /\ table[s][n] \in Blocks
  BY <1>1, <1>3, LenProperties, ElementOfSeq DEF PoolTypes
<1>5. /\ Settled(s) \in Int /\ k \in Nat \ {0} /\ i * BlockSize \in Nat
      /\ Settled(s) <= k /\ (s \in due => Settled(s) = k)
  BY <1>1, <1>4, BlocksOfProperties, BlocksGrow DEF Settled
<1>6. s \in due => (i - 1) * BlockSize < k
  BY <1>2, <1>5 DEF SlotOK
<1>7. ASSUME blockHash[b] # NoHash
      PROVE  blockTokens[b] = BlockOf(s, i - 1) /\ i * BlockSize <= k
  <2>1. blockTokens[b] = BlockOf(s, i - 1) /\ i * BlockSize <= Settled(s)
    BY <1>2, <1>7 DEF SlotOK
  <2> HIDE DEF Settled
  <2> QED BY <2>1, <1>5
<1>8. ASSUME blockHash[b] = NoHash
      PROVE  /\ Holders(b) = {<<s, i>>} /\ i = n
             /\ s \in due => k < i * BlockSize
  <2>1. (n - 1) * BlockSize < Settled(s)
    BY <1>4, <1>1 DEF ContentInv, SlotsMatch, SlotOK
  <2>2. ~(i * BlockSize <= Settled(s)) /\ Holders(b) = {<<s, i>>}
    BY <1>2, <1>8 DEF SlotOK
  <2>3. ~(i <= n - 1)
    <3>1. i <= n - 1 => i * BlockSize <= (n - 1) * BlockSize
                        /\ (n - 1) * BlockSize \in Nat /\ i * BlockSize \in Nat
      BY <1>4, BlocksGrow
    <3> HIDE DEF Settled
    <3> QED BY <3>1, <2>1, <2>2, <1>5
  <2>4. i = n
    BY <1>4, <2>3
  <2>5. s \in due => k < i * BlockSize
    <3> HIDE DEF Settled
    <3> QED BY <2>2, <1>5
  <2> QED BY <2>2, <2>4, <2>5
<1> QED BY <1>2, <1>3, <1>4, <1>5, <1>6, <1>7, <1>8

(* In each table that holds it a full block has the tokens of that place,  *)
(* and a block still being filled belongs to one sequence, at its end.     *)
THEOREM HeldBlocksMatch == Spec => []HeldTokensMatch
<1>1. ASSUME IInv, ContentInv PROVE HeldTokensMatch
  <2>1. ASSUME NEW p \in Slots, NEW b, b = table[p[1]][p[2]]
        PROVE  IF blockHash[b] = NoHash
               THEN Holders(b) = {p} /\ p[2] = Len(table[p[1]])
               ELSE blockTokens[b] = BlockOf(p[1], p[2] - 1)
    <3>1. PICK s \in Seqs : \E i \in DOMAIN table[s] : p = <<s, i>>
      BY DEF Slots
    <3>2. PICK i \in DOMAIN table[s] : p = <<s, i>>
      BY <3>1
    <3>3. b = table[s][i]
      BY <2>1, <3>2
    <3>4. PICK k : k = Len(tokens[s])
      OBVIOUS
    <3>5. /\ blockHash[b] # NoHash => blockTokens[b] = BlockOf(s, i - 1)
          /\ blockHash[b] = NoHash => Holders(b) = {<<s, i>>} /\ i = Len(table[s])
      <4>1. IInv /\ ContentInv
        BY <1>1
      <4> QED BY ONLY <3>2, <3>3, <3>4, <4>1, Places
    <3>6. p[1] = s /\ p[2] = i
      BY <3>2
    <3>7. CASE blockHash[b] = NoHash
      BY ONLY <3>2, <3>5, <3>6, <3>7
    <3>8. CASE blockHash[b] # NoHash
      BY ONLY <3>5, <3>6, <3>8
    <3> QED BY <3>7, <3>8
  <2> QED BY <2>1 DEF HeldTokensMatch
<1> QED BY <1>1, ContentInvariance, PTL

-----------------------------------------------------------------------------
(* Whose prefix a hash is *)

Prefix(s, i) == SubSeq(tokens[s], 1, i * BlockSize)

(* What a hit finds is of the same prefix.  The code compares the tokens   *)
(* of the block only, and not the hash the block has now.                  *)
HitsAreOwn ==
    job.op = "allocate" /\ ~Misses => blockHash[hashTo[NextHash]] = NextHash

(* The hash of a block in a table digests what its holder has up to there. *)
HashesAreOwn ==
    \A s \in Seqs : \A i \in DOMAIN table[s] : \A b \in Blocks :
        table[s][i] = b /\ blockHash[b] # NoHash => blockHash[b] = Prefix(s, i)

(* In allocate(), h is the hash of what is placed so far.                  *)
JobHashIsOwn ==
    job.op = "allocate" => job.hash = Prefix(job.seq, Len(table[job.seq]))

Draining(s) == job.op = "deallocate" /\ job.seq = s

(* num_cached_tokens ends before the block that is still being filled.     *)
CachedFits ==
    \A s \in Seqs : ~Draining(s) =>
        /\ cached[s] <= Len(table[s]) * BlockSize
        /\ \A i \in DOMAIN table[s] : \A b \in Blocks :
              table[s][i] = b /\ blockHash[b] = NoHash => cached[s] < i * BlockSize

(* Until a block misses, all that allocate() has placed was cached.        *)
HitsSoFar ==
    job.op = "allocate" /\ ~job.miss =>
        cached[job.seq] = Len(table[job.seq]) * BlockSize

OwnInv == HashesAreOwn /\ JobHashIsOwn /\ CachedFits /\ HitsSoFar

(* A prefix and the block behind it.                                       *)
LEMMA PrefixGrows ==
    ASSUME ContentTypes, NEW s \in Seqs, NEW n \in Nat \ {0},
           n * BlockSize <= Len(tokens[s])
    PROVE  /\ Prefix(s, n - 1) \o BlockOf(s, n - 1) = Prefix(s, n)
           /\ BlockOf(s, n - 1) \in Seq(Tokens) /\ Len(BlockOf(s, n - 1)) = BlockSize
           /\ Prefix(s, 0) = <<>>
<1> DEFINE f == tokens[s]
           m == (n - 1) * BlockSize
           e == n * BlockSize
<1>1. /\ f \in Seq(Tokens) /\ Len(f) \in Nat /\ BlockSize \in Nat /\ BlockSize >= 2
  BY LenProperties, BlockAssumption DEF ContentTypes
<1>2. m \in Nat /\ e \in Nat /\ e = m + BlockSize /\ m < Len(f)
  BY <1>1, BlockBounds
<1>3. /\ BlockOf(s, n - 1) \in Seq(Tokens) /\ Len(BlockOf(s, n - 1)) = BlockSize
      /\ BlockOf(s, n - 1) = SubSeq(f, m + 1, e)
  BY <1>2, BlockOfProperties
<1>4. Prefix(s, n - 1) = SubSeq(f, 1, m) /\ Prefix(s, n) = SubSeq(f, 1, e)
  BY DEF Prefix
<1>5. 0 * BlockSize = 0
  BY <1>1
<1>6. Prefix(s, 0) = <<>>
  BY <1>5, SubSeqEmpty DEF Prefix
<1> HIDE DEF f, m, e
<1>7. SubSeq(f, 1, m) \o SubSeq(f, m + 1, e) = SubSeq(f, 1, e)
  <2>1. e <= Len(f)
    BY DEF e, f
  <2> QED BY <2>1, <1>1, <1>2, ConcatAdjacentSubSeq
<1> QED BY <1>3, <1>4, <1>6, <1>7

(* A sampled token is behind every full block.                             *)
LEMMA PrefixStays ==
    ASSUME ContentTypes, NEW s \in Seqs, NEW t \in Tokens,
           tokens'[s] = Append(tokens[s], t),
           NEW i \in Nat \ {0}, i * BlockSize <= Len(tokens[s])
    PROVE  Prefix(s, i)' = Prefix(s, i)
<1> DEFINE f == tokens[s]
           e == i * BlockSize
<1>1. f \in Seq(Tokens) /\ Len(f) \in Nat /\ e \in Nat /\ e >= 1 /\ e <= Len(f)
  <2>1. BlockSize \in Nat /\ BlockSize >= 2 /\ (i - 1) * BlockSize \in Nat
        /\ i * BlockSize = (i - 1) * BlockSize + BlockSize
    BY BlockBounds, BlockAssumption
  <2>2. f \in Seq(Tokens) /\ Len(f) \in Nat
    BY LenProperties DEF ContentTypes
  <2> QED BY <2>1, <2>2
<1>2. Append(f, t) = f \o <<t>> /\ <<t>> \in Seq(Tokens)
  BY <1>1, AppendIsConcat
<1>3. Prefix(s, i)' = SubSeq(Append(f, t), 1, e) /\ Prefix(s, i) = SubSeq(f, 1, e)
  BY DEF Prefix
<1> HIDE DEF f, e
<1>4. SubSeq(f \o <<t>>, 1, e) = SubSeq(f, 1, e)
  <2>1. 1 \in 1..Len(f) /\ e \in 1..Len(f)
    BY <1>1
  <2> QED BY <2>1, <1>1, <1>2, SubSeqOfConcat1
<1> QED BY <1>2, <1>3, <1>4

(* A place whose block has a hash is full.                                 *)
LEMMA HashedIsFull ==
    ASSUME PoolTypes, ContentTypes, ContentInv, NEW s \in Seqs, NEW i \in DOMAIN table[s],
           NEW b \in Blocks, table[s][i] = b, blockHash[b] # NoHash
    PROVE  i \in Nat \ {0} /\ i * BlockSize <= Settled(s) /\ i * BlockSize <= Len(tokens[s])
<1>1. i \in Nat \ {0} /\ i * BlockSize \in Nat
  <2>1. i \in Nat \ {0}
    BY LenProperties DEF PoolTypes
  <2> QED BY <2>1, BlockBounds
<1>2. i * BlockSize <= Settled(s)
  BY DEF ContentInv, SlotsMatch, SlotOK
<1>3. Settled(s) <= Len(tokens[s]) /\ Len(tokens[s]) \in Nat /\ Settled(s) \in Int
  BY BlocksOfProperties DEF Settled
<1> HIDE DEF Settled
<1> QED BY <1>1, <1>2, <1>3

(* The hash of the next full block.                                        *)
LEMMA NextPrefix ==
    ASSUME PoolTypes, ContentTypes, ContentInv, JobHashIsOwn, job.op = "allocate",
           NEW s, s = job.seq, NEW n, n = Len(table[s]) + 1
    PROVE  /\ NextHash # NoHash =>
                 NextHash = Prefix(s, n) /\ n * BlockSize <= Len(tokens[s])
           /\ n # BlocksOf(s) => NextHash # NoHash
<1>1. /\ s \in Seqs /\ n \in Nat \ {0} /\ Settled(s) = Len(tokens[s])
      /\ NextTokens = BlockOf(s, n - 1)
      /\ n * BlockSize <= Settled(s) => NextHash # NoHash
      /\ n * BlockSize > Settled(s) => NextHash = NoHash
      /\ n <= BlocksOf(s) /\ BlocksOf(s) \in Nat /\ Len(tokens[s]) \in Nat
  BY NextBlock, BlocksOfProperties
<1> HIDE DEF Settled
<1>2. n * BlockSize \in Nat /\ n - 1 = Len(table[s])
  BY <1>1, BlockBounds, LenProperties DEF PoolTypes
<1>3. ASSUME NextHash # NoHash
      PROVE  NextHash = Prefix(s, n) /\ n * BlockSize <= Len(tokens[s])
  <2>1. n * BlockSize <= Len(tokens[s])
    BY <1>1, <1>2, <1>3
  <2>2. /\ Prefix(s, n - 1) \o NextTokens = Prefix(s, n) /\ Len(NextTokens) = BlockSize
    BY <2>1, <1>1, PrefixGrows
  <2>3. NextHash = job.hash \o NextTokens
    BY <2>2 DEF NextHash, ComputeHash
  <2> QED BY <2>1, <2>2, <2>3, <1>2 DEF JobHashIsOwn
<1>4. ASSUME n # BlocksOf(s) PROVE NextHash # NoHash
  <2>1. n * BlockSize <= (BlocksOf(s) - 1) * BlockSize /\ (BlocksOf(s) - 1) * BlockSize \in Nat
    <3>1. BlocksOf(s) - 1 \in Nat /\ n <= BlocksOf(s) - 1
      BY <1>1, <1>4
    <3> QED BY <3>1, <1>1, BlocksGrow
  <2>2. (BlocksOf(s) - 1) * BlockSize < Len(tokens[s])
    BY <1>1, BlocksOfProperties
  <2> QED BY <2>1, <2>2, <1>1, <1>2
<1> QED BY <1>3, <1>4

(* A step that leaves the blocks, the texts and the tables alone.          *)
LEMMA StillOwn ==
    ASSUME OwnInv, UNCHANGED <<blockHash, tokens, table, cached>>,
           \A s \in Seqs : Draining(s) => Draining(s)'
    PROVE  HashesAreOwn' /\ CachedFits'
<1>1. \A s, i : Prefix(s, i)' = Prefix(s, i)
  BY DEF Prefix
<1>2. HashesAreOwn'
  BY <1>1 DEF OwnInv, HashesAreOwn
<1>3. CachedFits'
  BY DEF OwnInv, CachedFits
<1> QED BY <1>2, <1>3

(* The initial state: nothing is held.                                     *)
LEMMA InitOwn == ASSUME Init PROVE OwnInv
<1>1. /\ \A s \in Seqs : table[s] = <<>> /\ DOMAIN table[s] = {} /\ cached[s] = 0
      /\ job.op # "allocate"
  BY DEF Init, Idle
<1>2. Len(<<>>) = 0 /\ 0 * BlockSize = 0
  BY BlockAssumption
<1> QED BY <1>1, <1>2 DEF OwnInv, HashesAreOwn, JobHashIsOwn, CachedFits, HitsSoFar

LEMMA ClearCacheOwn == ASSUME OwnInv, ClearCache PROVE OwnInv'
<1>1. /\ \A s \in Seqs : table'[s] = <<>> /\ DOMAIN table'[s] = {}
      /\ table' = table /\ cached' = cached /\ job' = job /\ job' = Idle
  BY DEF ClearCache
<1>2. job'.op # "allocate" /\ job'.op # "deallocate" /\ job.op # "deallocate"
  BY <1>1 DEF Idle
<1>3. CachedFits'
  BY <1>1, <1>2 DEF OwnInv, CachedFits, Draining
<1> QED BY <1>1, <1>2, <1>3 DEF OwnInv, HashesAreOwn, JobHashIsOwn, HitsSoFar

(* allocate() begins with no hash, nothing placed and nothing cached.      *)
LEMMA BeginAllocateOwn ==
    ASSUME IInv, OwnInv, NEW s \in Seqs, MayBeAllocated(s), BeginAllocate(s)
    PROVE  OwnInv'
<1>1. ContentTypes
  BY Parts
<1>2. /\ job = Idle /\ table[s] = <<>>
      /\ job' = [op |-> "allocate", seq |-> s, hash |-> NoHash, miss |-> FALSE]
      /\ UNCHANGED <<blockHash, tokens, table, cached>>
  BY DEF BeginAllocate, MayBeAllocated, blockVars
<1>3. job.op # "deallocate"
  BY <1>2 DEF Idle
<1>4. HashesAreOwn' /\ CachedFits'
  BY <1>2, <1>3, StillOwn DEF Draining
<1>5. Len(<<>>) = 0 /\ 0 * BlockSize = 0
  BY BlockAssumption
<1>6. cached[s] = 0
  <2>1. cached[s] <= 0 /\ cached[s] \in Nat
    BY <1>1, <1>2, <1>3, <1>5 DEF OwnInv, CachedFits, Draining, ContentTypes
  <2> QED BY <2>1
<1>7. Prefix(s, 0)' = <<>>
  BY <1>5, SubSeqEmpty DEF Prefix
<1>8. job'.seq = s /\ job'.hash = <<>> /\ Len(table'[s]) = 0 /\ cached'[s] = 0
  BY <1>2, <1>5, <1>6 DEF NoHash
<1>9. JobHashIsOwn'
  BY <1>7, <1>8 DEF JobHashIsOwn, Prefix
<1>10. HitsSoFar'
  BY <1>5, <1>8 DEF HitsSoFar
<1> QED BY <1>4, <1>9, <1>10 DEF OwnInv

LEMMA BeginDeallocateOwn ==
    ASSUME OwnInv, NEW s \in Seqs, MayBeReleased(s), BeginDeallocate(s)
    PROVE  OwnInv'
<1>1. /\ job = Idle /\ job' = [op |-> "deallocate", seq |-> s]
      /\ UNCHANGED <<blockHash, tokens, table, cached>>
  BY DEF BeginDeallocate, blockVars
<1>2. job.op # "deallocate" /\ job'.op # "allocate"
  BY <1>1 DEF Idle
<1> QED BY <1>1, <1>2, StillOwn DEF OwnInv, Draining, JobHashIsOwn, HitsSoFar

(* The sampled token is behind every block with a hash.                    *)
LEMMA AppendTokenOwn ==
    ASSUME IInv, ContentInv, OwnInv, NEW s \in Seqs, NEW t \in Tokens, AppendToken(s, t)
    PROVE  OwnInv'
<1>1. ContentTypes /\ PoolTypes
  BY Parts
<1>2. /\ job' = job /\ job = Idle /\ UNCHANGED <<blockHash, table, cached>>
      /\ tokens'[s] = Append(tokens[s], t) /\ \A r \in Seqs \ {s} : tokens'[r] = tokens[r]
  BY <1>1 DEF AppendToken, blockVars, ContentTypes
<1>3. job'.op # "allocate" /\ job'.op # "deallocate" /\ job.op # "deallocate"
  BY <1>2 DEF Idle
<1>4. ASSUME NEW r \in Seqs, NEW i \in DOMAIN table'[r], NEW b \in Blocks,
             table'[r][i] = b, blockHash'[b] # NoHash
      PROVE  blockHash'[b] = Prefix(r, i)'
  <2>1. blockHash'[b] = Prefix(r, i) /\ i \in DOMAIN table[r] /\ table[r][i] = b
        /\ blockHash[b] # NoHash
    BY <1>2, <1>4 DEF OwnInv, HashesAreOwn
  <2>2. i \in Nat \ {0} /\ i * BlockSize <= Len(tokens[r])
    BY <2>1, <1>1, HashedIsFull
  <2>3. CASE r = s
    BY <2>1, <2>2, <2>3, <1>1, <1>2, PrefixStays
  <2>4. CASE r # s
    BY <2>1, <2>4, <1>2 DEF Prefix
  <2> QED BY <2>3, <2>4
<1>5. HashesAreOwn'
  BY <1>4 DEF HashesAreOwn
<1>6. CachedFits'
  BY <1>2, <1>3 DEF OwnInv, CachedFits, Draining
<1> QED BY <1>3, <1>5, <1>6 DEF OwnInv, JobHashIsOwn, HitsSoFar

(* The loop goes on with the hash of what is placed.                       *)
LEMMA PlacedOwn ==
    ASSUME PoolTypes, ContentTypes, ContentInv, OwnInv, job.op = "allocate",
           NEW s, s = job.seq, NEW b \in Blocks, Placed(b),
           NEW n, n = Len(table[s]) + 1,
           ~Misses => cached'[s] = n * BlockSize
    PROVE  /\ JobHashIsOwn' /\ HitsSoFar' /\ job'.op # "deallocate"
           /\ s \in Seqs /\ Extend(s, b) /\ tokens' = tokens
           /\ table'[s] # <<>> /\ Len(table'[s]) = n
           /\ \A r \in Seqs \ {s} : table'[r] = table[r]
           /\ \A r, i : Prefix(r, i)' = Prefix(r, i)
<1>1. /\ s \in Seqs /\ job.miss \in BOOLEAN
      /\ job = [op |-> "allocate", seq |-> s, hash |-> job.hash, miss |-> job.miss]
  BY IterationType
<1>2. /\ table'[s] # <<>> /\ Len(table'[s]) = n
      /\ \A r \in Seqs \ {s} : table'[r] = table[r]
  BY <1>1, ExtendLength DEF Placed, PoolTypes
<1>3. /\ Extend(s, b) /\ tokens' = tokens
      /\ \/ job' = Idle
         \/ /\ job' = [job EXCEPT !.hash = NextHash, !.miss = Misses]
            /\ n # BlocksOf(s)
  BY DEF Placed
<1>4. \A r, i : Prefix(r, i)' = Prefix(r, i)
  BY <1>3 DEF Prefix
<1>5. CASE job' = Idle
  <2>1. job'.op # "allocate" /\ job'.op # "deallocate"
    BY <1>5 DEF Idle
  <2> QED BY <2>1, <1>1, <1>2, <1>3, <1>4 DEF JobHashIsOwn, HitsSoFar
<1>6. CASE job' = [job EXCEPT !.hash = NextHash, !.miss = Misses] /\ n # BlocksOf(s)
  <2>1. job' = [op |-> "allocate", seq |-> s, hash |-> NextHash, miss |-> Misses]
    BY <1>1, <1>6
  <2>2. /\ job'.op = "allocate" /\ job'.seq = s /\ job'.hash = NextHash
        /\ job'.miss <=> Misses
    BY <2>1
  <2>3. NextHash = Prefix(s, n)
    BY <1>6, NextPrefix DEF OwnInv
  <2>4. JobHashIsOwn'
    BY <2>2, <2>3, <1>2, <1>4 DEF JobHashIsOwn
  <2>5. HitsSoFar'
    BY <2>2, <1>2 DEF HitsSoFar
  <2> QED BY <2>2, <2>4, <2>5, <1>1, <1>2, <1>3, <1>4
<1> QED BY <1>3, <1>5, <1>6

(* The place of the block that is placed.                                  *)
LEMMA NextPlace ==
    ASSUME PoolTypes, ContentTypes, ContentInv, OwnInv, job.op = "allocate",
           NEW s, s = job.seq, NEW n, n = Len(table[s]) + 1
    PROVE  /\ s \in Seqs /\ n \in Nat \ {0} /\ cached[s] \in Nat
           /\ cached[s] <= (n - 1) * BlockSize /\ cached[s] < n * BlockSize
           /\ ~job.miss => cached[s] + BlockSize = n * BlockSize
           /\ n * BlockSize = (n - 1) * BlockSize + BlockSize /\ BlockSize \in Nat
           /\ (n - 1) * BlockSize \in Nat
           /\ \A i \in DOMAIN table[s] : \A b \in Blocks :
                 table[s][i] = b => blockHash[b] # NoHash
<1>1. /\ s \in Seqs /\ Len(table[s]) \in Nat /\ n \in Nat \ {0} /\ n - 1 = Len(table[s])
      /\ Settled(s) = Len(tokens[s]) /\ (n - 1) * BlockSize < Settled(s)
  BY NextBlock, LenProperties DEF PoolTypes
<1>2. /\ n * BlockSize = (n - 1) * BlockSize + BlockSize /\ (n - 1) * BlockSize \in Nat
      /\ BlockSize \in Nat /\ BlockSize >= 2
  BY <1>1, BlockBounds, BlockAssumption
<1>3. /\ cached[s] \in Nat /\ cached[s] <= (n - 1) * BlockSize
      /\ ~job.miss => cached[s] = (n - 1) * BlockSize
  BY <1>1 DEF OwnInv, CachedFits, HitsSoFar, Draining, ContentTypes
<1>4. ASSUME NEW i \in DOMAIN table[s], NEW b \in Blocks, table[s][i] = b
      PROVE  blockHash[b] # NoHash
  <2>1. i \in Nat /\ i <= n - 1 /\ n - 1 \in Nat
    BY <1>1, LenProperties DEF PoolTypes
  <2>2. i * BlockSize <= (n - 1) * BlockSize /\ i * BlockSize \in Nat
    BY <2>1, BlocksGrow
  <2>3. Len(tokens[s]) \in Nat
    BY <1>1, BlocksOfProperties
  <2>4. i * BlockSize <= Settled(s)
    <3> HIDE DEF Settled
    <3> QED BY <2>2, <2>3, <1>1, <1>2
  <2> QED BY <2>4, <1>1, <1>4 DEF ContentInv, SlotsMatch, SlotOK
<1>5. cached[s] < n * BlockSize /\ (~job.miss => cached[s] + BlockSize = n * BlockSize)
  BY <1>2, <1>3
<1> QED BY <1>1, <1>2, <1>3, <1>4, <1>5

(* A free block is claimed, hit or miss.                                   *)
LEMMA ClaimOwn ==
    ASSUME PoolTypes, Accounts, ContentTypes, ContentInv, OwnInv, job.op = "allocate",
           NEW s, s = job.seq, NEW b \in Blocks,
           Claim(b, NextHash, NextTokens), Placed(b),
           IF Misses THEN cached' = cached
           ELSE cached' = [cached EXCEPT ![s] = @ + BlockSize]
    PROVE  OwnInv'
<1>0. PICK n : n = Len(table[s]) + 1
  OBVIOUS
<1>1. /\ s \in Seqs /\ n \in Nat \ {0} /\ cached[s] \in Nat
      /\ cached[s] <= (n - 1) * BlockSize /\ cached[s] < n * BlockSize
      /\ ~job.miss => cached[s] + BlockSize = n * BlockSize
      /\ n * BlockSize = (n - 1) * BlockSize + BlockSize /\ BlockSize \in Nat
      /\ (n - 1) * BlockSize \in Nat
      /\ \A i \in DOMAIN table[s] : \A c \in Blocks :
            table[s][i] = c => blockHash[c] # NoHash
  <2>1. n = Len(table[s]) + 1 /\ s = job.seq
    BY <1>0
  <2> QED BY ONLY <2>1, PoolTypes, ContentTypes, ContentInv, OwnInv, job.op = "allocate", NextPlace
<1>2. ~Misses => ~job.miss /\ NextHash # NoHash
  BY DEF Misses, Hit, ContentInv, NoHashUncached
<1>3. /\ ~Misses => cached'[s] = n * BlockSize
      /\ Misses => cached'[s] = cached[s]
      /\ \A r \in Seqs \ {s} : cached'[r] = cached[r]
  BY <1>1, <1>2 DEF ContentTypes
<1>4. /\ JobHashIsOwn' /\ HitsSoFar' /\ job'.op # "deallocate"
      /\ Extend(s, b) /\ tokens' = tokens /\ Len(table'[s]) = n
      /\ \A r \in Seqs \ {s} : table'[r] = table[r]
      /\ \A r, i : Prefix(r, i)' = Prefix(r, i)
  BY <1>0, <1>3, PlacedOwn
<1>5. NextHash # NoHash => NextHash = Prefix(s, n)
  BY <1>0, NextPrefix DEF OwnInv
<1>6. ASSUME NEW r \in Seqs, NEW i \in DOMAIN table'[r], NEW c \in Blocks, table'[r][i] = c
      PROVE  \/ i \in DOMAIN table[r] /\ table[r][i] = c /\ blockHash'[c] = blockHash[c]
             \/ r = s /\ i = n /\ blockHash'[c] = NextHash
  <2>1. s \in Seqs /\ Extend(s, b) /\ n = Len(table[s]) + 1
    BY <1>0, <1>1, <1>4
  <2> QED BY <2>1, <1>6, ClaimSlots
<1>7. HashesAreOwn'
  <2>1. ASSUME NEW r \in Seqs, NEW i \in DOMAIN table'[r], NEW c \in Blocks,
               table'[r][i] = c, blockHash'[c] # NoHash
        PROVE  blockHash'[c] = Prefix(r, i)'
    BY <2>1, <1>4, <1>5, <1>6 DEF OwnInv, HashesAreOwn
  <2> QED BY <2>1 DEF HashesAreOwn
<1>8. CachedFits'
  <2>1. ASSUME NEW r \in Seqs PROVE cached'[r] <= Len(table'[r]) * BlockSize
    <3>1. CASE r # s
      BY <3>1, <1>3, <1>4 DEF OwnInv, CachedFits, Draining
    <3>2. CASE r = s
      <4>1. cached'[s] <= n * BlockSize
        BY <1>1, <1>3
      <4> QED BY <4>1, <3>2, <1>4
    <3> QED BY <3>1, <3>2
  <2>2. ASSUME NEW r \in Seqs, NEW i \in DOMAIN table'[r], NEW c \in Blocks,
               table'[r][i] = c, blockHash'[c] = NoHash
        PROVE  cached'[r] < i * BlockSize
    <3>1. CASE i \in DOMAIN table[r] /\ table[r][i] = c /\ blockHash'[c] = blockHash[c]
      <4>1. r # s
        BY <3>1, <2>2, <1>1
      <4> QED BY <3>1, <4>1, <2>2, <1>3 DEF OwnInv, CachedFits, Draining
    <3>2. CASE r = s /\ i = n /\ blockHash'[c] = NextHash
      <4>1. Misses
        BY <3>2, <2>2, <1>2
      <4> QED BY <4>1, <3>2, <1>1, <1>3
    <3> QED BY <3>1, <3>2, <2>2, <1>6
  <2> QED BY <2>1, <2>2 DEF CachedFits
<1> QED BY <1>4, <1>7, <1>8 DEF OwnInv

(* A block in use is shared: its hash stays what it is.                    *)
LEMMA ShareOwn ==
    ASSUME PoolTypes, Accounts, ContentTypes, ContentInv, OwnInv, job.op = "allocate",
           NEW s, s = job.seq, NEW b \in Blocks, ~Misses, blockHash[b] = NextHash,
           Share(b, NextHash, NextTokens), Placed(b),
           cached' = [cached EXCEPT ![s] = @ + BlockSize]
    PROVE  OwnInv' /\ blockHash' = blockHash
<1>0. PICK n : n = Len(table[s]) + 1
  OBVIOUS
<1>1. /\ s \in Seqs /\ n \in Nat \ {0}
      /\ ~job.miss => cached[s] + BlockSize = n * BlockSize
      /\ \A i \in DOMAIN table[s] : \A c \in Blocks :
            table[s][i] = c => blockHash[c] # NoHash
      /\ n * BlockSize = (n - 1) * BlockSize + BlockSize /\ BlockSize \in Nat
      /\ (n - 1) * BlockSize \in Nat
  BY <1>0, NextPlace
<1>2. ~job.miss /\ NextHash # NoHash
  BY DEF Misses, Hit, ContentInv, NoHashUncached
<1>3. cached'[s] = n * BlockSize /\ \A r \in Seqs \ {s} : cached'[r] = cached[r]
  BY <1>1, <1>2 DEF ContentTypes
<1>4. /\ JobHashIsOwn' /\ HitsSoFar' /\ job'.op # "deallocate"
      /\ Extend(s, b) /\ tokens' = tokens /\ Len(table'[s]) = n
      /\ \A r \in Seqs \ {s} : table'[r] = table[r]
      /\ \A r, i : Prefix(r, i)' = Prefix(r, i)
  BY <1>0, <1>3, PlacedOwn
<1>5. NextHash = Prefix(s, n)
  BY <1>0, <1>2, NextPrefix DEF OwnInv
<1>6. blockHash' = blockHash
  BY DEF Share, ContentTypes
<1>7. ASSUME NEW r \in Seqs, NEW i \in DOMAIN table'[r], NEW c \in Blocks, table'[r][i] = c
      PROVE  \/ i \in DOMAIN table[r] /\ table[r][i] = c
             \/ r = s /\ i = n /\ c = b
  <2>1. s \in Seqs /\ Extend(s, b) /\ n = Len(table[s]) + 1
        /\ table \in [Seqs -> Seq(Blocks)]
    BY <1>0, <1>1, <1>4 DEF PoolTypes
  <2> QED BY <2>1, <1>7, ExtendSlots
<1>8. HashesAreOwn'
  <2>1. ASSUME NEW r \in Seqs, NEW i \in DOMAIN table'[r], NEW c \in Blocks,
               table'[r][i] = c, blockHash'[c] # NoHash
        PROVE  blockHash'[c] = Prefix(r, i)'
    BY <2>1, <1>4, <1>5, <1>6, <1>7 DEF OwnInv, HashesAreOwn
  <2> QED BY <2>1 DEF HashesAreOwn
<1>9. CachedFits'
  <2>1. ASSUME NEW r \in Seqs PROVE cached'[r] <= Len(table'[r]) * BlockSize
    <3>1. CASE r # s
      BY <3>1, <1>3, <1>4 DEF OwnInv, CachedFits, Draining
    <3>2. CASE r = s
      <4>1. cached'[s] <= n * BlockSize
        BY <1>1, <1>3
      <4> QED BY <4>1, <3>2, <1>4
    <3> QED BY <3>1, <3>2
  <2>2. ASSUME NEW r \in Seqs, NEW i \in DOMAIN table'[r], NEW c \in Blocks,
               table'[r][i] = c, blockHash'[c] = NoHash
        PROVE  cached'[r] < i * BlockSize
    <3>1. r # s /\ i \in DOMAIN table[r] /\ table[r][i] = c
      BY <2>2, <1>1, <1>2, <1>6, <1>7
    <3> QED BY <3>1, <2>2, <1>3, <1>6 DEF OwnInv, CachedFits, Draining
  <2> QED BY <2>1, <2>2 DEF CachedFits
<1> QED BY <1>4, <1>6, <1>8, <1>9 DEF OwnInv

(* One iteration of allocate().                                            *)
LEMMA AllocateOwn ==
    ASSUME IInv, ContentInv, OwnInv, HitsAreOwn, AllocateNext, ~raised'
    PROVE  OwnInv'
<1>1. PoolTypes /\ Accounts /\ ContentTypes /\ job.op = "allocate"
  BY Parts DEF AllocateNext
<1>2. CASE AllocateMiss
  <2>1. PICK b : b = Head(free)
    OBVIOUS
  <2>2. /\ Misses /\ b \in Blocks /\ Claim(b, NextHash, NextTokens) /\ Placed(b)
        /\ cached' = cached
    BY <2>1, <1>1, <1>2, HeadIsFree DEF AllocateMiss
  <2> QED BY <2>2, <1>1, ClaimOwn
<1>3. CASE AllocateHit
  <2>1. PICK b : b = hashTo[NextHash]
    OBVIOUS
  <2>2. ~Misses /\ b \in Blocks
    BY <2>1, <1>1, <1>3 DEF AllocateHit, Misses, Hit, ContentTypes
  <2>3. /\ Placed(b) /\ cached' = [cached EXCEPT ![job.seq] = @ + BlockSize]
        /\ IF b \in used THEN Share(b, NextHash, NextTokens) ELSE Claim(b, NextHash, NextTokens)
        /\ blockHash[b] = NextHash
    BY <2>1, <2>2, <1>1, <1>3 DEF AllocateHit, HitsAreOwn
  <2>4. CASE b \in used
    BY <2>2, <2>3, <2>4, <1>1, ShareOwn
  <2>5. CASE b \notin used
    BY <2>2, <2>3, <2>5, <1>1, ClaimOwn
  <2> QED BY <2>4, <2>5
<1>4. ~AllocateFails
  BY DEF AllocateFails, Fail
<1> QED BY <1>2, <1>3, <1>4 DEF AllocateNext

(* may_append opens a block behind those that are cached.                  *)
LEMMA OpenBlockOwn ==
    ASSUME PoolTypes, Accounts, ContentTypes, ContentInv, OwnInv, job = Idle,
           NEW s \in Seqs, table[s] # <<>>, s \notin due, OpenBlock(s),
           UNCHANGED <<tokens, cached, job>>
    PROVE  OwnInv'
<1>1. PICK b, n : b = Head(free) /\ n = Len(table[s])
  OBVIOUS
<1>2. b \in Blocks /\ Claim(b, NoHash, <<>>) /\ Extend(s, b)
  BY <1>1, HeadIsFree DEF OpenBlock
<1>3. /\ n \in Nat /\ Len(table'[s]) = n + 1
      /\ \A r \in Seqs \ {s} : table'[r] = table[r]
  BY <1>1, <1>2, ExtendLength, LenProperties DEF PoolTypes
<1>4. (n + 1) * BlockSize = n * BlockSize + BlockSize /\ n * BlockSize \in Nat
      /\ BlockSize \in Nat /\ BlockSize >= 2
  <2>1. n + 1 \in Nat \ {0} /\ n + 1 - 1 = n
    BY <1>3
  <2>2. PICK m \in Nat \ {0} : m = n + 1
    BY <2>1
  <2>3. (m - 1) * BlockSize \in Nat /\ m * BlockSize = (m - 1) * BlockSize + BlockSize
    BY BlockBounds
  <2>4. m - 1 = n
    BY <2>2, <1>3
  <2> QED BY <2>2, <2>3, <2>4, BlockAssumption
<1>5. /\ job.op # "deallocate" /\ job.op # "allocate" /\ job' = job
      /\ cached' = cached /\ \A r, i : Prefix(r, i)' = Prefix(r, i)
  BY DEF Idle, Prefix
<1>6. cached[s] \in Nat /\ cached[s] <= n * BlockSize
  BY <1>1, <1>5 DEF OwnInv, CachedFits, Draining, ContentTypes
<1>7. ASSUME NEW r \in Seqs, NEW i \in DOMAIN table'[r], NEW c \in Blocks, table'[r][i] = c
      PROVE  \/ i \in DOMAIN table[r] /\ table[r][i] = c /\ blockHash'[c] = blockHash[c]
             \/ r = s /\ i = n + 1 /\ blockHash'[c] = NoHash
  <2>1. n = Len(table[s])
    BY <1>1
  <2> QED BY <2>1, <1>2, <1>7, ClaimSlots
<1>8. HashesAreOwn'
  BY <1>5, <1>7 DEF OwnInv, HashesAreOwn
<1>9. CachedFits'
  <2>1. ASSUME NEW r \in Seqs PROVE cached'[r] <= Len(table'[r]) * BlockSize
    <3>1. CASE r # s
      BY <3>1, <1>3, <1>5 DEF OwnInv, CachedFits, Draining
    <3>2. CASE r = s
      BY <3>2, <1>3, <1>4, <1>5, <1>6
    <3> QED BY <3>1, <3>2
  <2>2. ASSUME NEW r \in Seqs, NEW i \in DOMAIN table'[r], NEW c \in Blocks,
               table'[r][i] = c, blockHash'[c] = NoHash
        PROVE  cached'[r] < i * BlockSize
    <3>1. CASE i \in DOMAIN table[r] /\ table[r][i] = c /\ blockHash'[c] = blockHash[c]
      BY <3>1, <2>2, <1>5 DEF OwnInv, CachedFits, Draining
    <3>2. CASE r = s /\ i = n + 1
      BY <3>2, <1>4, <1>5, <1>6
    <3> QED BY <3>1, <3>2, <2>2, <1>7
  <2> QED BY <2>1, <2>2 DEF CachedFits
<1> QED BY <1>5, <1>8, <1>9 DEF OwnInv, JobHashIsOwn, HitsSoFar

(* The hash of a block just filled chains those before it.                 *)
LEMMA SealedPrefix ==
    ASSUME PoolTypes, Accounts, ContentTypes, ContentInv, HashesAreOwn, job = Idle,
           NEW s \in Seqs, table[s] # <<>>, s \notin due, SealBlock(s),
           NEW b, b = Last(table[s]), NEW n, n = Len(table[s])
    PROVE  /\ b \in Blocks /\ n \in DOMAIN table[s] /\ table[s][n] = b
           /\ Holders(b) = {<<s, n>>} /\ n * BlockSize = Len(tokens[s])
           /\ n \in Nat \ {0} /\ blockHash[b] = NoHash /\ table' = table
           /\ blockHash'[b] = Prefix(s, n) /\ blockTokens'[b] = BlockOf(s, n - 1)
           /\ \A c \in Blocks \ {b} : /\ blockHash'[c] = blockHash[c]
                                     /\ blockTokens'[c] = blockTokens[c]
<1>1. PICK k, toks, h :
          /\ k = Len(tokens[s]) /\ toks = BlockOf(s, BlocksOf(s) - 1)
          /\ h = ComputeHash(toks, PrefixHash(s))
  OBVIOUS
<1>2. /\ Fill(s) = 0 /\ blockHash' = [blockHash EXCEPT ![b] = h]
      /\ blockTokens' = [blockTokens EXCEPT ![b] = toks] /\ table' = table
  BY <1>1 DEF SealBlock
<1>3. /\ n \in Nat \ {0} /\ DOMAIN table[s] = 1..n /\ k \in Nat \ {0} /\ b \in Blocks
      /\ table[s] \in Seq(Blocks) /\ table[s][n] = b
      /\ Settled(s) = k - 1 /\ n * BlockSize = k /\ Holders(b) = {<<s, n>>}
      /\ blockHash[b] = NoHash
  BY <1>1, <1>2, LastBlock
<1>4. /\ (n - 1) * BlockSize = n * BlockSize - BlockSize /\ BlockSize \in Nat
      /\ BlockSize >= 2 /\ (n - 1) * BlockSize \in Nat /\ n - 1 \in Nat
  <2>1. n \in Nat \ {0}
    BY <1>3
  <2>2. /\ n * BlockSize = (n - 1) * BlockSize + BlockSize /\ n * BlockSize \in Nat
        /\ (n - 1) * BlockSize \in Nat
    BY <2>1, BlockBounds
  <2> QED BY ONLY <2>1, <2>2, BlockAssumption
<1>5. BlocksOf(s) = n
  <2>1. /\ BlocksOf(s) \in Nat \ {0} /\ BlocksOf(s) * BlockSize >= k
        /\ (BlocksOf(s) - 1) * BlockSize < k /\ BlocksOf(s) * BlockSize \in Nat
    BY <1>1, BlocksOfProperties, BlocksGrow
  <2>2. (n - 1) * BlockSize < k /\ k <= n * BlockSize /\ k <= BlocksOf(s) * BlockSize
    BY <2>1, <1>3, <1>4
  <2>3. n <= BlocksOf(s) /\ BlocksOf(s) <= n
    BY <2>1, <2>2, <1>3, NoMoreBlocks
  <2> QED BY <2>1, <2>3, <1>3
<1>6. Prefix(s, n - 1) \o toks = Prefix(s, n) /\ Prefix(s, 0) = <<>>
  <2>1. n * BlockSize <= Len(tokens[s])
    BY <1>1, <1>3
  <2> QED BY <2>1, <1>1, <1>3, <1>5, PrefixGrows
<1>7. PrefixHash(s) = Prefix(s, n - 1)
  <2>1. CASE n > 1
    <3>1. PICK c : c = table[s][n - 1]
      OBVIOUS
    <3>2. n - 1 \in DOMAIN table[s] /\ c \in Blocks
      BY <2>1, <3>1, <1>3, ElementOfSeq
    <3>3. (n - 1) * BlockSize <= Settled(s)
      <4>1. Settled(s) = k - 1 /\ (n - 1) * BlockSize <= k - 1
        BY <1>3, <1>4
      <4> QED BY <4>1
    <3>4. blockHash[c] # NoHash
      BY <3>1, <3>2, <3>3 DEF ContentInv, SlotsMatch, SlotOK
    <3>5. blockHash[c] = Prefix(s, n - 1)
      BY <3>1, <3>2, <3>4 DEF HashesAreOwn
    <3> QED BY <3>1, <3>5, <2>1 DEF PrefixHash
  <2>2. CASE ~(n > 1)
    <3>1. n - 1 = 0
      <4>1. n \in Nat \ {0}
        BY <1>3
      <4> QED BY <4>1, <2>2
    <3> QED BY <3>1, <2>2, <1>6 DEF PrefixHash, NoHash
  <2> QED BY <2>1, <2>2
<1>8. h = Prefix(s, n)
  BY <1>1, <1>6, <1>7 DEF ComputeHash
<1>9. toks = BlockOf(s, n - 1)
  BY <1>1, <1>5
<1> QED BY <1>1, <1>2, <1>3, <1>8, <1>9 DEF ContentTypes

LEMMA SealBlockOwn ==
    ASSUME PoolTypes, Accounts, ContentTypes, ContentInv, OwnInv, job = Idle,
           NEW s \in Seqs, table[s] # <<>>, s \notin due, SealBlock(s),
           UNCHANGED <<tokens, cached, job>>
    PROVE  OwnInv'
<1>1. PICK b, n : b = Last(table[s]) /\ n = Len(table[s])
  OBVIOUS
<1>2. /\ b \in Blocks /\ table' = table /\ Holders(b) = {<<s, n>>}
      /\ blockHash[b] = NoHash /\ blockHash'[b] = Prefix(s, n)
      /\ \A c \in Blocks \ {b} : blockHash'[c] = blockHash[c]
  BY <1>1, SealedPrefix DEF OwnInv
<1>3. /\ job.op # "deallocate" /\ job.op # "allocate" /\ job' = job
      /\ cached' = cached /\ \A r, i : Prefix(r, i)' = Prefix(r, i)
  BY DEF Idle, Prefix
<1>4. HashesAreOwn'
  <2>1. ASSUME NEW r \in Seqs, NEW i \in DOMAIN table'[r], NEW c \in Blocks,
               table'[r][i] = c, blockHash'[c] # NoHash
        PROVE  blockHash'[c] = Prefix(r, i)'
    <3>1. CASE c # b
      BY <3>1, <2>1, <1>2, <1>3 DEF OwnInv, HashesAreOwn
    <3>2. CASE c = b
      <4>1. <<r, i>> \in Holders(b)
        BY <3>2, <2>1, <1>2, HeldIsUsed
      <4>2. r = s /\ i = n
        BY <4>1, <1>2
      <4> QED BY <4>2, <3>2, <1>2, <1>3
    <3> QED BY <3>1, <3>2
  <2> QED BY <2>1 DEF HashesAreOwn
<1>5. CachedFits'
  <2>1. ASSUME NEW r \in Seqs, NEW i \in DOMAIN table'[r], NEW c \in Blocks,
               table'[r][i] = c, blockHash'[c] = NoHash
        PROVE  cached'[r] < i * BlockSize
    <3>1. blockHash[c] = NoHash
      BY <2>1, <1>2
    <3> QED BY <3>1, <2>1, <1>2, <1>3 DEF OwnInv, CachedFits, Draining
  <2>2. \A r \in Seqs : cached'[r] <= Len(table'[r]) * BlockSize
    BY <1>2, <1>3 DEF OwnInv, CachedFits, Draining
  <2> QED BY <2>1, <2>2 DEF CachedFits
<1> QED BY <1>3, <1>4, <1>5 DEF OwnInv, JobHashIsOwn, HitsSoFar

LEMMA MayAppendOwn ==
    ASSUME IInv, ContentInv, OwnInv, NEW s \in Seqs, MayBeExtended(s), MayAppend(s),
           ~raised'
    PROVE  OwnInv'
<1>1. /\ PoolTypes /\ Accounts /\ ContentTypes /\ job = Idle
      /\ table[s] # <<>> /\ s \notin due
  BY Parts DEF MayAppend, MayBeExtended
<1>2. /\ OpenBlock(s) \/ SealBlock(s) \/ StayInBlock(s)
      /\ UNCHANGED <<tokens, cached, job>>
  BY DEF MayAppend, Fail
<1>3. CASE StayInBlock(s)
  <2>1. HashesAreOwn' /\ CachedFits'
    BY <1>2, <1>3, StillOwn DEF StayInBlock, blockVars, Draining
  <2> QED BY <2>1, <1>1, <1>2 DEF OwnInv, JobHashIsOwn, HitsSoFar, Idle
<1> QED BY <1>1, <1>2, <1>3, OpenBlockOwn, SealBlockOwn

(* A block leaves a table; the rest of it is as it was.                    *)
LEMMA DeallocateOwn ==
    ASSUME IInv, OwnInv, DeallocateNext, ~raised'
    PROVE  OwnInv' /\ blockHash' = blockHash
<1>0. PICK s, n : s = job.seq /\ n = Len(table[s])
  OBVIOUS
<1>1. PoolTypes /\ ContentTypes /\ DrainsTable
  BY Parts
<1>2. job \in [op : {"deallocate"}, seq : Seqs] /\ job.op = "deallocate" /\ job # Idle
  BY <1>1 DEF DeallocateNext, ContentTypes, Jobs, Idle
<1>3. s \in Seqs /\ table[s] # <<>> /\ table[s] \in Seq(Blocks)
  BY <1>0, <1>1, <1>2 DEF DrainsTable, PoolTypes
<1>4. /\ table' = [table EXCEPT ![s] = Front(@)]
      /\ IF n = 1 THEN job' = Idle /\ cached' = [cached EXCEPT ![s] = 0]
                  ELSE job' = job /\ cached' = cached
      /\ UNCHANGED <<blockHash, tokens>>
  BY <1>0 DEF DeallocateNext, Fail
<1>5. /\ n \in Nat \ {0} /\ Front(table[s]) \in Seq(Blocks) /\ Len(Front(table[s])) = n - 1
      /\ \A i \in 1..(n - 1) : Front(table[s])[i] = table[s][i]
      /\ DOMAIN table[s] = 1..n
  BY <1>0, <1>3, FrontProperties, EmptySeq, LenProperties
<1>6. /\ table'[s] = Front(table[s]) /\ \A r \in Seqs \ {s} : table'[r] = table[r]
      /\ DOMAIN table'[s] = 1..(n - 1) /\ Len(table'[s]) = n - 1
      /\ job'.op # "allocate"
  BY <1>1, <1>2, <1>3, <1>4, <1>5, LenProperties DEF PoolTypes, Idle
<1>7. ASSUME NEW r \in Seqs, NEW i \in DOMAIN table'[r]
      PROVE  i \in DOMAIN table[r] /\ table'[r][i] = table[r][i]
  BY <1>5, <1>6, <1>7
<1>8. HashesAreOwn'
  BY <1>4, <1>7 DEF OwnInv, HashesAreOwn, Prefix
<1>9. CachedFits'
  <2>1. CASE n = 1
    <3>1. job' = Idle /\ job'.op # "deallocate" /\ cached' = [cached EXCEPT ![s] = 0]
      BY <2>1, <1>4 DEF Idle
    <3>2. /\ DOMAIN table'[s] = {} /\ cached'[s] = 0 /\ Len(table'[s]) * BlockSize = 0
      BY <3>1, <2>1, <1>1, <1>3, <1>6, BlockAssumption DEF ContentTypes
    <3>3. ASSUME NEW r \in Seqs, r # s
          PROVE  /\ cached'[r] <= Len(table'[r]) * BlockSize
                 /\ \A i \in DOMAIN table'[r] : \A b \in Blocks :
                       table'[r][i] = b /\ blockHash'[b] = NoHash => cached'[r] < i * BlockSize
      BY <3>1, <3>3, <1>0, <1>1, <1>4, <1>6 DEF OwnInv, CachedFits, Draining, ContentTypes
    <3> QED BY <3>2, <3>3 DEF CachedFits
  <2>2. CASE n # 1
    BY <2>2, <1>0, <1>2, <1>4, <1>6 DEF OwnInv, CachedFits, Draining
  <2> QED BY <2>1, <2>2
<1> QED BY <1>4, <1>6, <1>8, <1>9 DEF OwnInv, JobHashIsOwn, HitsSoFar

(* Every step keeps whose hash is whose, as long as hits do.               *)
LEMMA NextOwn ==
    ASSUME IInv, ContentInv, ContentInv', OwnInv, HitsAreOwn, [Next]_bmVars
    PROVE  OwnInv'
<1>1. ~raised'
  BY DEF ContentInv, NeverRaises
<1>2. CASE UNCHANGED bmVars
  <2>1. UNCHANGED <<blockHash, tokens, table, cached>> /\ job' = job
    BY <1>2 DEF bmVars, blockVars
  <2>2. HashesAreOwn' /\ CachedFits'
    BY <2>1, StillOwn DEF Draining
  <2> QED BY <2>1, <2>2 DEF OwnInv, JobHashIsOwn, HitsSoFar, Prefix
<1>3. CASE \E s \in Seqs, t \in Tokens : MaySample(s) /\ AppendToken(s, t)
  BY <1>3, AppendTokenOwn
<1> QED BY <1>1, <1>2, <1>3, ClearCacheOwn, AllocateOwn, DeallocateOwn, BeginAllocateOwn,
           MayAppendOwn, BeginDeallocateOwn DEF Next
-----------------------------------------------------------------------------
(* A sampled token that does not open a block goes into one without a hash.*)
LEMMA OpenLast ==
    ASSUME IInv, ContentInv, job = Idle, NEW s \in Seqs, table[s] # <<>>, s \notin due,
           Fill(s) # 1
    PROVE  blockHash[table[s][Len(table[s])]] = NoHash
<1>1. PoolTypes /\ ContentTypes
  BY Parts
<1>2. PICK b, n : b = Last(table[s]) /\ n = Len(table[s])
  OBVIOUS
<1> QED BY <1>1, <1>2, LastBlock

(* Behind a full block a token opens the next one.                         *)
LEMMA FullLast ==
    ASSUME IInv, ContentInv, NEW s \in due, NEW k, k = Len(tokens[s]) + 1,
           blockHash[table[s][Len(table[s])]] # NoHash
    PROVE  k % BlockSize = 1
<1>1. s \in Seqs /\ table[s] # <<>> /\ ~OnJob(s)
  BY Parts DEF ContentTypes, ContentInv, DueHold
<1>2. PICK n : n = Len(table[s])
  OBVIOUS
<1>3. n \in DOMAIN table[s]
  BY <1>1, <1>2, Parts, EmptySeq, LenProperties DEF PoolTypes
<1>4. /\ n \in Nat \ {0} /\ n * BlockSize \in Nat /\ Len(tokens[s]) \in Nat \ {0}
      /\ n * BlockSize <= Len(tokens[s]) /\ (n - 1) * BlockSize < Len(tokens[s])
  BY <1>1, <1>2, <1>3, Places
<1>5. Len(tokens[s]) <= n * BlockSize
  <2>1. Settled(s) = Len(tokens[s])
    BY DEF Settled
  <2> QED BY <2>1, <1>1, <1>2, <1>4 DEF ContentInv, TablesComplete
<1>6. n * BlockSize = k - 1 /\ k \in Nat \ {0} /\ (n - 1) * BlockSize < k - 1
  BY <1>4, <1>5
<1>7. PICK e : e = n * BlockSize
  OBVIOUS
<1>8. /\ k % BlockSize = 0 => e = k
      /\ k % BlockSize \notin {0, 1} => e > k
  BY <1>4, <1>6, <1>7, EndOfText
<1> QED BY <1>6, <1>7, <1>8

(* What a caller sees of an iteration of allocate(): a place is added to   *)
(* the table, and only the block there may change its hash.  A miss leaves *)
(* the place behind those that are cached, a hit changes no hash.          *)
PlacedAt(s, n, b) ==
    /\ s \in Seqs /\ n \in DOMAIN table'[s] /\ table'[s][n] = b
    /\ \A r \in Seqs : \A i \in DOMAIN table[r] :
          i \in DOMAIN table'[r] /\ table'[r][i] = table[r][i]
    /\ \A c \in Blocks \ {b} : blockHash'[c] = blockHash[c]
    /\ \/ cached' = cached /\ cached[s] < n * BlockSize
       \/ /\ blockHash' = blockHash
          /\ \A r \in Seqs \ {s} : cached'[r] = cached[r]
          /\ \A i \in DOMAIN table[s] : i * BlockSize <= cached[s]

LEMMA AllocateEffect ==
    ASSUME IInv, ContentInv, OwnInv, HitsAreOwn, AllocateNext, ~raised',
           NEW s, s = job.seq, NEW n, n = Len(table[s]) + 1
    PROVE  \E b \in Blocks : PlacedAt(s, n, b)
<1>1. PoolTypes /\ Accounts /\ ContentTypes /\ job.op = "allocate"
  BY Parts DEF AllocateNext
<1>2. /\ s \in Seqs /\ n \in Nat \ {0} /\ cached[s] \in Nat
      /\ cached[s] < n * BlockSize
      /\ ~job.miss => cached[s] + BlockSize = n * BlockSize
      /\ n * BlockSize = (n - 1) * BlockSize + BlockSize /\ BlockSize \in Nat
      /\ (n - 1) * BlockSize \in Nat
  BY <1>1, NextPlace
<1>3. PICK m : m = Len(table[s])
  OBVIOUS
<1>4. m \in Nat /\ n = m + 1 /\ n - 1 = m /\ DOMAIN table[s] = 1..m /\ table[s] \in Seq(Blocks)
  BY <1>1, <1>2, <1>3, LenProperties DEF PoolTypes
<1>5. ASSUME NEW b \in Blocks, Extend(s, b)
      PROVE  /\ n \in DOMAIN table'[s] /\ table'[s][n] = b
             /\ \A r \in Seqs : \A i \in DOMAIN table[r] :
                   i \in DOMAIN table'[r] /\ table'[r][i] = table[r][i]
  <2>1. /\ table'[s] = Append(table[s], b) /\ \A r \in Seqs \ {s} : table'[r] = table[r]
    BY <1>1, <1>2, <1>5 DEF Extend, PoolTypes
  <2>2. /\ table'[s] \in Seq(Blocks) /\ Len(table'[s]) = m + 1
        /\ \A j \in 1..m : table'[s][j] = table[s][j]
        /\ table'[s][m + 1] = b
    BY <2>1, <1>3, <1>4, AppendProperties
  <2>3. DOMAIN table'[s] = 1..n
    BY <2>2, <1>4, LenProperties
  <2>4. n \in DOMAIN table'[s] /\ table'[s][n] = b
    BY <2>2, <2>3, <1>4
  <2>5. ASSUME NEW i \in DOMAIN table[s]
        PROVE  i \in DOMAIN table'[s] /\ table'[s][i] = table[s][i]
    <3>1. i \in 1..m /\ i \in 1..n
      BY <1>4
    <3> QED BY <3>1, <2>2, <2>3
  <2> QED BY <2>1, <2>4, <2>5, <1>2
<1>6. CASE AllocateMiss
  <2>1. PICK b : b = Head(free)
    OBVIOUS
  <2>2. /\ b \in Blocks /\ Claim(b, NextHash, NextTokens) /\ Extend(s, b)
        /\ cached' = cached
    BY <2>1, <1>1, <1>6, HeadIsFree DEF AllocateMiss, Placed
  <2>3. \A c \in Blocks \ {b} : blockHash'[c] = blockHash[c]
    BY <2>2, <1>1 DEF Claim, ContentTypes
  <2> QED BY <2>2, <2>3, <1>2, <1>5 DEF PlacedAt
<1>7. CASE AllocateHit
  <2>1. PICK b : b = hashTo[NextHash]
    OBVIOUS
  <2>2. ~Misses /\ b \in Blocks /\ blockHash[b] = NextHash
    BY <2>1, <1>1, <1>7 DEF AllocateHit, Misses, Hit, ContentTypes, HitsAreOwn
  <2>3. /\ Extend(s, b) /\ cached' = [cached EXCEPT ![s] = @ + BlockSize]
        /\ blockHash' = [blockHash EXCEPT ![b] = NextHash]
    BY <2>1, <1>7 DEF AllocateHit, Placed, Share, Claim
  <2>4. blockHash' = blockHash /\ \A r \in Seqs \ {s} : cached'[r] = cached[r]
    BY <2>2, <2>3, <1>1 DEF ContentTypes
  <2>5. ASSUME NEW i \in DOMAIN table[s] PROVE i * BlockSize <= cached[s]
    <3>1. cached[s] = (n - 1) * BlockSize
      BY <2>2, <1>2 DEF Misses
    <3>2. i \in Nat /\ i <= m
      BY <1>4
    <3>3. i * BlockSize <= m * BlockSize
      BY <3>2, <1>4, BlocksGrow
    <3> QED BY <3>1, <3>3, <1>4
  <2> QED BY <2>2, <2>3, <2>4, <2>5, <1>2, <1>5 DEF PlacedAt
<1>8. ~AllocateFails
  BY DEF AllocateFails, Fail
<1> QED BY <1>6, <1>7, <1>8 DEF AllocateNext

(* ... and of may_append: only the hash of the last block may change.      *)
LEMMA MayAppendEffect ==
    ASSUME IInv, ContentInv, OwnInv, NEW s \in Seqs, MayBeExtended(s), MayAppend(s),
           ~raised'
    PROVE  \E b \in Blocks :
              /\ Len(table'[s]) \in DOMAIN table'[s] /\ table'[s][Len(table'[s])] = b
              /\ \A c \in Blocks \ {b} : blockHash'[c] = blockHash[c]
              /\ \A r \in Seqs \ {s} : table'[r] = table[r]
              /\ Fill(s) # 1 => table'[s] = table[s]
<1>1. /\ PoolTypes /\ Accounts /\ ContentTypes /\ job = Idle
      /\ table[s] # <<>> /\ s \notin due
  BY Parts DEF MayAppend, MayBeExtended
<1>2. PICK b, n : b = Last(table[s]) /\ n = Len(table[s])
  OBVIOUS
<1>3. /\ n \in Nat \ {0} /\ DOMAIN table[s] = 1..n /\ b \in Blocks /\ table[s][n] = b
  BY <1>1, <1>2, LastBlock
<1>4. CASE OpenBlock(s)
  <2>1. PICK c : c = Head(free)
    OBVIOUS
  <2>2. c \in Blocks /\ Claim(c, NoHash, <<>>) /\ Extend(s, c) /\ Fill(s) = 1
    BY <2>1, <1>1, <1>4, HeadIsFree DEF OpenBlock
  <2>3. /\ table'[s] = Append(table[s], c) /\ \A r \in Seqs \ {s} : table'[r] = table[r]
        /\ table[s] \in Seq(Blocks)
    BY <2>2, <1>1 DEF Extend, PoolTypes
  <2>4. /\ table'[s] \in Seq(Blocks) /\ Len(table'[s]) = n + 1 /\ table'[s][n + 1] = c
    BY <2>2, <2>3, <1>2, AppendProperties
  <2>5. Len(table'[s]) \in DOMAIN table'[s] /\ table'[s][Len(table'[s])] = c
    BY <2>4, <1>3, LenProperties
  <2>6. \A d \in Blocks \ {c} : blockHash'[d] = blockHash[d]
    BY <2>2, <1>1 DEF Claim, ContentTypes
  <2> QED BY <2>2, <2>3, <2>5, <2>6
<1>5. CASE SealBlock(s)
  <2>1. table' = table /\ \A c \in Blocks \ {b} : blockHash'[c] = blockHash[c]
    BY <1>1, <1>2, <1>5, SealedPrefix DEF OwnInv
  <2> QED BY <2>1, <1>2, <1>3
<1>6. CASE StayInBlock(s)
  <2>1. table' = table /\ blockHash' = blockHash
    BY <1>6 DEF StayInBlock, blockVars
  <2> QED BY <2>1, <1>2, <1>3
<1> QED BY <1>4, <1>5, <1>6 DEF MayAppend, Fail
-----------------------------------------------------------------------------
(* When hits are own: texts in which a full block tells all that is before *)

Upto(x, i) == SubSeq(x, 1, i * BlockSize)
Block(x, i) == SubSeq(x, (i - 1) * BlockSize + 1, i * BlockSize)

OneTextPerBlock(Texts) ==
    \A x, y \in Texts : \A i, j \in Nat \ {0} :
        /\ i * BlockSize <= Len(x) /\ j * BlockSize <= Len(y)
        /\ Block(x, i) = Block(y, j)
        => Upto(x, i) = Upto(y, j)

(* A block with a hash holds the tokens that its hash ends with, in one of *)
(* the texts.                                                              *)
FromTexts(Texts, b) ==
    \E x \in Texts : \E i \in Nat \ {0} :
        /\ i * BlockSize <= Len(x)
        /\ blockHash[b] = Upto(x, i) /\ blockTokens[b] = Block(x, i)

BlocksFrom(Texts) == \A b \in Blocks : blockHash[b] # NoHash => FromTexts(Texts, b)

(* What allocate() is handing out blocks for is one of the texts, and so   *)
(* is what a call of may_append extends.                                   *)
AllocatesFor(Texts) == job.op = "allocate" => tokens[job.seq] \in Texts
ExtendsOnly(Texts)  == \A s \in due' \ due : tokens[s] \in Texts

(* Over such texts equal tokens are enough of a check.                     *)
LEMMA TextsHit ==
    ASSUME NEW Texts, OneTextPerBlock(Texts), AllocatesFor(Texts), BlocksFrom(Texts),
           IInv, ContentInv, OwnInv
    PROVE  HitsAreOwn
<1> SUFFICES ASSUME job.op = "allocate", ~Misses
             PROVE  blockHash[hashTo[NextHash]] = NextHash
  BY DEF HitsAreOwn
<1>1. PoolTypes /\ ContentTypes
  BY Parts
<1>2. PICK s, n, b : s = job.seq /\ n = Len(table[s]) + 1 /\ b = hashTo[NextHash]
  OBVIOUS
<1>3. /\ b \in Blocks /\ blockTokens[b] = NextTokens /\ NextHash # NoHash
  BY <1>1, <1>2 DEF Misses, Hit, ContentTypes, ContentInv, NoHashUncached
<1>4. /\ s \in Seqs /\ n \in Nat \ {0} /\ NextTokens = BlockOf(s, n - 1)
      /\ NextHash = Prefix(s, n) /\ n * BlockSize <= Len(tokens[s])
  BY <1>1, <1>2, <1>3, NextBlock, NextPrefix DEF OwnInv
<1>5. Len(BlockOf(s, n - 1)) = BlockSize /\ BlockOf(s, n - 1) = Block(tokens[s], n)
  <2>1. (n - 1) * BlockSize < Len(tokens[s])
    <3>1. /\ (n - 1) * BlockSize \in Nat /\ n * BlockSize = (n - 1) * BlockSize + BlockSize
          /\ BlockSize \in Nat /\ BlockSize >= 2
      BY <1>4, BlockBounds, BlockAssumption
    <3>2. Len(tokens[s]) \in Nat
      BY <1>1, <1>4, BlocksOfProperties
    <3> QED BY <3>1, <3>2, <1>4
  <2> QED BY <2>1, <1>1, <1>4, BlockOfProperties DEF Block
<1>6. blockHash[b] # NoHash
  <2>1. NextTokens # <<>>
    BY <1>4, <1>5, BlockAssumption
  <2> QED BY <2>1, <1>3 DEF ContentInv, UnhashedAreEmpty
<1>7. PICK x \in Texts, i \in Nat \ {0} :
          /\ i * BlockSize <= Len(x)
          /\ blockHash[b] = Upto(x, i) /\ blockTokens[b] = Block(x, i)
  BY <1>3, <1>6 DEF BlocksFrom, FromTexts
<1>8. tokens[s] \in Texts /\ Block(tokens[s], n) = Block(x, i)
  BY <1>2, <1>3, <1>4, <1>5, <1>7 DEF AllocatesFor
<1>9. Upto(x, i) = Upto(tokens[s], n)
  BY <1>4, <1>7, <1>8 DEF OneTextPerBlock
<1> QED BY <1>2, <1>4, <1>7, <1>9 DEF Upto, Prefix

(* What the next full block is, as a block of one of the texts.            *)
LEMMA FullBlock ==
    ASSUME NEW Texts, ContentTypes, NEW s \in Seqs, tokens[s] \in Texts,
           NEW n \in Nat \ {0}, n * BlockSize <= Len(tokens[s])
    PROVE  \E x \in Texts : \E i \in Nat \ {0} :
              /\ i * BlockSize <= Len(x)
              /\ Prefix(s, n) = Upto(x, i) /\ BlockOf(s, n - 1) = Block(x, i)
<1>1. (n - 1) * BlockSize < Len(tokens[s])
  <2>1. /\ (n - 1) * BlockSize \in Nat /\ n * BlockSize = (n - 1) * BlockSize + BlockSize
        /\ BlockSize \in Nat /\ BlockSize >= 2
    BY BlockBounds, BlockAssumption
  <2>2. Len(tokens[s]) \in Nat
    BY BlocksOfProperties
  <2> QED BY <2>1, <2>2
<1>2. BlockOf(s, n - 1) = Block(tokens[s], n)
  BY <1>1, BlockOfProperties DEF Block
<1>3. Prefix(s, n) = Upto(tokens[s], n)
  BY DEF Prefix, Upto
<1> QED BY <1>2, <1>3

(* The blocks go on holding texts.                                         *)
LEMMA NextTexts ==
    ASSUME NEW Texts, AllocatesFor(Texts), ExtendsOnly(Texts), BlocksFrom(Texts),
           IInv, ContentInv, OwnInv, [Next]_bmVars
    PROVE  BlocksFrom(Texts)'
<1>1. PoolTypes /\ Accounts /\ ContentTypes
  BY Parts
<1>2. CASE UNCHANGED <<blockHash, blockTokens>>
  BY <1>2 DEF BlocksFrom, FromTexts
<1>3. CASE ClearCache
  <2>1. ASSUME NEW b \in Blocks, blockHash'[b] # NoHash
        PROVE  blockHash'[b] = blockHash[b] /\ blockTokens'[b] = blockTokens[b]
    BY <2>1, <1>3 DEF ClearCache
  <2> QED BY <2>1 DEF BlocksFrom, FromTexts
<1>4. ASSUME NEW b \in Blocks, NEW h, NEW toks,
             \A c \in Blocks \ {b} :
                 blockHash'[c] = blockHash[c] /\ blockTokens'[c] = blockTokens[c],
             blockHash'[b] = h, h # NoHash => blockTokens'[b] = toks,
             h # NoHash => \E x \in Texts : \E i \in Nat \ {0} :
                 i * BlockSize <= Len(x) /\ h = Upto(x, i) /\ toks = Block(x, i)
      PROVE  BlocksFrom(Texts)'
  BY <1>4 DEF BlocksFrom, FromTexts
<1>5. CASE AllocateNext
  <2>1. job.op = "allocate"
    BY <1>5 DEF AllocateNext
  <2>2. PICK s, n : s = job.seq /\ n = Len(table[s]) + 1
    OBVIOUS
  <2>3. ASSUME NextHash # NoHash
        PROVE  \E x \in Texts : \E i \in Nat \ {0} :
                   i * BlockSize <= Len(x) /\ NextHash = Upto(x, i) /\ NextTokens = Block(x, i)
    <3>1. /\ s \in Seqs /\ n \in Nat \ {0} /\ NextTokens = BlockOf(s, n - 1)
          /\ NextHash = Prefix(s, n) /\ n * BlockSize <= Len(tokens[s])
      BY <1>1, <2>1, <2>2, <2>3, NextBlock, NextPrefix DEF OwnInv
    <3>2. tokens[s] \in Texts
      BY <2>1, <2>2 DEF AllocatesFor
    <3> QED BY <3>1, <3>2, <1>1, FullBlock
  <2>4. ASSUME NEW b \in Blocks,
               Claim(b, NextHash, NextTokens) \/ (~Misses /\ Share(b, NextHash, NextTokens))
        PROVE  BlocksFrom(Texts)'
    <3>1. /\ blockHash' = [blockHash EXCEPT ![b] = NextHash]
          /\ blockTokens' = [blockTokens EXCEPT ![b] = blockTokens'[b]]
          /\ NextHash # NoHash => blockTokens'[b] = NextTokens
      BY <2>4, <1>1 DEF Claim, Share, Contents, ContentTypes
    <3> QED BY <3>1, <2>3, <1>1, <1>4 DEF ContentTypes
  <2>5. CASE AllocateMiss
    <3>1. Head(free) \in Blocks /\ Claim(Head(free), NextHash, NextTokens)
      BY <2>5, <1>1, HeadIsFree DEF AllocateMiss
    <3> QED BY <3>1, <2>4
  <2>6. CASE AllocateHit
    <3>1. PICK b : b = hashTo[NextHash]
      OBVIOUS
    <3>2. /\ ~Misses /\ b \in Blocks
          /\ IF b \in used THEN Share(b, NextHash, NextTokens) ELSE Claim(b, NextHash, NextTokens)
      BY <3>1, <2>6, <1>1 DEF AllocateHit, Misses, Hit, ContentTypes
    <3> QED BY <3>2, <2>4
  <2>7. CASE AllocateFails
    BY <2>7, <1>2 DEF AllocateFails, Fail, blockVars
  <2> QED BY <2>5, <2>6, <2>7, <1>5 DEF AllocateNext
<1>6. CASE DeallocateNext
  BY <1>2, <1>6 DEF DeallocateNext, Fail, blockVars
<1>7. CASE \E s \in Seqs : MayBeExtended(s) /\ MayAppend(s)
  <2>1. PICK s \in Seqs : MayBeExtended(s) /\ MayAppend(s)
    BY <1>7
  <2>2. job = Idle /\ table[s] # <<>> /\ s \notin due
    BY <2>1 DEF MayBeExtended, MayAppend
  <2>3. CASE OpenBlock(s)
    <3>1. /\ Head(free) \in Blocks
          /\ blockHash' = [blockHash EXCEPT ![Head(free)] = NoHash]
          /\ blockTokens' = [blockTokens EXCEPT ![Head(free)] = <<>>]
      BY <2>3, <1>1, HeadIsFree DEF OpenBlock, Claim, Contents
    <3> QED BY <3>1, <1>1, <1>4 DEF ContentTypes
  <2>4. CASE SealBlock(s) /\ due' = due \cup {s}
    <3>0. tokens[s] \in Texts
      BY <2>2, <2>4 DEF ExtendsOnly
    <3>1. PICK b, n : b = Last(table[s]) /\ n = Len(table[s])
      OBVIOUS
    <3>2. /\ b \in Blocks /\ n \in Nat \ {0} /\ n * BlockSize = Len(tokens[s])
          /\ blockHash'[b] = Prefix(s, n) /\ blockTokens'[b] = BlockOf(s, n - 1)
          /\ \A c \in Blocks \ {b} : /\ blockHash'[c] = blockHash[c]
                                    /\ blockTokens'[c] = blockTokens[c]
      BY <3>1, <2>2, <2>4, <1>1, SealedPrefix DEF OwnInv
    <3>3. n * BlockSize <= Len(tokens[s])
      BY <3>2, <1>1, BlocksOfProperties
    <3>4. \E x \in Texts : \E i \in Nat \ {0} :
              /\ i * BlockSize <= Len(x)
              /\ Prefix(s, n) = Upto(x, i) /\ BlockOf(s, n - 1) = Block(x, i)
      BY <3>0, <3>2, <3>3, <1>1, FullBlock
    <3> QED BY <3>2, <3>4, <1>4
  <2>5. CASE StayInBlock(s) \/ Fail
    BY <2>5, <1>2 DEF StayInBlock, Fail, blockVars
  <2> QED BY <2>1, <2>3, <2>4, <2>5 DEF MayAppend
<1>8. CASE \E s \in Seqs : \/ BeginAllocate(s) \/ BeginDeallocate(s)
                          \/ \E t \in Tokens : AppendToken(s, t)
  BY <1>2, <1>8 DEF BeginAllocate, BeginDeallocate, AppendToken, Fail, blockVars
<1>9. CASE UNCHANGED bmVars
  BY <1>2, <1>9 DEF bmVars, blockVars
<1> QED BY <1>3, <1>5, <1>6, <1>7, <1>8, <1>9 DEF Next
=============================================================================
