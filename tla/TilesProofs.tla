----------------------------- MODULE TilesProofs -----------------------------
(***************************************************************************)
(* A grid computes every tile and its blocks store apart, for any sizes,   *)
(* tiles, strips and number of programs, and any order of the blocks.      *)
(*                                                                         *)
(* It is about tile numbers: each order of tiles numbers every tile once,  *)
(* and a persistent block takes the numbers congruent to its own, so an    *)
(* address names the block that stores there (Writer), for the kernels of  *)
(* attention by the row and the head it is of.  What a launch owes is      *)
(* stored round by round, with sums that take in all of the depth, and a   *)
(* launch that has left the stream has given all of it (Tiling).           *)
(***************************************************************************)
EXTENDS KernelsProofs, FiniteSetTheorems

-----------------------------------------------------------------------------
(* Orders of tiles *)

\* A product of matrices in one of the orders the kernels have.  Strips are level
\* unless the order knows how high the last one is.
Striped(l) == l.order \in {"swizzled", "grouped", "fast"} \/ (l.order \in {"universal", "varying"} /\ l.group # 0)
Ordered(l) ==
  /\ {l.m, l.n, l.k} \subseteq Positive /\ l.group \in Nat
  /\ l.order \in {"swizzled", "universal", "varying", "raster", "grouped", "fast"}
  /\ Striped(l) => l.group # 0
  /\ l.full \in BOOLEAN /\ l.full => l.order = "swizzled"
  /\ Striped(l) /\ l.order \notin {"grouped", "fast"} => l.full \/ l.m % l.group = 0
Order(l, t) == Coords(l.order, t, l.m, l.n, l.group)

LEMMA ProductOfThree ==
  ASSUME NEW a \in Nat, NEW b \in Nat, NEW c \in Nat
  PROVE  a * (b * c) = (a * b) * c /\ (a + b) * c = a * c + b * c
OBVIOUS

\* Position y * h + r is the r-th place of column y.
LEMMA Column ==
  ASSUME NEW h \in Positive, NEW n \in Nat, NEW y \in 0 .. n - 1, NEW r \in 0 .. h - 1
  PROVE  y * h + r \in 0 .. n * h - 1 /\ (y * h + r) \div h = y /\ (y * h + r) % h = r
<1>1. y \in Nat /\ y + 1 <= n /\ y + 1 \in Nat /\ h \in Nat
  BY DEF Positive
<1>2. (y + 1) * h <= n * h
  BY <1>1, ProductMonotone
<1>3. (y + 1) * h = y * h + h /\ y * h \in Nat /\ n * h \in Nat
  BY <1>1, ProductNat
<1>4. y * h + r \in Nat /\ y * h + r <= n * h - 1
  BY <1>1, <1>2, <1>3
<1> QED
  BY <1>1, <1>4, QuotientIs

LEMMA RasterOrder ==
  ASSUME NEW m \in Nat, NEW n \in Positive
  PROVE  /\ \A t \in 0 .. m * n - 1 : t \div n \in 0 .. m - 1 /\ t % n \in 0 .. n - 1
         /\ \A x \in 0 .. m - 1, y \in 0 .. n - 1 : \E t \in 0 .. m * n - 1 : t \div n = x /\ t % n = y
<1>1. ASSUME NEW t \in 0 .. m * n - 1
      PROVE  t \div n \in 0 .. m - 1 /\ t % n \in 0 .. n - 1
  <2>1. m * n \in Nat /\ n \in Nat
    BY ProductNat DEF Positive
  <2>2. t \in Nat /\ t < m * n
    BY <2>1
  <2>3. t \div n \in Nat /\ t % n \in 0 .. n - 1 /\ t = (t \div n) * n + (t % n)
    BY <2>2, QuotientOf
  <2>4. (t \div n) * n \in Nat
    BY <2>1, <2>3, ProductNat
  <2>5. (t \div n) * n < m * n
    BY <2>1, <2>2, <2>3, <2>4
  <2> QED
    BY <2>3, <2>5, ProductLess
<1>2. ASSUME NEW x \in 0 .. m - 1, NEW y \in 0 .. n - 1
      PROVE  \E t \in 0 .. m * n - 1 : t \div n = x /\ t % n = y
  BY Column
<1> QED
  BY <1>1, <1>2

\* A tile number in a strip: the strip, and the place in it.
LEMMA StripOf ==
  ASSUME NEW m \in Positive, NEW n \in Positive, NEW g \in Positive, NEW t \in 0 .. m * n - 1
  PROVE  /\ g * n \in Positive
         /\ t \div (g * n) \in Nat /\ (t \div (g * n)) * g < m
         /\ t % (g * n) \in Nat /\ t = (t \div (g * n)) * (g * n) + (t % (g * n))
<1> DEFINE w == g * n
           s == t \div w
<1>1. m \in Nat /\ n \in Nat /\ g \in Nat /\ g > 0 /\ n > 0
  BY DEF Positive
<1>2. w \in Nat /\ m * n \in Nat
  BY <1>1, ProductNat
<1>3. w > 0
  <2>1. 0 * n < g * n
    BY <1>1, ProductLess
  <2> QED
    BY <1>1, <2>1
<1>4. w \in Positive
  BY <1>2, <1>3 DEF Positive
<1> HIDE DEF w
<1>5. t \in Nat /\ t < m * n
  BY <1>2
<1>6. s \in Nat /\ t % w \in 0 .. w - 1 /\ t = s * w + (t % w)
  BY <1>4, <1>5, QuotientOf
<1> HIDE DEF s
<1>7. s * w = (s * g) * n /\ s * g \in Nat /\ s * w \in Nat
  BY <1>1, <1>2, <1>6, ProductOfThree, ProductNat DEF w
<1>8. (s * g) * n < m * n
  BY <1>5, <1>6, <1>7, <1>2
<1>9. s * g < m
  BY <1>1, <1>7, <1>8, ProductLess
<1> QED
  BY <1>4, <1>6, <1>9, <1>2 DEF w, s

\* A strip of height h in front of which there are s of height g.
LEMMA PlaceInStrip ==
  ASSUME NEW m \in Nat, NEW n \in Positive, NEW g \in Positive, NEW s \in Nat, NEW h \in 1 .. g,
         s * g + h <= m, NEW i \in 0 .. n * h - 1, NEW w, w = g * n, NEW t, t = s * w + i
  PROVE  t \in 0 .. m * n - 1 /\ t \div w = s /\ t % w = i
<1>1. m \in Nat /\ n \in Nat /\ g \in Nat /\ h \in Nat /\ h <= g
  BY DEF Positive
<1>2. w \in Nat /\ h * n \in Nat /\ m * n \in Nat /\ s * g \in Nat
  BY <1>1, ProductNat
<1>3. h * n <= w
  BY <1>1, ProductMonotone
<1>4. n * h = h * n
  BY <1>1
<1>5. (s * g + h) * n <= m * n
  BY <1>1, <1>2, ProductMonotone
<1>6. (s * g + h) * n = (s * g) * n + h * n /\ s * w = (s * g) * n
  BY <1>1, <1>2, ProductOfThree
<1>7. i \in Nat /\ i < h * n
  BY <1>2, <1>4
<1>8. w \in Positive /\ i \in 0 .. w - 1
  BY <1>2, <1>3, <1>7 DEF Positive
<1>9. s * w \in Nat
  BY <1>2, ProductNat
<1>10. t \in Nat /\ t < m * n
  BY <1>2, <1>5, <1>6, <1>7, <1>9
<1>11. t \div w = s /\ t % w = i
  BY <1>8, <1>10, QuotientIs
<1> QED
  BY <1>2, <1>10, <1>11

LEMMA Within ==
  ASSUME NEW g \in Nat, NEW h \in 1 .. g, NEW a \in 0 .. h - 1
  PROVE  a \in 0 .. g - 1
OBVIOUS

\* The height of a strip that begins above the last row.
LEMMA HeightIs ==
  ASSUME NEW m \in Positive, NEW g \in Positive, NEW s \in Nat, s * g < m
  PROVE  /\ Min({m - s * g, g}) \in 1 .. g /\ s * g + Min({m - s * g, g}) <= m
         /\ \A x \in 0 .. m - 1 : x \div g = s => x % g < Min({m - s * g, g})
         /\ m % g = 0 => Min({m - s * g, g}) = g
<1> DEFINE h == Min({m - s * g, g})
           p == s * g
<1>1. p \in Nat /\ m \in Nat /\ g \in Nat /\ g > 0 /\ p < m
  BY ProductNat DEF Positive
<1>2. h = IF m - p <= g THEN m - p ELSE g
  BY <1>1, MinIs DEF h
<1> HIDE DEF h, p
<1>3. h \in 1 .. g /\ p + h <= m
  BY <1>1, <1>2
<1>4. ASSUME NEW x \in 0 .. m - 1, x \div g = s PROVE x % g < h
  <2>1. x \in Nat
    BY <1>1
  <2>2. x = p + (x % g) /\ x % g \in 0 .. g - 1
    BY <1>4, <2>1, QuotientOf DEF p
  <2> QED
    BY <1>1, <1>2, <2>1, <2>2
<1>5. ASSUME m % g = 0 PROVE h = g
  <2>1. m \div g \in Nat /\ m = (m \div g) * g
    BY <1>1, <1>5, QuotientOf
  <2>2. s < m \div g
    BY <1>1, <2>1, ProductLess DEF p
  <2>3. (s + 1) * g <= (m \div g) * g
    BY <1>1, <2>1, <2>2, ProductMonotone
  <2>4. (s + 1) * g = p + g
    BY <1>1, ProductNat DEF p
  <2> QED
    BY <1>1, <1>2, <2>1, <2>3, <2>4
<1> QED
  BY <1>3, <1>4, <1>5 DEF h, p

LEMMA GroupedOrder ==
  ASSUME NEW m \in Positive, NEW n \in Positive, NEW g \in Positive
  PROVE  /\ \A t, u \in 0 .. m * n - 1 : GroupedCoords(t, m, n, g) = GroupedCoords(u, m, n, g) => t = u
         /\ \A x \in 0 .. m - 1, y \in 0 .. n - 1 : \E t \in 0 .. m * n - 1 : GroupedCoords(t, m, n, g) = <<x, y>>
<1> DEFINE w == g * n
           h(s) == Min({m - s * g, g})
<1>0. m \in Nat /\ n \in Nat /\ g \in Nat
  BY DEF Positive
<1>1. ASSUME NEW t \in 0 .. m * n - 1
      PROVE  \E s \in Nat, i \in Nat : /\ s = t \div w /\ i = t % w /\ t = s * w + i
                                       /\ h(s) \in 1 .. g
                                       /\ GroupedCoords(t, m, n, g) = <<s * g + (i % h(s)), i \div h(s)>>
  <2> DEFINE s == t \div w
             i == t % w
  <2>1. s \in Nat /\ s * g < m /\ i \in Nat /\ t = s * w + i
    BY StripOf
  <2>2. h(s) \in 1 .. g
    BY <2>1, HeightIs
  <2>3. GroupedCoords(t, m, n, g) = <<s * g + (i % h(s)), i \div h(s)>>
    BY DEF GroupedCoords, StripHeight
  <2> QED
    BY <2>1, <2>2, <2>3
<1>2. ASSUME NEW t \in 0 .. m * n - 1, NEW u \in 0 .. m * n - 1,
             GroupedCoords(t, m, n, g) = GroupedCoords(u, m, n, g)
      PROVE  t = u
  <2>1. PICK s \in Nat, i \in Nat : /\ t = s * w + i /\ h(s) \in 1 .. g
                                    /\ GroupedCoords(t, m, n, g) = <<s * g + (i % h(s)), i \div h(s)>>
    BY <1>1
  <2>2. PICK r \in Nat, j \in Nat : /\ u = r * w + j /\ h(r) \in 1 .. g
                                    /\ GroupedCoords(u, m, n, g) = <<r * g + (j % h(r)), j \div h(r)>>
    BY <1>1
  <2> HIDE DEF h, w
  <2>3. s * g + (i % h(s)) = r * g + (j % h(r)) /\ i \div h(s) = j \div h(r)
    BY <1>2, <2>1, <2>2
  <2>4. h(s) \in Positive /\ h(r) \in Positive
    BY <1>0, <2>1, <2>2 DEF Positive
  <2>5. i % h(s) \in 0 .. h(s) - 1 /\ i \div h(s) \in Nat /\ i = (i \div h(s)) * h(s) + (i % h(s))
    BY <2>4, QuotientOf
  <2>6. j % h(r) \in 0 .. h(r) - 1 /\ j \div h(r) \in Nat /\ j = (j \div h(r)) * h(r) + (j % h(r))
    BY <2>4, QuotientOf
  <2>7. i % h(s) \in 0 .. g - 1 /\ j % h(r) \in 0 .. g - 1
    BY <1>0, <2>1, <2>2, <2>5, <2>6, Within
  <2> DEFINE x == s * g + (i % h(s))
  <2>8. x \in Nat
    BY <1>0, <2>7, ProductNat
  <2>9. x = r * g + (j % h(r))
    BY <2>3
  <2>10. x \div g = s
    BY <2>7, <2>8, QuotientIs
  <2>11. x \div g = r
    BY <2>7, <2>8, <2>9, QuotientIs
  <2>12. s = r
    BY <2>10, <2>11
  <2>13. s * g \in Nat /\ i % h(s) \in Nat /\ j % h(s) \in Nat
    BY <1>0, <2>7, <2>12, ProductNat
  <2>14. i % h(s) = j % h(s)
    BY <2>3, <2>12, <2>13
  <2>15. i = j
    BY <2>3, <2>5, <2>6, <2>12, <2>14
  <2> QED
    BY <2>1, <2>2, <2>12, <2>15
<1>3. ASSUME NEW x \in 0 .. m - 1, NEW y \in 0 .. n - 1
      PROVE  \E t \in 0 .. m * n - 1 : GroupedCoords(t, m, n, g) = <<x, y>>
  <2> DEFINE s == x \div g
             e == h(s)
             i == y * e + (x % g)
             t == s * w + i
  <2>1. x \in Nat
    BY <1>0
  <2>2. s \in Nat /\ x % g \in 0 .. g - 1 /\ x = s * g + (x % g)
    BY <2>1, QuotientOf
  <2>3. s * g \in Nat /\ s * g < m
    BY <1>0, <2>1, <2>2, ProductNat
  <2>4. e \in 1 .. g /\ s * g + e <= m /\ x % g < e
    BY <2>2, <2>3, HeightIs
  <2> HIDE DEF h, e
  <2>5. e \in Positive /\ x % g \in 0 .. e - 1
    BY <1>0, <2>2, <2>4 DEF Positive
  <2> HIDE DEF s
  <2>6. i \in 0 .. n * e - 1 /\ i \div e = y /\ i % e = x % g
    BY <1>0, <2>5, Column
  <2> HIDE DEF i
  <2>7. w = g * n /\ t = s * w + i
    OBVIOUS
  <2> HIDE DEF t, w
  <2>8. t \in 0 .. m * n - 1 /\ t \div w = s /\ t % w = i
    BY <1>0, <2>2, <2>4, <2>6, <2>7, PlaceInStrip
  <2>9. GroupedCoords(t, m, n, g) = <<s * g + (i % e), i \div e>>
    BY <2>8 DEF GroupedCoords, StripHeight, h, w, e
  <2> QED
    BY <2>2, <2>6, <2>8, <2>9
<1> QED
  BY <1>2, <1>3

\* Where strips are level, every one is as high as the group.
LEMMA SwizzledOrder ==
  ASSUME NEW m \in Positive, NEW n \in Positive, NEW g \in Positive, m % g = 0, NEW t \in 0 .. m * n - 1
  PROVE  SwizzledCoords(t, m, n, g) = GroupedCoords(t, m, n, g)
<1>1. t \div (g * n) \in Nat /\ (t \div (g * n)) * g < m
  BY StripOf
<1>2. StripHeight(t, m, n, g) = g
  BY <1>1, HeightIs DEF StripHeight
<1> QED
  BY <1>2 DEF SwizzledCoords, GroupedCoords

\* Numbers in a row have all residues, each once.
LEMMA Residues ==
  ASSUME NEW a \in Nat, NEW h \in Positive
  PROVE  /\ \A r \in 0 .. h - 1 : \E c \in 0 .. h - 1 : (a + c) % h = r
         /\ \A c, d \in 0 .. h - 1 : (a + c) % h = (a + d) % h => c = d
<1>0. h \in Nat /\ h > 0
  BY DEF Positive
<1>1. a \div h \in Nat /\ a % h \in 0 .. h - 1 /\ a = (a \div h) * h + (a % h)
  BY QuotientOf
<1>2. ASSUME NEW r \in 0 .. h - 1 PROVE \E c \in 0 .. h - 1 : (a + c) % h = r
  <2> DEFINE q == a \div h
             e == a % h
             p == q * h
  <2>1. p \in Nat /\ (q + 1) * h = p + h /\ e \in 0 .. h - 1 /\ a = p + e /\ q + 1 \in Nat /\ q \in Nat
    BY <1>0, <1>1, ProductNat
  <2> HIDE DEF e
  <2>2. CASE r >= e
    <3> DEFINE c == r - e
    <3>1. c \in 0 .. h - 1 /\ a + c = q * h + r /\ a + c \in Nat
      BY <1>0, <2>1, <2>2
    <3> HIDE DEF c, q
    <3>2. (a + c) % h = r
      BY <2>1, <3>1, QuotientIs
    <3> QED
      BY <3>1, <3>2
  <2>3. CASE r < e
    <3> DEFINE c == r - e + h
    <3>1. c \in 0 .. h - 1 /\ a + c = (q + 1) * h + r /\ a + c \in Nat
      <4> HIDE DEF q
      <4> QED
        BY <1>0, <2>1, <2>3
    <3> HIDE DEF c, q
    <3>2. (a + c) % h = r
      BY <2>1, <3>1, QuotientIs
    <3> QED
      BY <3>1, <3>2
  <2> QED
    BY <1>0, <2>1, <2>2, <2>3
<1>3. ASSUME NEW c \in 0 .. h - 1, NEW d \in 0 .. h - 1, (a + c) % h = (a + d) % h, c < d PROVE FALSE
  <2> DEFINE x == a + c
             y == a + d
             A == x \div h
             B == y \div h
  <2>1. x \in Nat /\ y \in Nat /\ x < y /\ y < x + h
    BY <1>0, <1>3
  <2>a. x % h = y % h /\ h \in Positive
    BY <1>3
  <2> HIDE DEF x, y
  <2>b. A \in Nat /\ x = A * h + (x % h) /\ x % h \in 0 .. h - 1
    BY <2>1, <2>a, QuotientOf
  <2>c. B \in Nat /\ y = B * h + (y % h)
    BY <2>1, <2>a, QuotientOf
  <2> HIDE DEF A, B
  <2>2. A \in Nat /\ x = A * h + (x % h) /\ B \in Nat /\ y = B * h + (y % h) /\ x % h = y % h
        /\ x % h \in Nat
    <3>1. x % h \in Nat
      BY <1>0, <2>b
    <3> QED
      BY <2>a, <2>b, <2>c, <3>1
  <2>3. A * h \in Nat /\ B * h \in Nat
    <3>1. A \in Nat /\ B \in Nat /\ h \in Nat
      BY <1>0, <2>2
    <3> QED
      BY <3>1, ProductNat
  <2>4. A * h < B * h
    BY <2>1, <2>2, <2>3
  <2>5. A + 1 <= B /\ A + 1 \in Nat
    BY <2>2, <2>4, ProductLess
  <2>6. (A + 1) * h <= B * h /\ (A + 1) * h = A * h + h
    BY <1>0, <2>2, <2>5, ProductMonotone, ProductNat
  <2> QED
    BY <1>0, <2>1, <2>2, <2>3, <2>6
<1>4. ASSUME NEW c \in 0 .. h - 1, NEW d \in 0 .. h - 1, (a + c) % h = (a + d) % h PROVE c = d
  <2>1. c < d \/ d < c \/ c = d
    BY <1>0
  <2> QED
    BY <1>3, <1>4, <2>1
<1> QED
  BY <1>2, <1>4

LEMMA FastOrder ==
  ASSUME NEW m \in Positive, NEW n \in Positive, NEW g \in Positive
  PROVE  /\ \A t, u \in 0 .. m * n - 1 : FastCoords(t, m, n, g) = FastCoords(u, m, n, g) => t = u
         /\ \A x \in 0 .. m - 1, y \in 0 .. n - 1 : \E t \in 0 .. m * n - 1 : FastCoords(t, m, n, g) = <<x, y>>
<1> DEFINE w == g * n
           h(s) == Min({m - s * g, g})
<1>0. m \in Nat /\ n \in Nat /\ g \in Nat
  BY DEF Positive
<1>1. ASSUME NEW t \in 0 .. m * n - 1
      PROVE  \E s \in Nat, e \in 1 .. g, y \in Nat, c \in Nat, a \in Nat :
               /\ e = h(s) /\ a = s * w + y * e /\ t = a + c /\ c \in 0 .. e - 1
               /\ FastCoords(t, m, n, g) = <<s * g + ((a + c) % e), y>>
  <2> DEFINE s == t \div w
             i == t % w
             e == h(s)
             y == i \div e
             c == i % e
             a == s * w + y * e
  <2>1. w \in Nat /\ s \in Nat /\ s * g < m /\ i \in Nat /\ t = s * w + i
    <3>1. w \in Nat
      BY <1>0, ProductNat
    <3> QED
      BY <3>1, StripOf
  <2>2. e \in 1 .. g
    BY <2>1, HeightIs
  <2>3. FastCoords(t, m, n, g) = <<s * g + (t % e), y>>
    BY DEF FastCoords, StripHeight
  <2>4. e \in Positive
    BY <1>0, <2>2 DEF Positive
  <2> HIDE DEF e, s, i, w
  <2>5. y \in Nat /\ c \in 0 .. e - 1 /\ i = y * e + c
    BY <2>1, <2>4, QuotientOf
  <2> HIDE DEF y, c
  <2>6. s * w \in Nat /\ y * e \in Nat
    BY <1>0, <2>1, <2>2, <2>5, ProductNat
  <2>7. a \in Nat /\ t = a + c
    BY <2>1, <2>2, <2>5, <2>6
  <2>8. e = h(s) /\ a = s * w + y * e
    BY DEF e
  <2> HIDE DEF a, h
  <2> QED
    BY <2>1, <2>2, <2>3, <2>5, <2>7, <2>8
<1>2. ASSUME NEW t \in 0 .. m * n - 1, NEW u \in 0 .. m * n - 1,
             FastCoords(t, m, n, g) = FastCoords(u, m, n, g)
      PROVE  t = u
  <2>1. PICK s \in Nat, e \in 1 .. g, y \in Nat, c \in Nat, a \in Nat :
               /\ e = h(s) /\ a = s * w + y * e /\ t = a + c /\ c \in 0 .. e - 1
               /\ FastCoords(t, m, n, g) = <<s * g + ((a + c) % e), y>>
    BY <1>1
  <2>2. PICK r \in Nat, f \in 1 .. g, z \in Nat, d \in Nat, b \in Nat :
               /\ f = h(r) /\ b = r * w + z * f /\ u = b + d /\ d \in 0 .. f - 1
               /\ FastCoords(u, m, n, g) = <<r * g + ((b + d) % f), z>>
    BY <1>1
  <2> HIDE DEF h, w
  <2>3. s * g + ((a + c) % e) = r * g + ((b + d) % f) /\ y = z
    BY <1>2, <2>1, <2>2
  <2>4. e \in Positive /\ f \in Positive /\ a + c \in Nat /\ b + d \in Nat
    BY <1>0, <2>1, <2>2 DEF Positive
  <2>5. (a + c) % e \in 0 .. e - 1 /\ (b + d) % f \in 0 .. f - 1
    BY <2>4, QuotientOf
  <2>6. (a + c) % e \in 0 .. g - 1 /\ (b + d) % f \in 0 .. g - 1
    BY <1>0, <2>5, Within
  <2> DEFINE x == s * g + ((a + c) % e)
  <2>7. x \in Nat
    BY <1>0, <2>6, ProductNat
  <2>8. x = r * g + ((b + d) % f)
    BY <2>3
  <2>9. x \div g = s
    BY <2>6, <2>7, QuotientIs
  <2>10. x \div g = r
    BY <2>6, <2>7, <2>8, QuotientIs
  <2>11. s = r
    BY <2>9, <2>10
  <2>12. e = f /\ a = b
    BY <2>1, <2>2, <2>3, <2>11
  <2>13. s * g \in Nat /\ (a + c) % e \in Nat /\ (a + d) % e \in Nat
    BY <1>0, <2>6, <2>12, ProductNat
  <2>14. (a + c) % e = (a + d) % e
    BY <2>3, <2>11, <2>12, <2>13
  <2>15. c = d
    BY <2>1, <2>2, <2>4, <2>12, <2>14, Residues
  <2> QED
    BY <2>1, <2>2, <2>12, <2>15
<1>3. ASSUME NEW x \in 0 .. m - 1, NEW y \in 0 .. n - 1
      PROVE  \E t \in 0 .. m * n - 1 : FastCoords(t, m, n, g) = <<x, y>>
  <2> DEFINE s == x \div g
             e == h(s)
             a == s * w + y * e
  <2>1. x \in Nat /\ y \in Nat
    BY <1>0
  <2>2. s \in Nat /\ x % g \in 0 .. g - 1 /\ x = s * g + (x % g)
    BY <2>1, QuotientOf
  <2>3. s * g \in Nat /\ s * g < m /\ w \in Nat
    BY <1>0, <2>1, <2>2, ProductNat
  <2>4. e \in 1 .. g /\ s * g + e <= m /\ x % g < e
    BY <2>2, <2>3, HeightIs
  <2> HIDE DEF h, e
  <2>5. e \in Positive /\ x % g \in 0 .. e - 1 /\ e \in Nat
    BY <1>0, <2>2, <2>4 DEF Positive
  <2> HIDE DEF s
  <2>6. s * w \in Nat /\ y * e \in Nat
    BY <2>1, <2>2, <2>3, <2>5, ProductNat
  <2>7. a \in Nat
    BY <2>6
  <2>8. PICK c \in 0 .. e - 1 : (a + c) % e = x % g
    BY <2>5, <2>7, Residues
  <2> DEFINE i == y * e + c
             t == s * w + i
  <2>9. i \in 0 .. n * e - 1 /\ i \div e = y
    BY <1>0, <2>5, Column
  <2>10. t = a + c
    BY <2>5, <2>6
  <2> HIDE DEF i, a
  <2>11. w = g * n /\ t = s * w + i
    OBVIOUS
  <2> HIDE DEF t, w
  <2>12. t \in 0 .. m * n - 1 /\ t \div w = s /\ t % w = i
    <3>1. m \in Nat /\ n \in Positive
      BY <1>0
    <3>2. g \in Positive /\ s \in Nat
      BY <2>2
    <3>3. e \in 1 .. g /\ s * g + e <= m
      BY <2>4
    <3>4. i \in 0 .. n * e - 1
      BY <2>9
    <3>5. w = g * n /\ t = s * w + i
      BY <2>11
    <3> QED
      BY <3>1, <3>2, <3>3, <3>4, <3>5, PlaceInStrip
  <2>13. FastCoords(t, m, n, g) = <<s * g + (t % e), i \div e>>
    BY <2>12 DEF FastCoords, StripHeight, h, w, e
  <2> QED
    BY <2>2, <2>8, <2>9, <2>10, <2>12, <2>13
<1> QED
  BY <1>2, <1>3

\* The rows of tiles that are numbered.
Numbered(l) == IF l.full THEN CDiv(l.m, l.group) * l.group ELSE l.m

LEMMA NumberedIs ==
  ASSUME NEW l, Ordered(l)
  PROVE  /\ Numbered(l) \in Positive /\ l.m <= Numbered(l) /\ TotalTiles(l) = Numbered(l) * l.n
         /\ Striped(l) => l.group \in Positive
         /\ Striped(l) /\ l.order \notin {"grouped", "fast"} => Numbered(l) % l.group = 0
<1>1. l.m \in Positive /\ l.m \in Nat /\ l.m > 0
  BY DEF Ordered, Positive
<1>2. ASSUME Striped(l) PROVE l.group \in Positive
  BY <1>2 DEF Ordered, Positive
<1>3. CASE l.full
  <2> DEFINE q == CDiv(l.m, l.group)
  <2>1. l.order = "swizzled" /\ Striped(l)
    BY <1>3 DEF Ordered, Striped
  <2>2. l.group \in Positive /\ l.group \in Nat /\ l.group > 0
    BY <1>2, <2>1 DEF Positive
  <2>3. q \in Nat /\ l.m <= q * l.group
    BY <1>1, <2>2, Tiles DEF CDiv, CeilDiv
  <2> HIDE DEF q
  <2>4. q * l.group \in Nat
    BY <2>2, <2>3, ProductNat
  <2>5. (q * l.group) % l.group = 0
    <3>1. q * l.group = q * l.group + 0 /\ 0 \in 0 .. l.group - 1
      BY <2>2, <2>4
    <3> QED
      BY <2>2, <2>3, <2>4, <3>1, QuotientIs
  <2>6. Numbered(l) = q * l.group
    BY <1>3 DEF Numbered, q
  <2>7. TotalTiles(l) = Numbered(l) * l.n
    BY <1>3 DEF TotalTiles, Numbered
  <2> QED
    BY <1>1, <1>2, <2>3, <2>4, <2>5, <2>6, <2>7 DEF Positive
<1>4. CASE ~ l.full
  BY <1>1, <1>2, <1>4 DEF Ordered, Numbered, TotalTiles
<1> QED
  BY <1>3, <1>4

\* Every tile has one number.
LEMMA OrderIs ==
  ASSUME NEW l, Ordered(l)
  PROVE  /\ TotalTiles(l) \in Nat
         /\ \A t, u \in 0 .. TotalTiles(l) - 1 : Order(l, t) = Order(l, u) => t = u
         /\ \A x \in 0 .. l.m - 1, y \in 0 .. l.n - 1 : \E t \in 0 .. TotalTiles(l) - 1 : Order(l, t) = <<x, y>>
<1> DEFINE m == Numbered(l)
           n == l.n
           g == l.group
           G(t) == GroupedCoords(t, m, n, g)
<1>1. m \in Positive /\ l.m <= m /\ TotalTiles(l) = m * n /\ (Striped(l) => g \in Positive)
  BY NumberedIs
<1>2. n \in Positive /\ l.m \in Nat /\ n \in Nat /\ m \in Nat
  BY <1>1 DEF Ordered, Positive
<1>3. \A x \in 0 .. l.m - 1 : x \in 0 .. m - 1
  BY <1>1, <1>2
<1>4. TotalTiles(l) \in Nat
  BY <1>1, <1>2, ProductNat
<1>5. CASE ~ Striped(l)
  <2>1. \A t : Order(l, t) = <<t \div n, t % n>>
    BY <1>5 DEF Order, Coords, Striped, Ordered, RasterCoords, UniversalCoords, VaryingCoords
  <2>2. ASSUME NEW t \in 0 .. m * n - 1, NEW u \in 0 .. m * n - 1, Order(l, t) = Order(l, u) PROVE t = u
    <3>1. t \in Nat /\ u \in Nat
      BY <1>1, <1>4
    <3>2. t \div n = u \div n /\ t % n = u % n
      BY <2>1, <2>2
    <3>3. t = (t \div n) * n + (t % n) /\ u = (u \div n) * n + (u % n)
      BY <1>2, <3>1, QuotientOf
    <3> QED
      BY <3>2, <3>3
  <2>3. \A x \in 0 .. m - 1, y \in 0 .. n - 1 : \E t \in 0 .. m * n - 1 : t \div n = x /\ t % n = y
    BY <1>2, RasterOrder
  <2> HIDE DEF m, n
  <2> QED
    BY <1>1, <1>3, <1>4, <2>1, <2>2, <2>3 DEF n
<1>6. CASE l.order = "fast"
  <2>1. \A t : Order(l, t) = FastCoords(t, m, n, g)
    <3>1. ~ l.full
      BY <1>6 DEF Ordered
    <3> QED
      BY <1>6, <3>1 DEF Order, Coords, Numbered
  <2>2. g \in Positive
    BY <1>1, <1>6 DEF Striped
  <2>3. /\ \A t, u \in 0 .. m * n - 1 : FastCoords(t, m, n, g) = FastCoords(u, m, n, g) => t = u
        /\ \A x \in 0 .. m - 1, y \in 0 .. n - 1 : \E t \in 0 .. m * n - 1 : FastCoords(t, m, n, g) = <<x, y>>
    BY <1>1, <1>2, <2>2, FastOrder
  <2> HIDE DEF m, n, g
  <2> QED
    BY <1>1, <1>3, <1>4, <2>1, <2>3 DEF n
<1>7. CASE Striped(l) /\ l.order # "fast"
  <2>1. \A t \in 0 .. m * n - 1 : Order(l, t) = GroupedCoords(t, m, n, g)
    <3> SUFFICES ASSUME NEW t \in 0 .. m * n - 1 PROVE Order(l, t) = GroupedCoords(t, m, n, g)
      OBVIOUS
    <3>1. CASE l.order = "grouped"
      <4>1. ~ l.full
        BY <3>1 DEF Ordered
      <4> QED
        BY <3>1, <4>1 DEF Order, Coords, Numbered
    <3>2. CASE l.order # "grouped"
      <4>1. m % g = 0
        BY <1>7, <3>2, NumberedIs
      <4>2. Order(l, t) = SwizzledCoords(t, l.m, n, g)
        BY <1>7, <3>2 DEF Order, Coords, Striped, UniversalCoords, VaryingCoords
      <4>3. SwizzledCoords(t, l.m, n, g) = SwizzledCoords(t, m, n, g)
        BY DEF SwizzledCoords
      <4> HIDE DEF m, n, g
      <4> QED
        BY <1>1, <1>2, <1>7, <4>1, <4>2, <4>3, SwizzledOrder
    <3> QED
      BY <3>1, <3>2
  <2>2. /\ \A t, u \in 0 .. m * n - 1 : GroupedCoords(t, m, n, g) = GroupedCoords(u, m, n, g) => t = u
        /\ \A x \in 0 .. m - 1, y \in 0 .. n - 1 : \E t \in 0 .. m * n - 1 : GroupedCoords(t, m, n, g) = <<x, y>>
    <3> HIDE DEF m, n, g
    <3> QED
      BY <1>1, <1>2, <1>7, GroupedOrder
  <2> HIDE DEF m, n, g
  <2> QED
    BY <1>1, <1>3, <1>4, <2>1, <2>2 DEF n
<1> QED
  BY <1>5, <1>6, <1>7

\* The tiles a block meets are the numbers it is congruent to.
LEMMA BlockOfTile ==
  ASSUME NEW l, Ordered(l), Blocks \in Positive, NEW b \in 0 .. Blocks - 1
  PROVE  /\ TilesOf(l, b) \in Nat
         /\ \A r \in Nat : r < TilesOf(l, b) <=> b + r * Blocks < TotalTiles(l)
<1> DEFINE T == TotalTiles(l)
<1>1. T \in Nat /\ b \in Nat /\ Blocks \in Nat /\ Blocks > 0
  BY OrderIs DEF Positive
<1> HIDE DEF T
<1>2. CASE b >= T
  <2>1. TilesOf(l, b) = 0
    BY <1>2 DEF TilesOf, T
  <2>2. \A r \in Nat : r * Blocks \in Nat
    BY <1>1, ProductNat
  <2> QED
    BY <1>1, <1>2, <2>1, <2>2 DEF T
<1>3. CASE b < T
  <2>1. T - b \in Nat /\ ~ (b >= T)
    BY <1>1, <1>3
  <2>2. TilesOf(l, b) = CeilDiv(T - b, Blocks)
    BY <2>1 DEF TilesOf, CDiv, CeilDiv, T
  <2>3. CeilDiv(T - b, Blocks) \in Nat /\ \A r \in Nat : r < CeilDiv(T - b, Blocks) <=> r * Blocks < T - b
    BY <2>1, Tiles
  <2>4. \A r \in Nat : r * Blocks \in Nat
    BY <1>1, ProductNat
  <2> QED
    BY <1>1, <2>1, <2>2, <2>3, <2>4 DEF T
<1> QED
  BY <1>1, <1>2, <1>3

-----------------------------------------------------------------------------
(* The block of an address *)

\* Kernels whose blocks store whole rows, those that also store the statistics of
\* rows, and those that store rows of a served batch.
RowKernels == {"fmha", "v1", "v2", "v3", "cutile", "compared", "gpt", "eager_step", "graph_step", "dq"}
SeqKernels == {"direct_prefill", "paged_prefill", "padded_prefill", "paged_decode"}
Statistics == {"LSE", "Delta"}
Serves(c) == c \in Calls /\ c.kind = "attend"
Rowed(l) == l.tm \in Positive /\ l.heads \in Positive /\ l.qlen \in Nat /\ l.batch \in Nat

\* What keeps a launch's blocks apart.
Formed(l) ==
  CASE l.kernel \in RowKernels -> Rowed(l)
    [] l.kernel \in {"fmha_lse", "preprocess"} -> \E c : Training(c) /\ Laid(l, c) /\ l.seq % l.tm = 0
    [] l.kernel = "dkdv" -> \E c : Training(c) /\ Laid(l, c)
    [] l.kernel \in {"direct_prefill", "paged_prefill"} ->
         Rowed(l) /\ Serves(l.call) /\ l.batch = 1 /\ l.seq \in DOMAIN l.call.seqs
    [] l.kernel \in {"padded_prefill", "paged_decode"} -> Rowed(l) /\ Serves(l.call) /\ l.batch = Len(l.call.seqs)
    [] l.kernel = "store_kvcache" -> Serves(l.call)
    [] l.kernel = "scatter" -> l.blocks = 1
    [] l.kernel = "matmul" -> Ordered(l)
    [] l.kernel = "tiled" -> {l.m, l.n} \subseteq Nat /\ l.k \in Positive
    [] l.kernel = "softmax" -> l.rows \in Positive
    [] l.kernel = "add" -> l.n \in Positive /\ l.blocks \in Nat
    [] l.kernel = "vector" -> l.tile \in Positive /\ l.blocks \in Nat
    [] OTHER -> FALSE

\* The sequence a row of the batch belongs to, the program that stores to a slot,
\* the number of a tile.
SeqNamed(c, name) == CHOOSE i \in DOMAIN c.seqs : c.seqs[i].name = name
Storing(c, slot) == CHOOSE b \in NewTokens(c) : SlotOf(c.seqs[b[1]], b[2]) = slot
NumberOf(l, x, y) == CHOOSE t \in 0 .. TotalTiles(l) - 1 : Order(l, t) = <<x, y>>

\* The block that stores to an address.
Writer(l, a) ==
  CASE a[1] \in Statistics -> <<(a[2] % l.seq) \div l.tm, a[2] \div l.seq>>
    [] a[1] \in {"O", "dQ"} -> <<a[4] \div l.tm, a[2] * l.heads + a[3]>>
    [] a[1] = "dKV" -> <<a[4] \div l.tn, a[2] * (l.heads \div l.group) + a[3]>>
    [] a[1] = "out" ->
         LET i == SeqNamed(l.call, a[2]) IN
         <<(a[4] - l.call.seqs[i].cached) \div l.tm,
           IF l.kernel \in {"direct_prefill", "paged_prefill"} THEN a[3] ELSE (i - 1) * l.heads + a[3]>>
    [] a[1] = "cache" -> Storing(l.call, a[2])
    [] a[1] = "static" -> 0
    [] a[1] = "C" -> IF l.kernel = "tiled" THEN <<a[2], a[3]>> ELSE NumberOf(l, a[2], a[3]) % Blocks
    [] a[1] = "S" -> a[2] % SoftmaxPrograms(l)
    [] a[1] = "sum" -> IF l.kernel = "add" THEN a[2] * l.n + a[3] ELSE a[2] \div l.tile

\* A block over rows, and its place among the heads.
LEMMA RowedBlock ==
  ASSUME NEW l, Rowed(l), NEW b \in Grid(l)
  PROVE  /\ b[1] \in Nat /\ b[2] \in Nat /\ b = <<b[1], b[2]>>
         /\ BatchOf(l, b) \in 0 .. l.batch - 1 /\ HeadOf(l, b) \in 0 .. l.heads - 1
         /\ BatchOf(l, b) * l.heads + HeadOf(l, b) = b[2]
<1>1. l.tm \in Positive /\ l.heads \in Positive /\ l.qlen \in Nat /\ l.batch \in Nat
  BY DEF Rowed
<1>2. CeilDiv(l.qlen, l.tm) \in Nat
  BY <1>1, Tiles
<1>3. b[1] \in 0 .. CeilDiv(l.qlen, l.tm) - 1 /\ b[2] \in 0 .. l.batch * l.heads - 1 /\ b = <<b[1], b[2]>>
  BY DEF Grid
<1>4. b[2] \div l.heads \in 0 .. l.batch - 1 /\ b[2] % l.heads \in 0 .. l.heads - 1
      /\ b[2] = (b[2] \div l.heads) * l.heads + (b[2] % l.heads)
  BY <1>1, <1>3, RankOfRow
<1>5. b[1] \in Nat /\ b[2] \in Nat
  BY <1>1, <1>2, <1>3, ProductNat DEF Positive
<1> QED
  BY <1>3, <1>4, <1>5 DEF BatchOf, HeadOf

\* A row of a tile is in the tile.
LEMMA TileOfRow ==
  ASSUME NEW t \in Positive, NEW x \in Nat, NEW i \in 0 .. t - 1
  PROVE  x * t + i \in Nat /\ (x * t + i) \div t = x
<1>1. x * t \in Nat /\ i \in Nat
  BY ProductNat DEF Positive
<1>2. x * t + i \in Nat
  BY <1>1
<1> QED
  BY <1>2, QuotientIs

LEMMA RowWriter ==
  ASSUME NEW l, Rowed(l), NEW b \in Grid(l), NEW name \in {"O", "dQ"}, NEW i \in 0 .. l.tm - 1, NEW a,
         a = <<name, BatchOf(l, b), HeadOf(l, b), b[1] * l.tm + i>>
  PROVE  Writer(l, a) = b
<1>1. (b[1] * l.tm + i) \div l.tm = b[1]
  BY RowedBlock, TileOfRow DEF Rowed
<1>2. BatchOf(l, b) * l.heads + HeadOf(l, b) = b[2] /\ b = <<b[1], b[2]>>
  BY RowedBlock
<1>3. a[1] = name /\ a[2] = BatchOf(l, b) /\ a[3] = HeadOf(l, b) /\ a[4] = b[1] * l.tm + i
  OBVIOUS
<1>4. Writer(l, a) = <<a[4] \div l.tm, a[2] * l.heads + a[3]>>
  BY <1>3 DEF Writer, Statistics
<1> QED
  BY <1>1, <1>2, <1>3, <1>4

LEMMA LaidRowed ==
  ASSUME NEW c, Training(c), NEW l, Laid(l, c)
  PROVE  Rowed(l)
BY TrainFacts DEF Laid, Rowed, Positive

LEMMA StatWriter ==
  ASSUME NEW c, Training(c), NEW l, Laid(l, c), l.seq % l.tm = 0, NEW b \in Grid(l), NEW name \in Statistics,
         NEW i \in 0 .. l.tm - 1
  PROVE  Writer(l, <<name, Flat(l, b, i)>>) = b
<1> DEFINE r == b[1] * l.tm + i
           f == Flat(l, b, i)
<1>1. r \in 0 .. l.seq - 1 /\ f = b[2] * l.seq + r
  BY InArray, FlatIs
<1>2. b[1] \in Nat /\ b[2] \in Nat /\ b = <<b[1], b[2]>>
  BY LaidRowed, RowedBlock
<1>3. l.seq \in Positive /\ l.tm \in Positive /\ r \div l.tm = b[1]
  BY <1>2, TileOfRow DEF Laid
<1> HIDE DEF r, f
<1>4. f \in Nat
  BY <1>1, <1>2, <1>3, ProductNat DEF Positive
<1>5. f \div l.seq = b[2] /\ f % l.seq = r
  BY <1>1, <1>2, <1>3, <1>4, QuotientIs
<1>6. Writer(l, <<name, f>>) = <<(f % l.seq) \div l.tm, f \div l.seq>>
  BY DEF Writer, Statistics
<1> QED
  BY <1>2, <1>3, <1>5, <1>6 DEF f

\* Stores of whole rows.
LEMMA RowsApartByBlock ==
  ASSUME NEW l, Rowed(l), NEW b \in Grid(l), NEW st
  PROVE  /\ \A a \in DOMAIN FmhaStore(l, b, st) : Writer(l, a) = b
         /\ \A a \in DOMAIN DqStore(l, b, st) : Writer(l, a) = b
<1>1. ASSUME NEW a \in DOMAIN FmhaStore(l, b, st)
      PROVE  \E i \in 0 .. l.tm - 1 : a = <<"O", BatchOf(l, b), HeadOf(l, b), b[1] * l.tm + i>>
  BY <1>1 DEF FmhaStore, StoreRows
<1>2. ASSUME NEW a \in DOMAIN DqStore(l, b, st)
      PROVE  \E i \in 0 .. l.tm - 1 : a = <<"dQ", BatchOf(l, b), HeadOf(l, b), b[1] * l.tm + i>>
  BY <1>2 DEF DqStore, StoreRows
<1> QED
  BY <1>1, <1>2, RowWriter

LEMMA StatsApart ==
  ASSUME NEW c, Training(c), NEW l, Laid(l, c), l.seq % l.tm = 0, NEW b \in Grid(l), NEW st
  PROVE  /\ \A a \in DOMAIN FmhaLseStore(l, b, st) : Writer(l, a) = b
         /\ \A a \in DOMAIN PreprocessStore(l, b) : Writer(l, a) = b
<1>1. ASSUME NEW a \in DOMAIN FmhaLseStore(l, b, st)
      PROVE  \/ \E i \in 0 .. l.tm - 1 : a = <<"O", BatchOf(l, b), HeadOf(l, b), b[1] * l.tm + i>>
             \/ \E i \in 0 .. l.tm - 1 : a = <<"LSE", Flat(l, b, i)>>
  BY <1>1 DEF FmhaLseStore, StoreRows, ++
<1>2. ASSUME NEW a \in DOMAIN PreprocessStore(l, b)
      PROVE  \E i \in 0 .. l.tm - 1 : a = <<"Delta", Flat(l, b, i)>>
  BY <1>2 DEF PreprocessStore
<1>3. \A i \in 0 .. l.tm - 1 : Writer(l, <<"LSE", Flat(l, b, i)>>) = b /\ Writer(l, <<"Delta", Flat(l, b, i)>>) = b
  BY StatWriter DEF Statistics
<1>4. Rowed(l)
  BY LaidRowed
<1>5. \A i \in 0 .. l.tm - 1 : Writer(l, <<"O", BatchOf(l, b), HeadOf(l, b), b[1] * l.tm + i>>) = b
  BY <1>4, RowWriter
<1>6. ASSUME NEW a \in DOMAIN FmhaLseStore(l, b, st) PROVE Writer(l, a) = b
  <2>1. CASE \E i \in 0 .. l.tm - 1 : a = <<"O", BatchOf(l, b), HeadOf(l, b), b[1] * l.tm + i>>
    BY <1>5, <2>1
  <2>2. CASE \E i \in 0 .. l.tm - 1 : a = <<"LSE", Flat(l, b, i)>>
    BY <1>3, <2>2
  <2> QED
    BY <1>1, <2>1, <2>2
<1>7. ASSUME NEW a \in DOMAIN PreprocessStore(l, b) PROVE Writer(l, a) = b
  <2>1. PICK i \in 0 .. l.tm - 1 : a = <<"Delta", Flat(l, b, i)>>
    BY <1>2
  <2> QED
    BY <1>3, <2>1
<1> QED
  BY <1>6, <1>7

\* A block of keys stores its own tile of them.
LEMMA KeysApart ==
  ASSUME NEW c, Training(c), NEW l, Laid(l, c), NEW b \in DkDvGrid(l), NEW st, DOMAIN st = KeyTile(l, b)
  PROVE  \A a \in DOMAIN DkDvStore(l, b, st) : Writer(l, a) = b
<1> DEFINE h == l.heads \div l.group
<1>1. h \in Positive /\ l.tn \in Positive /\ l.klen \in Nat /\ l.batch \in Nat /\ h = c.kvHeads
  BY TrainFacts DEF Laid, Positive
<1>2. CeilDiv(l.klen, l.tn) \in Nat
  BY <1>1, Tiles
<1>3. b[1] \in 0 .. CeilDiv(l.klen, l.tn) - 1 /\ b[2] \in 0 .. l.batch * h - 1 /\ b = <<b[1], b[2]>>
  BY DEF DkDvGrid
<1> SUFFICES ASSUME NEW a \in DOMAIN DkDvStore(l, b, st) PROVE Writer(l, a) = b
  OBVIOUS
<1>4. PICK n \in KeyTile(l, b) : a = <<"dKV", b[2] \div h, b[2] % h, n>>
  BY DEF DkDvStore
<1>5. Writer(l, a) = <<n \div l.tn, (b[2] \div h) * h + (b[2] % h)>>
  BY <1>4 DEF Writer, Statistics
<1> HIDE DEF h
<1>6. b[2] = (b[2] \div h) * h + (b[2] % h)
  BY <1>1, <1>3, RankOfRow
<1>7. b[1] \in Nat /\ b[1] * l.tn \in Nat /\ (b[1] + 1) * l.tn = b[1] * l.tn + l.tn
  BY <1>1, <1>2, <1>3, ProductNat DEF Positive
<1>8. n - b[1] * l.tn \in 0 .. l.tn - 1 /\ n = b[1] * l.tn + (n - b[1] * l.tn)
  <2> DEFINE x == b[1] * l.tn
             y == (b[1] + 1) * l.tn
             t == l.tn
  <2>1. n \in x .. y - 1 /\ x \in Nat /\ y = x + t /\ t \in Nat
    BY <1>1, <1>7 DEF KeyTile, Positive
  <2> HIDE DEF x, y, t
  <2>2. n - x \in 0 .. t - 1 /\ n = x + (n - x)
    BY <2>1
  <2> QED
    BY <2>2 DEF x, t
<1>9. n \div l.tn = b[1]
  BY <1>1, <1>7, <1>8, TileOfRow
<1> QED
  BY <1>3, <1>5, <1>6, <1>9

\* What a served batch is.
LEMMA ServedFacts ==
  ASSUME NEW c, Serves(c)
  PROVE  /\ c.seqs \in Seq([name : {c.seqs[i].name : i \in DOMAIN c.seqs}, cached : Nat, new : Positive, table : Seq(Nat)])
         /\ Len(c.seqs) \in Nat /\ DOMAIN c.seqs = 1 .. Len(c.seqs) /\ c.pad \in Nat
         /\ \A i \in DOMAIN c.seqs : c.seqs[i].cached \in Nat /\ c.seqs[i].new \in Positive
         /\ \A i \in DOMAIN c.seqs : SeqNamed(c, c.seqs[i].name) = i
         /\ \A x \in NewTokens(c) : Storing(c, SlotOf(c.seqs[x[1]], x[2])) = x
<1>1. BatchFits(c)
  BY DeviceAssumption DEF Serves, WellFormed
<1> DEFINE N == {c.seqs[i].name : i \in DOMAIN c.seqs}
           R == [name : N, cached : Nat, new : Positive, table : Seq(Nat)]
<1>2. c.seqs \in Seq(R) /\ c.pad \in Nat
  BY <1>1 DEF BatchFits
<1>3. Len(c.seqs) \in Nat /\ DOMAIN c.seqs = 1 .. Len(c.seqs) /\ \A i \in DOMAIN c.seqs : c.seqs[i] \in R
  <2> HIDE DEF R
  <2> QED
    BY <1>2
<1>4. \A i \in DOMAIN c.seqs : c.seqs[i].cached \in Nat /\ c.seqs[i].new \in Positive
  <2> HIDE DEF N
  <2> QED
    BY <1>3
<1>5. \A i \in DOMAIN c.seqs : SeqNamed(c, c.seqs[i].name) = i
  <2>1. \A i, j \in DOMAIN c.seqs : c.seqs[i].name = c.seqs[j].name => i = j
    BY <1>1 DEF BatchFits
  <2> QED
    BY <2>1 DEF SeqNamed
<1>6. \A x \in NewTokens(c) : Storing(c, SlotOf(c.seqs[x[1]], x[2])) = x
  <2>1. \A x, y \in NewTokens(c) : SlotOf(c.seqs[x[1]], x[2]) = SlotOf(c.seqs[y[1]], y[2]) => x = y
    BY <1>1 DEF BatchFits
  <2> QED
    BY <2>1 DEF Storing
<1> QED
  BY <1>2, <1>3, <1>4, <1>5, <1>6

\* The sequence a block serves.
Served(l, b) == IF l.kernel \in {"direct_prefill", "paged_prefill"} THEN l.seq ELSE BatchOf(l, b) + 1

LEMMA SeqApart ==
  ASSUME NEW l, l.kernel \in SeqKernels, Formed(l), NEW b \in Grid(l), NEW st
  PROVE  \A a \in DOMAIN SeqStore(l, b, st, l.call.seqs[Served(l, b)]) : Writer(l, a) = b
<1> DEFINE c == l.call
           k == Served(l, b)
           r == c.seqs[k]
           single == l.kernel \in {"direct_prefill", "paged_prefill"}
<1>1. Rowed(l) /\ Serves(c) /\ (single => l.batch = 1 /\ l.seq \in DOMAIN c.seqs) /\ (~ single => l.batch = Len(c.seqs))
  BY DEF Formed, SeqKernels, RowKernels
<1>2. b[1] \in Nat /\ b[2] \in Nat /\ b = <<b[1], b[2]>> /\ BatchOf(l, b) \in 0 .. l.batch - 1
      /\ BatchOf(l, b) * l.heads + HeadOf(l, b) = b[2]
  BY <1>1, RowedBlock
<1>3. l.heads \in Nat /\ l.tm \in Positive /\ HeadOf(l, b) \in Nat
  <2>1. HeadOf(l, b) \in 0 .. l.heads - 1
    BY <1>1, RowedBlock
  <2> QED
    BY <1>1, <2>1 DEF Rowed, Positive
<1>4. k \in DOMAIN c.seqs /\ (~ single => k - 1 = BatchOf(l, b)) /\ (single => BatchOf(l, b) = 0)
  <2>1. Len(c.seqs) \in Nat /\ DOMAIN c.seqs = 1 .. Len(c.seqs)
    BY <1>1, ServedFacts
  <2> QED
    BY <1>1, <1>2, <2>1 DEF Served
<1>5. r.cached \in Nat /\ SeqNamed(c, r.name) = k
  BY <1>1, <1>4, ServedFacts
<1> HIDE DEF k, single
<1> SUFFICES ASSUME NEW a \in DOMAIN SeqStore(l, b, st, r) PROVE Writer(l, a) = b
  BY DEF k
<1> HIDE DEF r
<1>6. PICK i \in 0 .. l.tm - 1 : a = <<"out", r.name, HeadOf(l, b), r.cached + b[1] * l.tm + i>>
  BY DEF SeqStore
<1>7. Writer(l, a) = <<((r.cached + b[1] * l.tm + i) - r.cached) \div l.tm,
                       IF single THEN HeadOf(l, b) ELSE (k - 1) * l.heads + HeadOf(l, b)>>
  BY <1>5, <1>6 DEF Writer, Statistics, r, single
<1>8. (r.cached + b[1] * l.tm + i) - r.cached = b[1] * l.tm + i
  <2>1. b[1] * l.tm \in Nat /\ i \in Nat
    BY <1>2, <1>3, ProductNat DEF Positive
  <2> QED
    BY <1>5, <2>1
<1>9. (b[1] * l.tm + i) \div l.tm = b[1]
  BY <1>2, <1>3, TileOfRow
<1>10. (IF single THEN HeadOf(l, b) ELSE (k - 1) * l.heads + HeadOf(l, b)) = b[2]
  <2>1. CASE single
    <3>1. 0 * l.heads = 0
      BY <1>3
    <3> QED
      BY <1>2, <1>3, <1>4, <2>1, <3>1
  <2>2. CASE ~ single
    BY <1>2, <1>4, <2>2
  <2> QED
    BY <2>1, <2>2
<1> QED
  BY <1>2, <1>7, <1>8, <1>9, <1>10

LEMMA TokensApart ==
  ASSUME NEW l, Serves(l.call), NEW b \in StoreGrid(l)
  PROVE  \A a \in DOMAIN StoreToken(l, b) : Writer(l, a) = b
<1> SUFFICES ASSUME NEW a \in DOMAIN StoreToken(l, b) PROVE Writer(l, a) = b
  OBVIOUS
<1>1. a = <<"cache", StoreSlot(l, b)>> /\ StoreSlot(l, b) # -1
  BY DEF StoreToken
<1>2. b[1] # 0
  BY <1>1 DEF StoreSlot
<1>3. b \in NewTokens(l.call)
  BY <1>2 DEF StoreGrid
<1>4. Writer(l, a) = Storing(l.call, SlotOf(l.call.seqs[b[1]], b[2]))
  BY <1>1, <1>2 DEF Writer, Statistics, StoreSlot
<1> QED
  BY <1>3, <1>4, ServedFacts

LEMMA DeviceSizes == {ModelTile, StaticTile, StaticLen, CacheTile, QHeads, Blocks} \subseteq Positive
BY DeviceAssumption

LEMMA OrderPair ==
  ASSUME NEW l, Ordered(l), NEW t
  PROVE  Order(l, t) = <<Order(l, t)[1], Order(l, t)[2]>>
<1>1. CASE l.order \in {"universal", "varying", "swizzled", "raster"}
  BY <1>1 DEF Order, Coords, UniversalCoords, VaryingCoords, SwizzledCoords, RasterCoords
<1>2. CASE l.order \in {"grouped", "fast"}
  BY <1>2 DEF Order, Coords, GroupedCoords, FastCoords
<1> QED
  BY <1>1, <1>2 DEF Ordered

\* The tile a persistent block is at in a round.
LEMMA RoundTile ==
  ASSUME NEW l, Ordered(l), NEW b \in 0 .. Blocks - 1, NEW j \in Nat, j < MatmulRounds(l, b)
  PROVE  /\ j \div l.k \in Nat /\ j \div l.k < TilesOf(l, b)
         /\ b + (j \div l.k) * Blocks \in 0 .. TotalTiles(l) - 1
         /\ (b + (j \div l.k) * Blocks) % Blocks = b
         /\ TileAt(l, b, j) = Order(l, b + (j \div l.k) * Blocks)
<1> DEFINE r == j \div l.k
           t == b + r * Blocks
<1>1. l.k \in Positive /\ l.k \in Nat /\ Blocks \in Positive /\ Blocks \in Nat /\ b \in Nat
  BY DeviceSizes DEF Ordered, Positive
<1>2. TilesOf(l, b) \in Nat /\ \A i \in Nat : i < TilesOf(l, b) <=> b + i * Blocks < TotalTiles(l)
  BY <1>1, BlockOfTile
<1>3. TotalTiles(l) \in Nat
  BY OrderIs
<1>4. r \in Nat /\ j = r * l.k + (j % l.k) /\ j % l.k \in Nat
  <2>1. j \div l.k \in Nat /\ j % l.k \in 0 .. l.k - 1 /\ j = (j \div l.k) * l.k + (j % l.k)
    BY <1>1, QuotientOf
  <2>2. j % l.k \in Nat
    BY <1>1, <2>1
  <2> QED
    BY <2>1, <2>2
<1>5. TileAt(l, b, j) = Order(l, t)
  BY DEF TileAt, Order
<1> HIDE DEF r
<1>6. r * l.k \in Nat /\ TilesOf(l, b) * l.k \in Nat /\ r * Blocks \in Nat
  BY <1>1, <1>2, <1>4, ProductNat
<1>7. r * l.k < TilesOf(l, b) * l.k
  BY <1>4, <1>6 DEF MatmulRounds
<1>8. r < TilesOf(l, b)
  BY <1>1, <1>2, <1>4, <1>7, ProductLess
<1>9. t \in Nat /\ t < TotalTiles(l) /\ t = r * Blocks + b
  BY <1>1, <1>2, <1>4, <1>6, <1>8
<1>10. t % Blocks = b
  BY <1>1, <1>4, <1>9, QuotientIs
<1> QED
  BY <1>3, <1>4, <1>5, <1>8, <1>9, <1>10 DEF r

LEMMA TilesApart ==
  ASSUME NEW l, l.kernel = "matmul", Ordered(l), NEW b \in 0 .. Blocks - 1, NEW j \in Nat, j < MatmulRounds(l, b), NEW st
  PROVE  \A a \in DOMAIN MatmulStore(l, b, st, j) : Writer(l, a) = b
<1> DEFINE t == b + (j \div l.k) * Blocks
<1>1. t \in 0 .. TotalTiles(l) - 1 /\ t % Blocks = b /\ TileAt(l, b, j) = Order(l, t)
  BY RoundTile
<1> HIDE DEF t
<1>2. \A u \in 0 .. TotalTiles(l) - 1 : Order(l, u) = Order(l, t) => u = t
  BY <1>1, OrderIs
<1>3. Order(l, t) = <<Order(l, t)[1], Order(l, t)[2]>>
  BY OrderPair
<1>4. NumberOf(l, Order(l, t)[1], Order(l, t)[2]) = t
  BY <1>1, <1>2, <1>3 DEF NumberOf
<1> SUFFICES ASSUME NEW a \in DOMAIN MatmulStore(l, b, st, j) PROVE Writer(l, a) = b
  OBVIOUS
<1>5. a = <<"C", Order(l, t)[1], Order(l, t)[2]>>
  BY <1>1 DEF MatmulStore
<1>6. Writer(l, a) = NumberOf(l, Order(l, t)[1], Order(l, t)[2]) % Blocks
  BY <1>5 DEF Writer, Statistics
<1> QED
  BY <1>1, <1>4, <1>6

LEMMA TiledApart ==
  ASSUME NEW l, l.kernel = "tiled", NEW b \in TiledGrid(l), NEW j, NEW st
  PROVE  \A a \in DOMAIN TiledStore(l, b, st, j) : Writer(l, a) = b
<1> SUFFICES ASSUME NEW a \in DOMAIN TiledStore(l, b, st, j) PROVE Writer(l, a) = b
  OBVIOUS
<1>1. a = <<"C", b[1], b[2]>> /\ b = <<b[1], b[2]>>
  BY DEF TiledStore, TiledGrid
<1> QED
  BY <1>1 DEF Writer, Statistics

\* The programs of a softmax, and the rows each takes.
LEMMA SoftmaxFacts ==
  ASSUME NEW l, l.rows \in Positive
  PROVE  /\ SoftmaxPrograms(l) \in Positive /\ SoftmaxPrograms(l) <= l.rows
         /\ \A b \in 0 .. SoftmaxPrograms(l) - 1 :
              /\ SoftmaxRounds(l, b) \in Nat
              /\ \A j \in Nat : j < SoftmaxRounds(l, b) <=> b + j * SoftmaxPrograms(l) < l.rows
<1>1. Blocks \in Positive /\ Blocks \in Int /\ l.rows \in Nat /\ l.rows > 0 /\ Blocks > 0
  BY DeviceSizes DEF Positive
<1> DEFINE p == SoftmaxPrograms(l)
<1>2. p = IF Blocks <= l.rows THEN Blocks ELSE l.rows
  BY <1>1, MinIs DEF SoftmaxPrograms
<1>3. p \in Positive /\ p <= l.rows /\ p \in Nat
  BY <1>1, <1>2 DEF Positive
<1>4. ASSUME NEW b \in 0 .. p - 1
      PROVE  /\ SoftmaxRounds(l, b) \in Nat
             /\ \A j \in Nat : j < SoftmaxRounds(l, b) <=> b + j * p < l.rows
  <2>1. l.rows - b \in Nat /\ b \in Nat
    BY <1>1, <1>3
  <2>2. SoftmaxRounds(l, b) = CeilDiv(l.rows - b, p)
    BY DEF SoftmaxRounds, CDiv, CeilDiv
  <2> HIDE DEF p
  <2>3. CeilDiv(l.rows - b, p) \in Nat /\ \A j \in Nat : j < CeilDiv(l.rows - b, p) <=> j * p < l.rows - b
    BY <1>3, <2>1, Tiles
  <2>4. \A j \in Nat : j * p \in Nat
    BY <1>3, ProductNat
  <2> QED
    BY <1>1, <2>1, <2>2, <2>3, <2>4
<1> QED
  BY <1>3, <1>4

LEMMA SoftmaxApart ==
  ASSUME NEW l, l.rows \in Positive, NEW b \in 0 .. SoftmaxPrograms(l) - 1, NEW j \in Nat
  PROVE  \A a \in DOMAIN SoftmaxStore(l, b, j) : Writer(l, a) = b
<1> DEFINE p == SoftmaxPrograms(l)
<1>1. p \in Positive
  BY SoftmaxFacts
<1>2. \A a \in DOMAIN SoftmaxStore(l, b, j) : a = <<"S", b + j * p>>
  BY DEF SoftmaxStore
<1>3. Writer(l, <<"S", b + j * p>>) = (b + j * p) % p
  BY DEF Writer, Statistics
<1> HIDE DEF p
<1>4. b \in 0 .. p - 1 /\ j * p \in Nat /\ b + j * p \in Nat /\ b + j * p = j * p + b
  BY <1>1, ProductNat DEF p, Positive
<1>5. (b + j * p) % p = b
  BY <1>1, <1>4, QuotientIs
<1> QED
  BY <1>2, <1>3, <1>5

LEMMA SumsApart ==
  ASSUME NEW l, Formed(l), l.kernel \in {"add", "vector"}, NEW b \in 0 .. l.blocks - 1
  PROVE  /\ l.kernel = "add" => \A a \in DOMAIN MatAddStore(l, b) : Writer(l, a) = b
         /\ l.kernel = "vector" => \A a \in DOMAIN VectorAddStore(l, b) : Writer(l, a) = b
<1>1. ASSUME l.kernel = "add", NEW a \in DOMAIN MatAddStore(l, b) PROVE Writer(l, a) = b
  <2>1. l.n \in Positive /\ b \in Nat
    BY <1>1 DEF Formed, RowKernels
  <2>2. a = <<"sum", b \div l.n, b % l.n>>
    BY <1>1 DEF MatAddStore
  <2>3. Writer(l, a) = (b \div l.n) * l.n + (b % l.n)
    BY <1>1, <2>2 DEF Writer, Statistics
  <2> QED
    BY <2>1, <2>3, QuotientOf
<1>2. ASSUME l.kernel = "vector", NEW a \in DOMAIN VectorAddStore(l, b) PROVE Writer(l, a) = b
  <2>1. l.tile \in Positive /\ b \in Nat
    BY <1>2 DEF Formed, RowKernels
  <2>2. PICK n \in b * l.tile .. (b + 1) * l.tile - 1 : a = <<"sum", n>>
    BY <1>2 DEF VectorAddStore
  <2>3. Writer(l, a) = n \div l.tile
    BY <1>2, <2>2 DEF Writer, Statistics
  <2> DEFINE t == l.tile
             x == b * t
             y == (b + 1) * t
  <2>4. t \in Nat /\ x \in Nat /\ y = x + t
    BY <2>1, ProductNat DEF Positive
  <2>5. n \in x .. y - 1
    OBVIOUS
  <2>6. n - x \in 0 .. t - 1 /\ n = x + (n - x)
    <3> HIDE DEF x, y, t
    <3> QED
      BY <2>4, <2>5
  <2>7. n \div t = b
    BY <2>1, <2>6, TileOfRow
  <2> QED
    BY <2>3, <2>7
<1> QED
  BY <1>1, <1>2

\* The blocks of a launch store apart, in their rounds and at their end.
LEMMA RoundsApart ==
  ASSUME NEW l, Formed(l), NEW b \in GridOf(l), NEW j \in Nat, j < Rounds(l, b), NEW st
  PROVE  \A a \in DOMAIN RoundStores(l, b, st, j) : Writer(l, a) = b
<1>1. CASE l.kernel = "matmul"
  <2>1. RoundStores(l, b, st, j) = MatmulStore(l, b, st, j)
    BY <1>1 DEF RoundStores
  <2>2. Ordered(l) /\ b \in 0 .. Blocks - 1 /\ j < MatmulRounds(l, b)
    BY <1>1 DEF Formed, RowKernels, GridOf, Rounds, Flash
  <2> QED
    BY <1>1, <2>1, <2>2, TilesApart
<1>2. CASE l.kernel = "tiled"
  <2>1. RoundStores(l, b, st, j) = TiledStore(l, b, st, j) /\ b \in TiledGrid(l)
    BY <1>2 DEF RoundStores, GridOf, Flash
  <2> QED
    BY <1>2, <2>1, TiledApart
<1>3. CASE l.kernel = "softmax"
  <2>1. RoundStores(l, b, st, j) = SoftmaxStore(l, b, j) /\ b \in 0 .. SoftmaxPrograms(l) - 1 /\ l.rows \in Positive
    BY <1>3 DEF RoundStores, GridOf, Flash, Formed, RowKernels
  <2> QED
    BY <2>1, SoftmaxApart
<1>4. CASE l.kernel \notin {"matmul", "tiled", "softmax"}
  <2>1. RoundStores(l, b, st, j) = <<>>
    BY <1>4 DEF RoundStores
  <2> QED
    BY <2>1
<1> QED
  BY <1>1, <1>2, <1>3, <1>4

LEMMA EndsApart ==
  ASSUME NEW l, Formed(l), NEW b \in GridOf(l), NEW st, l.kernel = "dkdv" => DOMAIN st = KeyTile(l, b)
  PROVE  \A a \in DOMAIN LastStores(l, b, st) : Writer(l, a) = b
<1>1. CASE l.kernel \in RowKernels
  <2>1. Rowed(l) /\ b \in Grid(l)
    BY <1>1 DEF Formed, RowKernels, GridOf, Flash
  <2>2. \/ LastStores(l, b, st) = DqStore(l, b, st)
        \/ LastStores(l, b, st) = FmhaStore(l, b, st) \/ LastStores(l, b, st) = FmhaStore(l, b, st.rows)
    BY <1>1 DEF LastStores, RowKernels
  <2> QED
    BY <2>1, <2>2, RowsApartByBlock
<1>2. CASE l.kernel \in {"fmha_lse", "preprocess"}
  <2>1. PICK c : Training(c) /\ Laid(l, c) /\ l.seq % l.tm = 0
    BY <1>2 DEF Formed, RowKernels
  <2>2. b \in Grid(l)
    BY <1>2 DEF GridOf, Flash
  <2>3. LastStores(l, b, st) = FmhaLseStore(l, b, st) \/ LastStores(l, b, st) = PreprocessStore(l, b)
    BY <1>2 DEF LastStores
  <2> QED
    BY <2>1, <2>2, <2>3, StatsApart
<1>3. CASE l.kernel = "dkdv"
  <2>1. PICK c : Training(c) /\ Laid(l, c)
    BY <1>3 DEF Formed, RowKernels
  <2>2. b \in DkDvGrid(l) /\ LastStores(l, b, st) = DkDvStore(l, b, st)
    BY <1>3 DEF GridOf, Flash, LastStores
  <2> QED
    BY <1>3, <2>1, <2>2, KeysApart
<1>4. CASE l.kernel \in SeqKernels
  <2>1. b \in Grid(l)
    BY <1>4 DEF GridOf, Flash, SeqKernels
  <2>2. LastStores(l, b, st) = SeqStore(l, b, st, l.call.seqs[Served(l, b)])
    BY <1>4 DEF LastStores, Served, SeqKernels
  <2> QED
    BY <1>4, <2>1, <2>2, SeqApart
<1>5. CASE l.kernel = "store_kvcache"
  <2>1. Serves(l.call) /\ b \in StoreGrid(l) /\ LastStores(l, b, st) = StoreToken(l, b)
    BY <1>5 DEF Formed, RowKernels, GridOf, Flash, LastStores
  <2> QED
    BY <2>1, TokensApart
<1>6. CASE l.kernel = "scatter"
  <2>1. b = 0
    <3>1. b \in 0 .. l.blocks - 1 /\ l.blocks = 1
      BY <1>6 DEF Formed, RowKernels, GridOf, Flash
    <3> QED
      BY <3>1
  <2>2. LastStores(l, b, st) = ScatterStore(mem)
    BY <1>6 DEF LastStores
  <2>3. \A a \in DOMAIN ScatterStore(mem) : a[1] = "static"
    BY DEF ScatterStore, Entry
  <2> QED
    BY <2>1, <2>2, <2>3 DEF Writer, Statistics
<1>7. CASE l.kernel \in {"add", "vector"}
  <2>1. b \in 0 .. l.blocks - 1
    BY <1>7 DEF GridOf, Flash
  <2>2. LastStores(l, b, st) = IF l.kernel = "add" THEN MatAddStore(l, b) ELSE VectorAddStore(l, b)
    BY <1>7 DEF LastStores
  <2> QED
    BY <1>7, <2>1, <2>2, SumsApart
<1>8. CASE l.kernel \in {"matmul", "tiled", "softmax"}
  <2>1. LastStores(l, b, st) = <<>>
    BY <1>8 DEF LastStores
  <2> QED
    BY <2>1
<1> QED
  BY <1>1, <1>2, <1>3, <1>4, <1>5, <1>6, <1>7, <1>8 DEF Formed, SeqKernels

-----------------------------------------------------------------------------
(* Launches are formed *)

LEMMA RowsFormed ==
  ASSUME NEW l, Rowed(l), l.kernel \in RowKernels
  PROVE  Formed(l)
BY DEF Formed, RowKernels

LEMMA AttendingFormed ==
  ASSUME NEW c \in Calls, c.kind \in Attending, c.kind # "train", NEW l \in LaunchesOf(c)
  PROVE  Formed(l)
<1>1. For(l, c)
  BY LaunchesFor
<1>2. Rowed(l)
  BY <1>1 DEF For, Regular, Rowed, Positive
<1>3. l.kernel \in RowKernels
  BY <1>1 DEF For, Attending, RowKernels, StudyKernels
<1> QED
  BY <1>2, <1>3, RowsFormed

LEMMA TrainingFormed ==
  ASSUME NEW c, Training(c)
  PROVE  /\ Formed(ForwardLaunch(c))
         /\ \A l \in BackLaunches(c) : Formed(l)
<1>1. Formed(ForwardLaunch(c))
  BY ForwardLaid DEF Formed, RowKernels
<1>2. Formed(PreprocessLaunch(c))
  BY BackLaid DEF Formed, RowKernels, BackFor
<1>3. ASSUME NEW cfg \in ConfigsOf(DkDvConfigs) PROVE Formed(DkDvLaunch(c, cfg))
  BY BackLaid DEF Formed, RowKernels, BackFor
<1>4. ASSUME NEW cfg \in ConfigsOf(DqConfigs) PROVE Formed(DqLaunch(c, cfg))
  <2>1. Laid(DqLaunch(c, cfg), c) /\ DqLaunch(c, cfg).kernel = "dq"
    BY BackLaid DEF BackFor
  <2> QED
    BY <2>1, LaidRowed, RowsFormed DEF RowKernels
<1> QED
  BY <1>1, <1>2, <1>3, <1>4 DEF BackLaunches

LEMMA GeneratingFormed ==
  ASSUME NEW c \in Calls, c.kind = "generate"
  PROVE  /\ Formed(GptLaunch(c)) /\ Formed(ScatterLaunch) /\ Formed(ReplayLaunch(c))
         /\ \A past : Formed(EagerLaunch(c, past))
<1>1. {c.batch, c.heads, c.kvHeads, c.qlen, c.klen} \subseteq Positive /\ {ModelTile, StaticTile} \subseteq Positive
  BY GenFacts, DeviceSizes
<1>2. Formed(GptLaunch(c))
  <2> DEFINE l == GptLaunch(c)
             g == GptCall(c)
  <2>1. /\ l.kernel = "gpt" /\ l.tm = ModelTile /\ l.batch = c.batch /\ l.heads = c.heads
        /\ l.qlen = (IF Padded(c) THEN g.width ELSE c.qlen)
    <3>1. g.batch = c.batch /\ g.heads = c.heads /\ g.qlen = c.qlen
      BY DEF GptCall
    <3> HIDE DEF g
    <3> QED
      BY <3>1 DEF GptLaunch, StudyLaunch, g
  <2>2. g.width = IF Padded(c) THEN ModelTile ELSE c.klen
    BY DEF GptCall
  <2> HIDE DEF l, g
  <2>3. Rowed(l)
    BY <1>1, <2>1, <2>2 DEF Rowed, Positive
  <2> QED
    BY <2>1, <2>3, RowsFormed DEF RowKernels, l
<1>3. Formed(ScatterLaunch)
  BY DEF ScatterLaunch, Formed, RowKernels
<1>4. ASSUME NEW row, NEW klen, NEW kernel \in {"eager_step", "graph_step"}
      PROVE  LET l == StepLaunch(c, kernel, row, klen) IN Rowed(l) /\ l.kernel = kernel
  <2> DEFINE l == StepLaunch(c, kernel, row, klen)
  <2>1. l.kernel = kernel /\ l.tm = StaticTile /\ l.heads = c.heads /\ l.qlen = 1 /\ l.batch = 1
    BY DEF StepLaunch
  <2> HIDE DEF l
  <2>2. Rowed(l) /\ l.kernel = kernel
    BY <1>1, <2>1 DEF Rowed, Positive
  <2> QED
    BY <2>2 DEF l
<1>5. Formed(ReplayLaunch(c))
  BY <1>4, RowsFormed DEF ReplayLaunch, RowKernels
<1>6. ASSUME NEW past PROVE Formed(EagerLaunch(c, past))
  <2> DEFINE s == StepLaunch(c, "eager_step", past[Len(past)], Len(past))
             l == EagerLaunch(c, past)
  <2>1. Rowed(s) /\ s.kernel = "eager_step"
    BY <1>4
  <2>2. {"tm", "heads", "qlen", "batch", "kernel"} \subseteq DOMAIN s
    BY DEF StepLaunch
  <2>3. l = s ++ [past |-> past]
    BY DEF EagerLaunch
  <2> HIDE DEF s, l
  <2>4. l.tm = s.tm /\ l.heads = s.heads /\ l.qlen = s.qlen /\ l.batch = s.batch /\ l.kernel = s.kernel
    BY <2>2, <2>3 DEF ++
  <2>5. Rowed(l)
    BY <2>1, <2>4 DEF Rowed
  <2> QED
    BY <2>1, <2>4, <2>5, RowsFormed DEF RowKernels, l
<1> QED
  BY <1>2, <1>3, <1>5, <1>6

\* The length padded copies have.
LEMMA PaddedLength ==
  ASSUME NEW c, Serves(c)
  PROVE  PadTo(c) \in Nat
<1> DEFINE T == CacheTile
           f == [i \in 1 .. Len(c.seqs) |-> CeilDiv(c.seqs[i].new, T) * T]
           V == Values(T, f, 1, Len(c.seqs))
<1>1. T \in Positive /\ T \in Nat
  BY DeviceSizes DEF Positive
<1>2. Len(c.seqs) \in Nat /\ DOMAIN c.seqs = 1 .. Len(c.seqs) /\ \A i \in DOMAIN c.seqs : c.seqs[i].new \in Nat
  BY ServedFacts DEF Positive
<1>3. \A i \in 1 .. Len(c.seqs) : f[i] \in Nat
  BY <1>1, <1>2, Tiles, ProductNat
<1>4. PadTo(c) = Max(V)
  <2>1. {CeilDiv(c.seqs[i].new, T) * T : i \in DOMAIN c.seqs} = {f[n] : n \in 1 .. Len(c.seqs)}
    BY <1>2
  <2> QED
    BY <2>1 DEF PadTo, Values
<1> HIDE DEF f
<1>5. \E x : IsMax(x, V)
  <2>1. \A n \in 1 .. Len(c.seqs) : f[n] \in Int
    BY <1>3
  <2>2. Len(c.seqs) \in Int /\ T \in Int
    BY <1>1, <1>2
  <2> HIDE DEF T
  <2> QED
    BY <2>1, <2>2, MaxExists
<1>6. V \subseteq Nat
  BY <1>1, <1>3 DEF Values
<1> HIDE DEF V
<1>7. PICK x : IsMax(x, V)
  BY <1>5
<1>8. V \subseteq Int
  BY <1>6
<1>9. Max(V) = x
  BY <1>7, <1>8, MaxIs
<1> QED
  BY <1>4, <1>6, <1>7, <1>9 DEF IsMax

LEMMA ServingFormed ==
  ASSUME NEW c, Serves(c)
  PROVE  /\ Formed(StoreLaunch(c)) /\ Formed(DecodeLaunch(c)) /\ Formed(PaddedLaunch(c))
         /\ \A i \in DOMAIN c.seqs, kernel \in {"paged_prefill", "direct_prefill"} : Formed(SeqLaunch(c, i, kernel))
<1>1. {CacheTile, QHeads} \subseteq Positive /\ Len(c.seqs) \in Nat /\ \A i \in DOMAIN c.seqs : c.seqs[i].new \in Nat
  BY DeviceSizes, ServedFacts DEF Positive
<1>2. Formed(StoreLaunch(c))
  BY DEF StoreLaunch, Formed, RowKernels
<1>3. Formed(DecodeLaunch(c))
  <2> DEFINE l == DecodeLaunch(c)
  <2>1. l.kernel = "paged_decode" /\ l.call = c /\ l.batch = Len(c.seqs) /\ l.heads = QHeads /\ l.qlen = 1 /\ l.tm = 1
    BY DEF DecodeLaunch
  <2> HIDE DEF l
  <2> QED
    BY <1>1, <2>1 DEF Formed, RowKernels, Rowed, Positive, l
<1>4. Formed(PaddedLaunch(c))
  <2> DEFINE l == PaddedLaunch(c)
  <2>1. l.kernel = "padded_prefill" /\ l.call = c /\ l.batch = Len(c.seqs) /\ l.heads = QHeads /\ l.qlen = PadTo(c) /\ l.tm = CacheTile
    BY DEF PaddedLaunch
  <2> HIDE DEF l
  <2> QED
    BY <1>1, <2>1, PaddedLength DEF Formed, RowKernels, Rowed, Positive, l
<1>5. ASSUME NEW i \in DOMAIN c.seqs, NEW kernel \in {"paged_prefill", "direct_prefill"} PROVE Formed(SeqLaunch(c, i, kernel))
  <2> DEFINE l == SeqLaunch(c, i, kernel)
  <2>1. l.kernel = kernel /\ l.call = c /\ l.batch = 1 /\ l.heads = QHeads /\ l.qlen = c.seqs[i].new /\ l.tm = CacheTile /\ l.seq = i
    BY DEF SeqLaunch
  <2> HIDE DEF l
  <2>2. Rowed(l)
    BY <1>1, <2>1 DEF Rowed, Positive
  <2> QED
    BY <2>1, <2>2 DEF Formed, RowKernels, l
<1> QED
  BY <1>2, <1>3, <1>4, <1>5

\* A product whose sizes fit is in order.
LEMMA PartsPositive ==
  ASSUME NEW padded \in BOOLEAN, NEW n \in Positive, NEW t \in Positive, padded \/ n % t = 0
  PROVE  Parts(padded, n, t) \in Positive /\ Parts(padded, n, t) = CDiv(n, t)
<1>1. CASE ~ padded
  BY <1>1, Divides DEF Parts, CDiv
<1>2. CASE padded
  <2>1. Parts(padded, n, t) = CeilDiv(n, t)
    BY <1>2 DEF Parts, CDiv, CeilDiv
  <2>2. n \in Nat /\ n > 0 /\ t \in Nat
    BY DEF Positive
  <2>3. CeilDiv(n, t) \in Nat /\ n <= CeilDiv(n, t) * t
    BY <2>2, Tiles
  <2>4. CeilDiv(n, t) # 0
    BY <2>2, <2>3
  <2> QED
    BY <2>1, <2>3, <2>4 DEF Positive, CDiv, CeilDiv
<1> QED
  BY <1>1, <1>2

LEMMA MatmulOrdered ==
  ASSUME NEW c, {c.rows, c.cols, c.depth} \subseteq Positive, c.strip \in Nat,
         NEW kernel \in MatmulKernels, NEW cfg, MatmulFits(c, kernel, cfg), Fits(c, kernel, cfg)
  PROVE  LET l == MatmulLaunch(c, kernel, cfg) IN
         /\ Ordered(l) /\ l.kernel = "matmul"
         /\ l.m = Parts(kernel.padded, c.rows, cfg[1]) /\ l.n = Parts(kernel.padded, c.cols, cfg[2])
         /\ l.k = CDiv(c.depth, cfg[3])
<1> DEFINE l == MatmulLaunch(c, kernel, cfg)
<1>1. /\ l.kernel = "matmul" /\ l.order = kernel.order /\ l.full = kernel.full /\ l.group = c.strip
      /\ l.m = Parts(kernel.padded, c.rows, cfg[1]) /\ l.n = Parts(kernel.padded, c.cols, cfg[2])
      /\ l.k = Parts(kernel.padded, c.depth, cfg[3])
  BY DEF MatmulLaunch
<1> HIDE DEF l
<1>2. /\ kernel.padded \in BOOLEAN /\ kernel.full \in BOOLEAN /\ (kernel.full => kernel.order = "swizzled")
      /\ kernel.order \in {"swizzled", "universal", "varying", "raster", "grouped", "fast"}
  <2>1. CASE kernel = SwizzledKernel
    BY <2>1 DEF SwizzledKernel
  <2>2. CASE kernel = UniversalKernel
    BY <2>2 DEF UniversalKernel
  <2>3. CASE kernel = VaryingKernel
    BY <2>3 DEF VaryingKernel
  <2>4. CASE kernel = RasterKernel
    BY <2>4 DEF RasterKernel
  <2>5. CASE kernel = GroupedKernel
    BY <2>5 DEF GroupedKernel
  <2>6. CASE kernel = TilegymKernel
    BY <2>6 DEF TilegymKernel
  <2>7. CASE kernel = FastKernel
    BY <2>7 DEF FastKernel
  <2> QED
    BY <2>1, <2>2, <2>3, <2>4, <2>5, <2>6, <2>7 DEF MatmulKernels
<1>3. cfg[1] \in Positive /\ cfg[2] \in Positive /\ cfg[3] \in Positive
  BY DEF MatmulFits, Tiled3
<1>4. /\ kernel.padded \/ c.rows % cfg[1] = 0
      /\ kernel.padded \/ c.cols % cfg[2] = 0
      /\ kernel.padded \/ c.depth % cfg[3] = 0
  BY DEF MatmulFits, Fits
<1>5. l.m \in Positive /\ l.n \in Positive /\ l.k \in Positive /\ l.k = CDiv(c.depth, cfg[3])
  BY <1>1, <1>2, <1>3, <1>4, PartsPositive
<1>6. Ordered(l)
  <2>1. Striped(l) => l.group # 0
    BY <1>1 DEF Striped, MatmulFits
  <2>2. Striped(l) /\ l.order \notin {"grouped", "fast"} => l.full \/ l.m % l.group = 0
    BY <1>1, <2>1 DEF Striped, MatmulFits
  <2> QED
    BY <1>1, <1>2, <1>5, <2>1, <2>2 DEF Ordered
<1> QED
  BY <1>1, <1>5, <1>6 DEF l

-----------------------------------------------------------------------------
(* The configurations that are timed *)

\* The place of x in a set of positions, in their order.
PlaceAmong(S, x) == Cardinality({y \in S : y <= x})

LEMMA PlacesAre ==
  ASSUME NEW n \in Nat, NEW S \in SUBSET (1 .. n)
  PROVE  /\ Cardinality(S) \in Nat
         /\ \A x \in S : PlaceAmong(S, x) \in 1 .. Cardinality(S)
         /\ \A x, y \in S : PlaceAmong(S, x) = PlaceAmong(S, y) => x = y
         /\ \A i \in 1 .. Cardinality(S) : \E x \in S : PlaceAmong(S, x) = i
<1>1. IsFiniteSet(1 .. n)
  BY FS_Interval
<1>2. IsFiniteSet(S) /\ Cardinality(S) \in Nat
  BY <1>1, FS_Subset, FS_CardinalityType
<1> DEFINE U(x) == {y \in S : y <= x}
<1>3. \A x : U(x) \in SUBSET S
  OBVIOUS
<1>4. \A x : IsFiniteSet(U(x)) /\ Cardinality(U(x)) \in Nat /\ Cardinality(U(x)) <= Cardinality(S)
  BY <1>2, <1>3, FS_Subset, FS_CardinalityType
<1>5. ASSUME NEW x \in S PROVE PlaceAmong(S, x) \in 1 .. Cardinality(S)
  <2>1. x \in U(x)
    OBVIOUS
  <2>2. Cardinality(U(x)) # 0
    BY <1>4, <2>1, FS_EmptySet
  <2>3. PlaceAmong(S, x) = Cardinality(U(x))
    BY DEF PlaceAmong
  <2> HIDE DEF U
  <2> QED
    BY <1>2, <1>4, <2>2, <2>3
<1>6. ASSUME NEW x \in S, NEW y \in S, x < y PROVE PlaceAmong(S, x) # PlaceAmong(S, y)
  <2>0. \A z \in S : z \in Int
    BY <1>1
  <2>1. U(x) \in SUBSET U(y) /\ y \in U(y) /\ y \notin U(x)
    <3>1. \A z \in S : z <= x => z <= y
      BY <1>6, <2>0
    <3>2. y <= y /\ ~ (y <= x)
      BY <1>6, <2>0
    <3> QED
      BY <3>1, <3>2
  <2>2. U(x) # U(y)
    BY <2>1
  <2> HIDE DEF U
  <2>3. Cardinality(U(y)) # Cardinality(U(x))
    BY <1>4, <2>1, <2>2, FS_Subset
  <2> QED
    BY <2>3 DEF PlaceAmong, U
<1>7. \A x, y \in S : PlaceAmong(S, x) = PlaceAmong(S, y) => x = y
  BY <1>6
<1>8. ASSUME NEW i \in 1 .. Cardinality(S) PROVE \E x \in S : PlaceAmong(S, x) = i
  <2> DEFINE f == [x \in S |-> PlaceAmong(S, x)]
             m == Cardinality(S)
  <2>1. f \in [S -> 1 .. m] /\ \A x \in S : f[x] = PlaceAmong(S, x)
    BY <1>5
  <2>2. f \in Injection(S, 1 .. m)
    BY <1>7, <2>1 DEF Injection, IsInjective
  <2>3. IsFiniteSet(1 .. m) /\ Cardinality(1 .. m) = m
    BY <1>2, FS_Interval
  <2> HIDE DEF f, m
  <2>4. Cardinality(S) = m
    BY DEF m
  <2>5. f \in Surjection(S, 1 .. m)
    BY <2>2, <2>3, <2>4, FS_Injection
  <2>6. \E x \in S : f[x] = i
    BY <2>5 DEF Surjection, m
  <2> QED
    BY <2>1, <2>6
<1> QED
  BY <1>2, <1>5, <1>7, <1>8

\* The launches of a search are those of the configurations that are timed, all of them.
Timed(c, S) ==
  [i \in 1 .. Cardinality(S) |->
     MatmulLaunch(c, TunedKernel, c.configs[CHOOSE x \in S : Cardinality({y \in S : y <= x}) = i])]
TimedLaunches(c, S) == {MatmulLaunch(c, TunedKernel, c.configs[i]) : i \in S}

LEMMA TimedIs ==
  ASSUME NEW c \in Calls, c.kind = "tune", NEW S \in SUBSET (DOMAIN c.configs)
  PROVE  /\ Timed(c, S) \in Seq(TimedLaunches(c, S))
         /\ \A l \in TimedLaunches(c, S) : \E i \in DOMAIN Timed(c, S) : Timed(c, S)[i] = l
<1>1. WellFormed(c)
  BY DeviceAssumption
<1>2. c.configs \in Seq(Positive \X Positive \X Positive)
  BY <1>1 DEF WellFormed
<1> DEFINE n == Len(c.configs)
           m == Cardinality(S)
           L == TimedLaunches(c, S)
           pick(i) == CHOOSE x \in S : Cardinality({y \in S : y <= x}) = i
           t == Timed(c, S)
<1>3. n \in Nat /\ DOMAIN c.configs = 1 .. n
  BY <1>2
<1>4. S \in SUBSET (1 .. n)
  BY <1>3
<1>5. m \in Nat /\ (\A x \in S : PlaceAmong(S, x) \in 1 .. m)
      /\ (\A x, y \in S : PlaceAmong(S, x) = PlaceAmong(S, y) => x = y)
      /\ \A i \in 1 .. m : \E x \in S : PlaceAmong(S, x) = i
  <2> HIDE DEF n
  <2> QED
    BY <1>3, <1>4, PlacesAre
<1>6. \A i \in 1 .. m : pick(i) \in S
  <2> SUFFICES ASSUME NEW i \in 1 .. m PROVE pick(i) \in S
    OBVIOUS
  <2>1. \E x \in S : Cardinality({y \in S : y <= x}) = i
    BY <1>5 DEF PlaceAmong
  <2> QED
    BY <2>1
<1>7. \A x \in S : pick(PlaceAmong(S, x)) = x
  <2> SUFFICES ASSUME NEW x \in S PROVE pick(PlaceAmong(S, x)) = x
    OBVIOUS
  <2>1. \A y \in S : Cardinality({z \in S : z <= y}) = PlaceAmong(S, x) => y = x
    BY <1>5 DEF PlaceAmong
  <2>2. Cardinality({z \in S : z <= x}) = PlaceAmong(S, x)
    BY DEF PlaceAmong
  <2> QED
    BY <2>1, <2>2
<1>8. t = [i \in 1 .. m |-> MatmulLaunch(c, TunedKernel, c.configs[pick(i)])]
  BY DEF Timed
<1> HIDE DEF pick
<1>9. \A i \in 1 .. m : MatmulLaunch(c, TunedKernel, c.configs[pick(i)]) \in L
  BY <1>6 DEF TimedLaunches
<1>10. t \in Seq(L)
  BY <1>5, <1>8, <1>9
<1>11. ASSUME NEW l \in L PROVE \E i \in DOMAIN t : t[i] = l
  <2>1. PICK x \in S : l = MatmulLaunch(c, TunedKernel, c.configs[x])
    BY DEF TimedLaunches
  <2>2. PlaceAmong(S, x) \in 1 .. m /\ pick(PlaceAmong(S, x)) = x
    BY <1>5, <1>7
  <2> QED
    BY <1>8, <2>1, <2>2
<1> QED
  BY <1>10, <1>11

-----------------------------------------------------------------------------
(* Blocks store apart *)

CalledInv == stage # "idle" => call \in Calls

\* Every launch on the stream is formed, every stored address is of the block that
\* stored there, and a block over keys holds its own tile of them.
InTile(l, b, e) == e.j \in Nat /\ (l.kernel = "dkdv" => DOMAIN e.st = KeyTile(l, b))
ApartInv ==
  /\ \E S : queue \in Seq(S) /\ \A l \in S : Formed(l)
  /\ queue = <<>> => written = {}
  /\ queue # <<>> => /\ \A x \in written : x[2] = Writer(queue[1], x[1])
                     /\ \A b \in DOMAIN resident : InTile(queue[1], b, resident[b])

LEMMA CalledStep ==
  ASSUME CalledInv, DeviceNext
  PROVE  CalledInv'
<1>1. ASSUME NEW b, Issue(b) \/ Iterate(b) \/ Retire(b) PROVE CalledInv'
  BY <1>1 DEF CalledInv, Issue, Iterate, Retire
<1>2. CASE NextLaunch \/ Backward \/ Return \/ BeginDecoding \/ Replay \/ EagerStep \/ EndDecoding
  BY <1>2 DEF CalledInv, NextLaunch, Backward, Return, BeginDecoding, Replay, EagerStep, EndDecoding, More
<1>3. ASSUME NEW c \in Calls,
             Infer(c) \/ Forward(c) \/ Study(c) \/ Gpt(c) \/ Generate(c) \/ Attend(c) \/ Tune(c) \/ Benchmark(c) \/ Elementwise(c)
      PROVE  CalledInv'
  <2>1. call' = c
    BY <1>3 DEF Infer, Forward, Study, Gpt, Generate, Attend, Tune, Benchmark, Elementwise, Make
  <2> QED
    BY <2>1 DEF CalledInv
<1> QED
  BY <1>1, <1>2, <1>3 DEF DeviceNext

LEMMA ApartHead ==
  ASSUME ApartInv, queue # <<>>
  PROVE  Formed(queue[1])
<1>1. PICK S : queue \in Seq(S) /\ \A l \in S : Formed(l)
  BY DEF ApartInv
<1>2. queue[1] \in S
  BY <1>1
<1> QED
  BY <1>1, <1>2

LEMMA ApartIssue ==
  ASSUME ApartInv, NEW b, Issue(b)
  PROVE  ApartInv'
<1>1. queue' = queue /\ written' = written /\ queue # <<>>
      /\ resident' = resident ++ Entry(b, [j |-> 0, st |-> Begin(queue[1], b)])
  BY DEF Issue
<1>2. InTile(queue[1], b, [j |-> 0, st |-> Begin(queue[1], b)])
  <2>1. queue[1].kernel = "dkdv" => DOMAIN Begin(queue[1], b) = KeyTile(queue[1], b)
    BY DEF Begin, DkDvBegin, KeyTile, Flash
  <2> QED
    BY <2>1 DEF InTile
<1>3. ASSUME NEW x \in DOMAIN resident' PROVE InTile(queue[1], x, resident'[x])
  BY <1>1, <1>2 DEF ApartInv, ++, Entry
<1> QED
  BY <1>1, <1>3 DEF ApartInv

LEMMA ApartIterate ==
  ASSUME StreamInv, ApartInv, NEW b, Iterate(b), queue # <<>>
  PROVE  ApartInv'
<1> DEFINE l == queue[1]
           e == resident[b]
           st == Round(l, b, e.st, e.j)
           stores == RoundStores(l, b, st, e.j)
<1>1. queue' = queue /\ b \in DOMAIN resident /\ e.j < Rounds(l, b)
      /\ resident' = [resident EXCEPT ![b] = [j |-> e.j + 1, st |-> st]]
      /\ written' = written \cup ((DOMAIN stores) \X {b})
  BY DEF Iterate
<1>2. Formed(l) /\ b \in GridOf(l) /\ InTile(l, b, e)
  BY <1>1, ApartHead DEF StreamInv, ApartInv
<1>3. \A a \in DOMAIN stores : Writer(l, a) = b
  <2>1. e.j \in Nat
    BY <1>2 DEF InTile
  <2> HIDE DEF l, e, st
  <2> QED
    BY <1>1, <1>2, <2>1, RoundsApart
<1>4. \A x \in written' : x[2] = Writer(l, x[1])
  <2>1. \A x \in written : x[2] = Writer(l, x[1])
    BY DEF ApartInv
  <2> HIDE DEF stores, l
  <2> QED
    BY <1>1, <1>3, <2>1
<1>5. InTile(l, b, [j |-> e.j + 1, st |-> st])
  <2>1. l.kernel = "dkdv" => DOMAIN st = DOMAIN e.st
    BY DEF Round, DkDvRound
  <2>2. [j |-> e.j + 1, st |-> st].st = st /\ [j |-> e.j + 1, st |-> st].j = e.j + 1
    OBVIOUS
  <2> HIDE DEF st, l, e
  <2> QED
    BY <1>2, <2>1, <2>2 DEF InTile
<1>6. ASSUME NEW x \in DOMAIN resident' PROVE InTile(l, x, resident'[x])
  <2>1. \A y \in DOMAIN resident : InTile(l, y, resident[y])
    BY DEF ApartInv
  <2> HIDE DEF st, l, e
  <2> QED
    BY <1>1, <1>5, <2>1
<1> QED
  BY <1>1, <1>4, <1>6 DEF ApartInv

LEMMA ApartRetire ==
  ASSUME StreamInv, ApartInv, NEW b, Retire(b), queue # <<>>
  PROVE  ApartInv'
<1> DEFINE l == queue[1]
           e == resident[b]
           stores == LastStores(l, b, e.st)
<1>1. queue' = queue /\ b \in DOMAIN resident
      /\ resident' = [c \in DOMAIN resident \ {b} |-> resident[c]]
      /\ written' = written \cup ((DOMAIN stores) \X {b})
  BY DEF Retire
<1>2. Formed(l) /\ b \in GridOf(l) /\ InTile(l, b, e)
  BY <1>1, ApartHead DEF StreamInv, ApartInv
<1>3. \A a \in DOMAIN stores : Writer(l, a) = b
  <2>1. l.kernel = "dkdv" => DOMAIN e.st = KeyTile(l, b)
    BY <1>2 DEF InTile
  <2> HIDE DEF l, e
  <2> QED
    BY <1>2, <2>1, EndsApart
<1>4. \A x \in written' : x[2] = Writer(l, x[1])
  <2>1. \A x \in written : x[2] = Writer(l, x[1])
    BY DEF ApartInv
  <2> HIDE DEF stores, l
  <2> QED
    BY <1>1, <1>3, <2>1
<1>5. \A x \in DOMAIN resident' : InTile(l, x, resident'[x])
  BY <1>1 DEF ApartInv
<1> QED
  BY <1>1, <1>4, <1>5 DEF ApartInv

LEMMA ApartNextLaunch ==
  ASSUME StreamInv, ApartInv, NextLaunch
  PROVE  ApartInv'
<1>1. queue' = Tail(queue) /\ queue # <<>> /\ written' = {} /\ DOMAIN resident' = {}
  BY DEF NextLaunch, StreamInv
<1>2. PICK S : queue \in Seq(S) /\ \A l \in S : Formed(l)
  BY DEF ApartInv
<1>3. queue' \in Seq(S)
  BY <1>1, <1>2
<1> QED
  BY <1>1, <1>2, <1>3 DEF ApartInv

\* Formed launches on an idle stream.
LEMMA ApartSubmits ==
  ASSUME StreamInv, ApartInv, queue = <<>>, NEW S, queue' \in Seq(S), \A l \in S : Formed(l),
         resident' = resident, written' = written
  PROVE  ApartInv'
<1>1. written' = {} /\ DOMAIN resident' = {}
  BY DEF StreamInv, ApartInv
<1> QED
  BY <1>1 DEF ApartInv

LEMMA ApartStands ==
  ASSUME ApartInv, queue' = queue, resident' = resident, written' = written
  PROVE  ApartInv'
BY DEF ApartInv

LEMMA FormedAttending ==
  ASSUME StreamInv, ApartInv, AttendInv', NEW c \in Calls, Infer(c) \/ Study(c) \/ Gpt(c)
  PROVE  ApartInv'
<1>1. /\ queue = <<>> /\ call' = c /\ c.kind \in {"infer", "study", "gpt"} /\ stage' = "launched"
      /\ resident' = resident /\ written' = written
  BY DEF Infer, Study, Gpt, Make, Submit
<1>2. Standing'
  BY <1>1 DEF Standing
<1>3. queue' \in Seq(LaunchesOf(c))
  BY <1>1, <1>2 DEF AttendInv, RowsStand
<1>4. \A l \in LaunchesOf(c) : Formed(l)
  BY <1>1, AttendingFormed DEF Attending
<1> QED
  BY <1>1, <1>3, <1>4, ApartSubmits

LEMMA FormedTraining ==
  ASSUME StreamInv, StageInv, CalledInv, ApartInv, TrainInv', NEW c \in Calls, Forward(c) \/ Backward
  PROVE  ApartInv'
<1>1. CASE Forward(c)
  <2>1. /\ queue = <<>> /\ c.kind = "train" /\ queue' = <<ForwardLaunch(c)>>
        /\ resident' = resident /\ written' = written
    BY <1>1 DEF Forward, Make, Submit
  <2>2. Formed(ForwardLaunch(c))
    BY <2>1, TrainingFormed DEF Training
  <2>3. queue' \in Seq({ForwardLaunch(c)})
    BY <2>1
  <2>4. \A l \in {ForwardLaunch(c)} : Formed(l)
    BY <2>2
  <2> DEFINE L == {ForwardLaunch(c)}
  <2>5. queue' \in Seq(L) /\ \A l \in L : Formed(l)
    BY <2>3, <2>4
  <2> HIDE DEF L
  <2>6. queue = <<>> /\ resident' = resident /\ written' = written
    BY <2>1
  <2> QED
    BY <2>5, <2>6, ApartSubmits
<1>2. CASE Backward
  <2>1. queue = <<>> /\ stage = "forward" /\ stage' = "launched" /\ call' = call /\ resident' = resident /\ written' = written
    BY <1>2 DEF Backward, Submit
  <2>2. Training(call)
    BY <2>1 DEF StageInv, CalledInv, Training
  <2>3. TrainPhase'
    BY <2>1, <2>2 DEF TrainPhase, Training
  <2>4. queue' \in Seq(BackLaunches(call))
    BY <2>1, <2>3 DEF TrainInv, TrainStands, PhaseLaunches
  <2>5. \A l \in BackLaunches(call) : Formed(l)
    BY <2>2, TrainingFormed
  <2> QED
    BY <2>1, <2>4, <2>5, ApartSubmits
<1> QED
  BY <1>1, <1>2

LEMMA FormedGenerating ==
  ASSUME StreamInv, StageInv, CalledInv, ApartInv, NEW c \in Calls, Generate(c) \/ Replay \/ EagerStep
  PROVE  ApartInv'
<1>1. CASE Generate(c)
  <2>1. queue = <<>> /\ c.kind = "generate" /\ queue' = <<GptLaunch(c)>> /\ resident' = resident /\ written' = written
    BY <1>1 DEF Generate, Make, Submit
  <2> DEFINE L == {GptLaunch(c)}
  <2>2. queue' \in Seq(L) /\ \A l \in L : Formed(l)
    BY <2>1, GeneratingFormed
  <2> HIDE DEF L
  <2>3. queue = <<>> /\ resident' = resident /\ written' = written
    BY <2>1
  <2> QED
    BY <2>2, <2>3, ApartSubmits
<1>2. CASE Replay \/ EagerStep
  <2>1. call \in Calls /\ call.kind = "generate" /\ queue = <<>> /\ resident' = resident /\ written' = written
    BY <1>2 DEF Replay, EagerStep, More, Submit, CalledInv, StageInv
  <2>2. Formed(ScatterLaunch) /\ Formed(ReplayLaunch(call)) /\ \A past : Formed(EagerLaunch(call, past))
    BY <2>1, GeneratingFormed
  <2>3. CASE Replay
    <3>1. queue' = <<ScatterLaunch, ReplayLaunch(call)>>
      BY <2>3 DEF Replay, Submit
    <3>2. queue' \in Seq({ScatterLaunch, ReplayLaunch(call)})
      BY <3>1
    <3>3. \A l \in {ScatterLaunch, ReplayLaunch(call)} : Formed(l)
      BY <2>2
    <3> QED
      BY <2>1, <3>2, <3>3, ApartSubmits
  <2>4. CASE EagerStep
    <3>1. \E past : queue' = <<EagerLaunch(call, past)>>
      BY <2>4 DEF EagerStep, Submit
    <3>2. PICK past : queue' = <<EagerLaunch(call, past)>>
      BY <3>1
    <3>3. queue' \in Seq({EagerLaunch(call, past)})
      BY <3>2
    <3>4. \A l \in {EagerLaunch(call, past)} : Formed(l)
      BY <2>2
    <3> QED
      BY <2>1, <3>3, <3>4, ApartSubmits
  <2> QED
    BY <1>2, <2>3, <2>4
<1> QED
  BY <1>1, <1>2

LEMMA FormedServing ==
  ASSUME StreamInv, ApartInv, NEW c \in Calls, Attend(c)
  PROVE  ApartInv'
<1> DEFINE each(kernel) == [i \in DOMAIN c.seqs |-> SeqLaunch(c, i, kernel)]
           L == {StoreLaunch(c), DecodeLaunch(c), PaddedLaunch(c)}
                  \cup {SeqLaunch(c, i, kernel) : i \in DOMAIN c.seqs, kernel \in {"paged_prefill", "direct_prefill"}}
<1>1. queue = <<>> /\ c.kind = "attend" /\ resident' = resident /\ written' = written
  BY DEF Attend, Make, Submit
<1>2. Serves(c)
  BY <1>1 DEF Serves
<1>3. \A l \in L : Formed(l)
  BY <1>2, ServingFormed
<1>4. \E t \in Seq(L) : queue' = <<StoreLaunch(c)>> \o t
  <2>1. PrefillPath(c) \in {"decode", "padded", "paged", "direct"}
    BY DEF PrefillPath
  <2>2. \/ queue' = <<StoreLaunch(c)>> \o <<DecodeLaunch(c)>>
        \/ queue' = <<StoreLaunch(c)>> \o <<PaddedLaunch(c)>>
        \/ queue' = <<StoreLaunch(c)>> \o each("paged_prefill")
        \/ queue' = <<StoreLaunch(c)>> \o each("direct_prefill")
    <3>1. queue' = <<StoreLaunch(c)>> \o
            CASE PrefillPath(c) = "decode" -> <<DecodeLaunch(c)>>
              [] PrefillPath(c) = "padded" -> <<PaddedLaunch(c)>>
              [] PrefillPath(c) = "paged" -> each("paged_prefill")
              [] PrefillPath(c) = "direct" -> each("direct_prefill")
      BY DEF Attend, Submit
    <3> HIDE DEF each
    <3> QED
      BY <2>1, <3>1
  <2>3. <<DecodeLaunch(c)>> \in Seq(L) /\ <<PaddedLaunch(c)>> \in Seq(L)
    <3>1. DecodeLaunch(c) \in L /\ PaddedLaunch(c) \in L
      OBVIOUS
    <3> HIDE DEF L
    <3> QED
      BY <3>1
  <2>4. ASSUME NEW kernel \in {"paged_prefill", "direct_prefill"} PROVE each(kernel) \in Seq(L)
    <3>1. Len(c.seqs) \in Nat /\ DOMAIN c.seqs = 1 .. Len(c.seqs)
      BY <1>2, ServedFacts
    <3>2. \A i \in 1 .. Len(c.seqs) : SeqLaunch(c, i, kernel) \in L
      BY <3>1
    <3> HIDE DEF L
    <3> QED
      BY <3>1, <3>2
  <2> HIDE DEF L, each
  <2> QED
    BY <2>2, <2>3, <2>4
<1>5. StoreLaunch(c) \in L
  OBVIOUS
<1> HIDE DEF L
<1>6. queue' \in Seq(L)
  <2>1. PICK t \in Seq(L) : queue' = <<StoreLaunch(c)>> \o t
    BY <1>4
  <2>2. <<StoreLaunch(c)>> \in Seq(L)
    BY <1>5
  <2> QED
    BY <2>1, <2>2, ConcatProperties
<1> QED
  BY <1>1, <1>3, <1>6, ApartSubmits

-----------------------------------------------------------------------------
(* A row in the next power of two *)

Doubled(p, e) == IF e = 0 THEN 1 ELSE 2 * p[e - 1]

LEMMA DoublingExists ==
  ASSUME NEW n \in Nat
  PROVE  \E p : p = [e \in 0 .. n |-> Doubled(p, e)]
<1> DEFINE J == {k \in 0 .. n : \E p : \A e \in 0 .. k : p[e] = Doubled(p, e)}
<1>1. 0 \in J
  <2> DEFINE p == [e \in 0 .. 0 |-> 1]
  <2>1. \A e \in 0 .. 0 : p[e] = Doubled(p, e)
    BY DEF Doubled
  <2>2. 0 \in 0 .. n
    OBVIOUS
  <2> HIDE DEF p
  <2> QED
    BY <2>1, <2>2
<1>2. ASSUME NEW k \in 1 .. n, k - 1 \in J PROVE k \in J
  <2>1. PICK p : \A e \in 0 .. k - 1 : p[e] = Doubled(p, e)
    BY <1>2
  <2>2. k \in Nat /\ k # 0
    OBVIOUS
  <2> DEFINE q == [e \in 0 .. k |-> IF e = k THEN 2 * p[k - 1] ELSE p[e]]
  <2>3. ASSUME NEW e \in 0 .. k PROVE q[e] = Doubled(q, e)
    <3>1. CASE e = k
      <4>1. k - 1 \in 0 .. k /\ k - 1 # k
        BY <2>2
      <4>2. q[k - 1] = p[k - 1]
        BY <4>1
      <4>3. q[e] = 2 * p[k - 1]
        BY <3>1
      <4> HIDE DEF q
      <4> QED
        BY <2>2, <3>1, <4>2, <4>3 DEF Doubled
    <3>2. CASE e = 0
      <4>1. q[e] = p[e] /\ p[e] = 1
        BY <2>1, <2>2, <3>2 DEF Doubled
      <4> QED
        BY <3>2, <4>1 DEF Doubled
    <3>3. CASE e # k /\ e # 0
      <4>1. e - 1 \in 0 .. k /\ e - 1 # k /\ e \in 0 .. k - 1
        BY <2>2, <3>3
      <4>2. q[e] = p[e] /\ q[e - 1] = p[e - 1]
        BY <3>3, <4>1
      <4>3. p[e] = 2 * p[e - 1]
        BY <2>1, <3>3, <4>1 DEF Doubled
      <4> HIDE DEF q
      <4> QED
        BY <3>3, <4>2, <4>3 DEF Doubled
    <3> QED
      BY <3>1, <3>2, <3>3
  <2> HIDE DEF q
  <2> QED
    BY <2>3
<1>3. n \in J
  <2> HIDE DEF J
  <2>1. Passes(J, n)
    BY <1>1, <1>2 DEF Passes
  <2> QED
    BY <2>1, StepByStep
<1>4. PICK p : \A e \in 0 .. n : p[e] = Doubled(p, e)
  BY <1>3
<1> DEFINE same == [e \in 0 .. n |-> p[e]]
<1>5. ASSUME NEW e \in 0 .. n PROVE same[e] = Doubled(same, e)
  <2>1. e # 0 => e - 1 \in 0 .. n
    OBVIOUS
  <2>2. same[e] = p[e] /\ (e # 0 => same[e - 1] = p[e - 1])
    BY <2>1
  <2> HIDE DEF same
  <2> QED
    BY <1>4, <2>2 DEF Doubled
<1>6. same = [e \in 0 .. n |-> Doubled(same, e)]
  <2>1. same = [e \in 0 .. n |-> same[e]]
    OBVIOUS
  <2> HIDE DEF same
  <2> QED
    BY <1>5, <2>1
<1> QED
  BY <1>6

\* The powers of two pass every number.
LEMMA PowerIs ==
  ASSUME NEW n \in Nat
  PROVE  \A e \in 0 .. n : Power(n)[e] \in Nat /\ Power(n)[e] > e
<1> DEFINE p == Power(n)
<1>1. p = [e \in 0 .. n |-> Doubled(p, e)]
  <2>1. Power(n) = CHOOSE x : x = [e \in 0 .. n |-> Doubled(x, e)]
    BY DEF Power, Doubled
  <2> HIDE DEF p
  <2> QED
    BY <2>1, DoublingExists DEF p
<1> HIDE DEF p
<1>2. \A e \in 0 .. n : p[e] = Doubled(p, e)
  BY <1>1
<1> DEFINE J == {e \in 0 .. n : p[e] \in Nat /\ p[e] > e}
<1>3. 0 \in J
  BY <1>2 DEF Doubled
<1>4. ASSUME NEW i \in 1 .. n, i - 1 \in J PROVE i \in J
  <2>1. p[i] = 2 * p[i - 1] /\ i \in 0 .. n
    BY <1>2 DEF Doubled
  <2>2. p[i - 1] \in Nat /\ p[i - 1] > i - 1
    BY <1>4
  <2> QED
    BY <2>1, <2>2
<1> HIDE DEF J
<1>5. Passes(J, n)
  BY <1>3, <1>4 DEF Passes
<1>6. \A e \in 0 .. n : e \in J
  BY <1>5, StepByStep
<1> QED
  BY <1>6 DEF J, p

LEMMA NextPowerIs ==
  ASSUME NEW n \in Nat
  PROVE  NextPowerOf2(n) \in Nat /\ n <= NextPowerOf2(n)
<1> DEFINE above == {Power(n)[e] : e \in {e \in 0 .. n : Power(n)[e] >= n}}
<1>1. above \subseteq Nat /\ (\A p \in above : p >= n)
  BY PowerIs
<1>2. Power(n)[n] \in above
  <2>1. n \in 0 .. n
    OBVIOUS
  <2>2. Power(n)[n] \in Nat /\ Power(n)[n] > n
    BY <2>1, PowerIs
  <2>3. Power(n)[n] >= n
    BY <2>2
  <2> QED
    BY <2>1, <2>3
<1>3. NextPowerOf2(n) = CHOOSE p \in above : \A q \in above : p <= q
  BY DEF NextPowerOf2
<1> HIDE DEF above
<1>4. \E p \in above : \A q \in above : p <= q
  BY <1>1, <1>2, FirstOf
<1>5. NextPowerOf2(n) \in above
  BY <1>3, <1>4
<1> QED
  BY <1>1, <1>5

-----------------------------------------------------------------------------
(* What a grid owes *)

GridKernels == {"matmul", "tiled", "softmax", "add", "vector"}
Gridded(l) ==
  /\ Formed(l) /\ l.kernel \in GridKernels
  /\ l.kernel = "softmax" => l.width \in Nat /\ l.cols \in Nat /\ l.cols <= l.width

\* The values a launch may leave, and the addresses a block owes after some rounds
\* and at its end.
Steps(k) == [i \in 1 .. k |-> i - 1]
EndAt(l, b) ==
  CASE l.kernel = "add" -> DOMAIN MatAddStore(l, b)
    [] l.kernel = "vector" -> DOMAIN VectorAddStore(l, b)
    [] OTHER -> {}
Right(l, a, v) ==
  CASE l.kernel \in {"matmul", "tiled"} -> a[1] = "C" /\ v = Steps(l.k)
    [] l.kernel = "softmax" -> a[1] = "S" /\ v = 0 .. l.cols - 1
    [] OTHER -> \E b \in GridOf(l) : a \in EndAt(l, b)
Paid(M, l, b, j) == \A i \in 0 .. j - 1 : DOMAIN RoundStores(l, b, <<>>, i) \subseteq DOMAIN M
Settled(M, l, b) == Paid(M, l, b, Rounds(l, b)) /\ EndAt(l, b) \subseteq DOMAIN M
Given(M, l) == \A b \in GridOf(l) : Settled(M, l, b)
AllRight(M, L) == \A a \in DOMAIN M : a[1] \in {"C", "S", "sum"} => \E l \in L : Right(l, a, M[a])

\* An accumulator holds the steps since its tile began.
Summing(l, j, st) == l.kernel \in {"matmul", "tiled"} /\ j % l.k # 0 => st = Steps(j % l.k)
GridProgress(M, l, b, e) == e.j \in Nat /\ Paid(M, l, b, e.j) /\ Summing(l, e.j, e.st)

LEMMA Accumulate ==
  ASSUME NEW l, l.k \in Positive, NEW b, NEW j \in Nat, NEW st, j % l.k # 0 => st = Steps(j % l.k)
  PROVE  LET next == MatmulRound(l, b, st, j) IN
         /\ j % l.k = l.k - 1 => next = Steps(l.k)
         /\ (j + 1) % l.k # 0 => next = Steps((j + 1) % l.k)
<1> DEFINE k == l.k
           r == j % k
           next == MatmulRound(l, b, st, j)
<1>1. k \in Nat /\ k > 0 /\ k \in Positive
  BY DEF Positive
<1>2. j \div k \in Nat /\ r \in 0 .. k - 1 /\ j = (j \div k) * k + r
  BY <1>1, QuotientOf
<1>3. next = IF r = 0 THEN <<r>> ELSE Append(st, r)
  BY DEF MatmulRound
<1> HIDE DEF r, k
<1>4. r \in Nat
  BY <1>1, <1>2
<1>5. next = Steps(r + 1)
  <2>1. CASE r = 0
    BY <1>3, <2>1 DEF Steps
  <2>2. CASE r # 0
    <3>1. st = Steps(r)
      BY <2>2 DEF r, k
    <3> QED
      BY <1>3, <1>4, <2>2, <3>1 DEF Steps
  <2> QED
    BY <2>1, <2>2
<1>6. r # k - 1 => (j + 1) % k = r + 1
  <2> SUFFICES ASSUME r # k - 1 PROVE (j + 1) % k = r + 1
    OBVIOUS
  <2>1. r + 1 \in 0 .. k - 1 /\ j + 1 \in Nat
    BY <1>1, <1>2
  <2>2. (j \div k) * k \in Nat
    BY <1>1, <1>2, ProductNat
  <2>3. j + 1 = (j \div k) * k + (r + 1)
    BY <1>2, <1>4, <2>2
  <2> QED
    BY <1>1, <1>2, <2>1, <2>3, QuotientIs
<1>7. r = k - 1 => (j + 1) % k = 0
  <2> SUFFICES ASSUME r = k - 1 PROVE (j + 1) % k = 0
    OBVIOUS
  <2>1. (j \div k) * k \in Nat /\ (j \div k + 1) * k = (j \div k) * k + k
    BY <1>1, <1>2, ProductNat
  <2>2. j + 1 = (j \div k + 1) * k + 0 /\ 0 \in 0 .. k - 1 /\ j \div k + 1 \in Nat /\ j + 1 \in Nat
    BY <1>1, <1>2, <2>1
  <2> QED
    BY <1>1, <2>2, QuotientIs
<1>8. r = k - 1 => r + 1 = k
  BY <1>1, <1>4
<1> QED
  BY <1>5, <1>6, <1>7, <1>8 DEF r, k

\* A round stores what is owed for it, rightly, and carries the accumulator on.
LEMMA GridRound ==
  ASSUME NEW l, Gridded(l), NEW b \in GridOf(l), NEW j \in Nat, j < Rounds(l, b), NEW st, Summing(l, j, st)
  PROVE  LET next == Round(l, b, st, j)
             stores == RoundStores(l, b, next, j) IN
         /\ Summing(l, j + 1, next)
         /\ DOMAIN stores = DOMAIN RoundStores(l, b, <<>>, j)
         /\ \A a \in DOMAIN stores : Right(l, a, stores[a])
<1> DEFINE next == Round(l, b, st, j)
           stores == RoundStores(l, b, next, j)
<1>1. CASE l.kernel = "matmul"
  <2>1. next = MatmulRound(l, b, st, j) /\ stores = MatmulStore(l, b, next, j)
        /\ RoundStores(l, b, <<>>, j) = MatmulStore(l, b, <<>>, j)
    BY <1>1 DEF Round, RoundStores
  <2>2. l.k \in Positive
    BY <1>1 DEF Gridded, Formed, RowKernels, Ordered
  <2>3. (j % l.k = l.k - 1 => next = Steps(l.k)) /\ ((j + 1) % l.k # 0 => next = Steps((j + 1) % l.k))
    BY <1>1, <2>1, <2>2, Accumulate DEF Summing
  <2> HIDE DEF next
  <2>4. DOMAIN stores = DOMAIN MatmulStore(l, b, <<>>, j)
    BY <2>1 DEF MatmulStore
  <2>5. \A a \in DOMAIN stores : a[1] = "C" /\ stores[a] = next /\ j % l.k = l.k - 1
    BY <2>1 DEF MatmulStore
  <2> HIDE DEF stores
  <2>6. \A a \in DOMAIN stores : Right(l, a, stores[a])
    BY <1>1, <2>3, <2>5 DEF Right
  <2> QED
    BY <1>1, <2>1, <2>3, <2>4, <2>6 DEF Summing, next, stores
<1>2. CASE l.kernel = "tiled"
  <2>1. next = MatmulRound(l, b, st, j) /\ stores = TiledStore(l, b, next, j)
        /\ RoundStores(l, b, <<>>, j) = TiledStore(l, b, <<>>, j) /\ j < l.k
    BY <1>2 DEF Round, RoundStores, Rounds, Flash
  <2>2. l.k \in Positive
    BY <1>2 DEF Gridded, Formed, RowKernels
  <2>3. (j % l.k = l.k - 1 => next = Steps(l.k)) /\ ((j + 1) % l.k # 0 => next = Steps((j + 1) % l.k))
    BY <1>2, <2>1, <2>2, Accumulate DEF Summing
  <2>4. j % l.k = j
    <3>1. j = 0 * l.k + j /\ j \in 0 .. l.k - 1
      BY <2>1, <2>2 DEF Positive
    <3> QED
      BY <2>2, <3>1, QuotientIs
  <2> HIDE DEF next
  <2>5. DOMAIN stores = DOMAIN TiledStore(l, b, <<>>, j)
    BY <2>1 DEF TiledStore
  <2>6. \A a \in DOMAIN stores : a[1] = "C" /\ stores[a] = next /\ j = l.k - 1
    BY <2>1 DEF TiledStore
  <2> HIDE DEF stores
  <2>7. \A a \in DOMAIN stores : Right(l, a, stores[a])
    BY <1>2, <2>3, <2>4, <2>6 DEF Right
  <2> QED
    BY <1>2, <2>1, <2>3, <2>5, <2>7 DEF Summing, next, stores
<1>3. CASE l.kernel = "softmax"
  <2>1. stores = SoftmaxStore(l, b, j) /\ RoundStores(l, b, <<>>, j) = SoftmaxStore(l, b, j)
    BY <1>3 DEF RoundStores
  <2> HIDE DEF stores, next
  <2>2. \A a \in DOMAIN stores : a[1] = "S" /\ stores[a] = {n \in 0 .. l.width - 1 : n < l.cols}
    BY <2>1 DEF SoftmaxStore
  <2>3. {n \in 0 .. l.width - 1 : n < l.cols} = 0 .. l.cols - 1
    BY <1>3 DEF Gridded
  <2>4. \A a \in DOMAIN stores : Right(l, a, stores[a])
    BY <1>3, <2>2, <2>3 DEF Right
  <2> QED
    BY <1>3, <2>1, <2>4 DEF Summing, next, stores
<1>4. CASE l.kernel \in {"add", "vector"}
  <2>1. Rounds(l, b) = 0
    BY <1>4 DEF Rounds, Flash
  <2> QED
    BY <2>1
<1> QED
  BY <1>1, <1>2, <1>3, <1>4 DEF Gridded, GridKernels

LEMMA GridEnd ==
  ASSUME NEW l, Gridded(l), NEW b \in GridOf(l), NEW st
  PROVE  LET stores == LastStores(l, b, st) IN
         DOMAIN stores = EndAt(l, b) /\ \A a \in DOMAIN stores : Right(l, a, stores[a])
<1> DEFINE stores == LastStores(l, b, st)
<1>1. DOMAIN stores = EndAt(l, b)
  <2>1. CASE l.kernel = "add"
    BY <2>1 DEF LastStores, EndAt
  <2>2. CASE l.kernel = "vector"
    BY <2>2 DEF LastStores, EndAt
  <2>3. CASE l.kernel \in {"matmul", "tiled", "softmax"}
    <3>1. stores = <<>> /\ EndAt(l, b) = {}
      BY <2>3 DEF LastStores, EndAt
    <3> QED
      BY <3>1
  <2> QED
    BY <2>1, <2>2, <2>3 DEF Gridded, GridKernels
<1>2. l.kernel \in {"matmul", "tiled", "softmax"} => EndAt(l, b) = {}
  BY DEF EndAt
<1> HIDE DEF stores
<1>3. ASSUME NEW a \in DOMAIN stores PROVE Right(l, a, stores[a])
  <2>1. l.kernel \in {"add", "vector"}
    BY <1>1, <1>2 DEF Gridded, GridKernels
  <2> QED
    BY <1>1, <2>1 DEF Right
<1> QED
  BY <1>1, <1>3 DEF stores

\* More is held, and all of it right.
LEMMA PaidKept ==
  ASSUME NEW M, NEW stores
  PROVE  /\ \A l, b, j : Paid(M, l, b, j) => Paid(stores ++ M, l, b, j)
         /\ \A l, b : Settled(M, l, b) => Settled(stores ++ M, l, b)
         /\ \A l : Given(M, l) => Given(stores ++ M, l)
<1>1. DOMAIN (stores ++ M) = DOMAIN stores \cup DOMAIN M
  BY DEF ++
<1>2. \A l, b, j : Paid(M, l, b, j) => Paid(stores ++ M, l, b, j)
  BY <1>1 DEF Paid
<1> QED
  BY <1>1, <1>2 DEF Settled, Given

LEMMA RightKept ==
  ASSUME NEW M, NEW stores, NEW L, AllRight(M, L), NEW l \in L, \A a \in DOMAIN stores : Right(l, a, stores[a])
  PROVE  AllRight(stores ++ M, L)
BY DEF AllRight, ++

-----------------------------------------------------------------------------
(* Launches that compute every tile *)

\* The launches L of a call: what is stored is right for one of them, one that is
\* not on the stream any more has given all it owes, and so have the blocks that
\* ended; those that run have stored their rounds.
Tiling(L) ==
  /\ queue \in Seq(L) /\ (\A l \in L : Gridded(l)) /\ AllRight(mem, L)
  /\ \A l \in L : (\E i \in DOMAIN queue : queue[i] = l) \/ Given(mem, l)
  /\ queue # <<>> => /\ \A b \in done : Settled(mem, queue[1], b)
                     /\ \A b \in DOMAIN resident : GridProgress(mem, queue[1], b, resident[b])

LEMMA TilingHead ==
  ASSUME NEW L, Tiling(L), queue # <<>>
  PROVE  queue[1] \in L /\ Gridded(queue[1])
BY DEF Tiling

LEMMA TilingIssue ==
  ASSUME NEW L, Tiling(L), NEW b, Issue(b)
  PROVE  Tiling(L)'
<1> DEFINE l == queue[1]
           fresh == [j |-> 0, st |-> Begin(l, b)]
<1>1. queue' = queue /\ mem' = mem /\ done' = done /\ queue # <<>> /\ resident' = resident ++ Entry(b, fresh)
  BY DEF Issue
<1>2. GridProgress(mem, l, b, fresh)
  <2>1. Paid(mem, l, b, 0)
    BY DEF Paid
  <2>2. Summing(l, 0, fresh.st)
    <3>1. l.kernel \in {"matmul", "tiled"} => l.k \in Positive
      <4>1. Gridded(l)
        BY <1>1, TilingHead
      <4> HIDE DEF l
      <4>2. l.kernel = "matmul" => Ordered(l)
        BY <4>1 DEF Gridded, Formed, RowKernels
      <4>3. l.kernel = "tiled" => l.k \in Positive
        BY <4>1 DEF Gridded, Formed, RowKernels
      <4> QED
        BY <4>2, <4>3 DEF Ordered
    <3>2. \A k \in Positive : 0 % k = 0
      BY DEF Positive
    <3> HIDE DEF l, fresh
    <3> QED
      BY <3>1, <3>2 DEF Summing
  <2>3. fresh.j = 0
    OBVIOUS
  <2> HIDE DEF l, fresh
  <2> QED
    BY <2>1, <2>2, <2>3 DEF GridProgress
<1> HIDE DEF fresh
<1>3. ASSUME NEW x \in DOMAIN resident' PROVE GridProgress(mem, l, x, resident'[x])
  <2>1. \A y \in DOMAIN resident : GridProgress(mem, l, y, resident[y])
    BY <1>1 DEF Tiling
  <2> HIDE DEF l
  <2> QED
    BY <1>1, <1>2, <2>1 DEF ++, Entry
<1> QED
  BY <1>1, <1>3 DEF Tiling

LEMMA TilingIterate ==
  ASSUME StreamInv, NEW L, Tiling(L), NEW b, Iterate(b), queue # <<>>
  PROVE  Tiling(L)'
<1> DEFINE l == queue[1]
           e == resident[b]
           next == Round(l, b, e.st, e.j)
           stores == RoundStores(l, b, next, e.j)
           later == [j |-> e.j + 1, st |-> next]
<1>1. queue' = queue /\ done' = done /\ b \in DOMAIN resident /\ e.j < Rounds(l, b)
      /\ resident' = [resident EXCEPT ![b] = later] /\ mem' = stores ++ mem
  BY DEF Iterate
<1>2. l \in L /\ Gridded(l) /\ b \in GridOf(l)
  BY <1>1, TilingHead DEF StreamInv
<1>3. GridProgress(mem, l, b, e)
  BY <1>1 DEF Tiling
<1>4. e.j \in Nat /\ Paid(mem, l, b, e.j) /\ Summing(l, e.j, e.st)
  <2> HIDE DEF e, l
  <2> QED
    BY <1>3 DEF GridProgress
<1>5. /\ Summing(l, e.j + 1, next) /\ DOMAIN stores = DOMAIN RoundStores(l, b, <<>>, e.j)
      /\ \A a \in DOMAIN stores : Right(l, a, stores[a])
  <2> HIDE DEF l, e
  <2> QED
    BY <1>1, <1>2, <1>4, GridRound
<1>6. later.j = e.j + 1 /\ later.st = next
  OBVIOUS
<1> HIDE DEF later, stores, next
<1>7. Paid(mem', l, b, e.j + 1)
  <2>1. Paid(mem', l, b, e.j)
    BY <1>1, <1>4, PaidKept
  <2>2. DOMAIN stores \subseteq DOMAIN mem'
    BY <1>1 DEF ++
  <2> HIDE DEF l, e
  <2>3. \A i \in 0 .. (e.j + 1) - 1 : i \in 0 .. e.j - 1 \/ i = e.j
    BY <1>4
  <2> QED
    BY <1>5, <2>1, <2>2, <2>3 DEF Paid
<1>8. GridProgress(mem', l, b, later)
  <2> HIDE DEF l, e
  <2> QED
    BY <1>4, <1>5, <1>6, <1>7 DEF GridProgress
<1>9. ASSUME NEW x \in DOMAIN resident' PROVE GridProgress(mem', l, x, resident'[x])
  <2>1. GridProgress(mem, l, x, resident[x]) /\ x \in DOMAIN resident
    BY <1>1 DEF Tiling
  <2>2. GridProgress(mem', l, x, resident[x])
    BY <1>1, <2>1, PaidKept DEF GridProgress
  <2> HIDE DEF l, e
  <2> QED
    BY <1>1, <1>8, <2>1, <2>2
<1>10. AllRight(mem', L)
  <2>1. AllRight(mem, L)
    BY DEF Tiling
  <2> HIDE DEF l
  <2> QED
    BY <1>1, <1>2, <1>5, <2>1, RightKept
<1>11. \A x \in done' : Settled(mem', l, x)
  <2>1. \A x \in done : Settled(mem, l, x)
    BY DEF Tiling
  <2> QED
    BY <1>1, <2>1, PaidKept
<1>12. \A m \in L : (\E i \in DOMAIN queue' : queue'[i] = m) \/ Given(mem', m)
  BY <1>1, PaidKept DEF Tiling
<1> QED
  BY <1>1, <1>9, <1>10, <1>11, <1>12 DEF Tiling

LEMMA TilingRetire ==
  ASSUME StreamInv, NEW L, Tiling(L), NEW b, Retire(b), queue # <<>>
  PROVE  Tiling(L)'
<1> DEFINE l == queue[1]
           e == resident[b]
           stores == LastStores(l, b, e.st)
<1>1. queue' = queue /\ done' = done \cup {b} /\ b \in DOMAIN resident /\ e.j = Rounds(l, b)
      /\ resident' = [c \in DOMAIN resident \ {b} |-> resident[c]] /\ mem' = stores ++ mem
  BY DEF Retire
<1>2. l \in L /\ Gridded(l) /\ b \in GridOf(l)
  BY <1>1, TilingHead DEF StreamInv
<1>3. GridProgress(mem, l, b, e)
  BY <1>1 DEF Tiling
<1>4. Paid(mem, l, b, Rounds(l, b))
  <2> HIDE DEF e, l
  <2> QED
    BY <1>1, <1>3 DEF GridProgress
<1>5. DOMAIN stores = EndAt(l, b) /\ \A a \in DOMAIN stores : Right(l, a, stores[a])
  <2> HIDE DEF l, e
  <2> QED
    BY <1>2, GridEnd
<1> HIDE DEF stores
<1>6. Settled(mem', l, b)
  <2>1. Paid(mem', l, b, Rounds(l, b))
    BY <1>1, <1>4, PaidKept
  <2>2. DOMAIN stores \subseteq DOMAIN mem'
    BY <1>1 DEF ++
  <2> QED
    BY <1>5, <2>1, <2>2 DEF Settled
<1>7. ASSUME NEW x \in DOMAIN resident' PROVE GridProgress(mem', l, x, resident'[x])
  <2>1. GridProgress(mem, l, x, resident[x]) /\ resident'[x] = resident[x]
    BY <1>1 DEF Tiling
  <2> QED
    BY <1>1, <2>1, PaidKept DEF GridProgress
<1>8. AllRight(mem', L)
  <2>1. AllRight(mem, L)
    BY DEF Tiling
  <2> HIDE DEF l
  <2> QED
    BY <1>1, <1>2, <1>5, <2>1, RightKept
<1>9. \A x \in done' : Settled(mem', l, x)
  <2>1. \A x \in done : Settled(mem, l, x)
    BY DEF Tiling
  <2> QED
    BY <1>1, <1>6, <2>1, PaidKept
<1>10. \A m \in L : (\E i \in DOMAIN queue' : queue'[i] = m) \/ Given(mem', m)
  BY <1>1, PaidKept DEF Tiling
<1> QED
  BY <1>1, <1>7, <1>8, <1>9, <1>10 DEF Tiling

LEMMA TilingNextLaunch ==
  ASSUME StreamInv, NEW L, Tiling(L), NextLaunch
  PROVE  Tiling(L)'
<1>1. queue' = Tail(queue) /\ queue # <<>> /\ done = GridOf(queue[1]) /\ done' = {} /\ mem' = mem
      /\ DOMAIN resident' = {}
  BY DEF NextLaunch, StreamInv
<1>2. queue \in Seq(L) /\ queue' \in Seq(L)
  BY <1>1 DEF Tiling
<1>3. Given(mem, queue[1])
  BY <1>1 DEF Tiling, Given
<1>4. ASSUME NEW l \in L PROVE (\E i \in DOMAIN queue' : queue'[i] = l) \/ Given(mem', l)
  <2>1. CASE Given(mem, l)
    BY <1>1, <2>1
  <2>2. CASE \E i \in DOMAIN queue : queue[i] = l
    <3>1. PICK i \in DOMAIN queue : queue[i] = l
      BY <2>2
    <3>2. CASE i = 1
      BY <1>1, <1>3, <3>1, <3>2
    <3>3. CASE i # 1
      <4>1. i - 1 \in DOMAIN queue' /\ queue'[i - 1] = queue[i]
        BY <1>1, <1>2, <3>1, <3>3
      <4> QED
        BY <3>1, <4>1
    <3> QED
      BY <3>2, <3>3
  <2> QED
    BY <2>1, <2>2 DEF Tiling
<1> QED
  BY <1>1, <1>2, <1>4 DEF Tiling

-----------------------------------------------------------------------------
(* Calls that compute tiles *)

GridKinds == {"matmul", "tiled", "tune", "softmax", "add", "vector"}
GridLaunches(c, T) ==
  CASE c.kind = "matmul" -> {MatmulLaunch(c, c.kernel, c.cfg)}
    [] c.kind = "tiled" -> {TiledLaunch(c)}
    [] c.kind = "tune" -> TimedLaunches(c, T[<<"measured">>])
    [] c.kind = "softmax" -> {SoftmaxLaunch(c)}
    [] c.kind = "add" -> {MatAddLaunch(c)}
    [] OTHER -> {VectorAddLaunch(c)}

\* The configurations that are launched fit.
Fitting(c) == {i \in DOMAIN c.configs : Fits(c, TunedKernel, c.configs[i])}
Chosen(c, T) ==
  /\ c.kind = "matmul" => Fits(c, c.kernel, c.cfg)
  /\ c.kind = "tune" => T[<<"measured">>] \subseteq Fitting(c)

LEMMA GriddedMatmul ==
  ASSUME NEW c \in Calls, NEW kernel \in MatmulKernels, NEW cfg,
         {c.rows, c.cols, c.depth} \subseteq Positive, c.strip \in Nat, MatmulFits(c, kernel, cfg), Fits(c, kernel, cfg)
  PROVE  Gridded(MatmulLaunch(c, kernel, cfg))
<1> DEFINE l == MatmulLaunch(c, kernel, cfg)
<1>1. Ordered(l) /\ l.kernel = "matmul"
  BY MatmulOrdered
<1> HIDE DEF l
<1>2. Gridded(l)
  BY <1>1 DEF Gridded, GridKernels, Formed, RowKernels
<1> QED
  BY <1>2 DEF l

LEMMA TunedFits ==
  ASSUME NEW c \in Calls, c.kind = "tune", NEW i \in Fitting(c)
  PROVE  /\ {c.rows, c.cols, c.depth} \subseteq Positive /\ c.strip \in Nat
         /\ TunedKernel \in MatmulKernels /\ MatmulFits(c, TunedKernel, c.configs[i]) /\ Fits(c, TunedKernel, c.configs[i])
<1>1. WellFormed(c)
  BY DeviceAssumption
<1>2. i \in DOMAIN c.configs /\ Fits(c, TunedKernel, c.configs[i])
  BY DEF Fitting
<1>3. TunedKernel \in MatmulKernels
  BY DEF TunedKernel, RasterKernel, MatmulKernels
<1> QED
  BY <1>1, <1>2, <1>3 DEF WellFormed

LEMMA LaunchesGridded ==
  ASSUME NEW c \in Calls, c.kind \in GridKinds, NEW T, Chosen(c, T)
  PROVE  \A l \in GridLaunches(c, T) : Gridded(l)
<1>1. WellFormed(c)
  BY DeviceAssumption
<1>2. CASE c.kind = "matmul"
  <2>1. GridLaunches(c, T) = {MatmulLaunch(c, c.kernel, c.cfg)}
    BY <1>2 DEF GridLaunches
  <2>2. /\ {c.rows, c.cols, c.depth} \subseteq Positive /\ c.strip \in Nat
        /\ c.kernel \in MatmulKernels /\ MatmulFits(c, c.kernel, c.cfg) /\ Fits(c, c.kernel, c.cfg)
    BY <1>1, <1>2 DEF WellFormed, Chosen
  <2>3. Gridded(MatmulLaunch(c, c.kernel, c.cfg))
    BY <2>2, GriddedMatmul
  <2> QED
    BY <2>1, <2>3
<1>3. CASE c.kind = "tiled"
  <2>1. GridLaunches(c, T) = {TiledLaunch(c)}
    BY <1>3 DEF GridLaunches
  <2>2. {c.rows, c.cols, c.depth, c.tile} \subseteq Positive /\ c.depth % c.tile = 0
    BY <1>1, <1>3 DEF WellFormed
  <2>3. c.rows \div c.tile \in Nat /\ c.cols \div c.tile \in Nat /\ c.depth \div c.tile \in Positive
    <3>1. c.rows \in Nat /\ c.cols \in Nat
      BY <2>2 DEF Positive
    <3>2. c.depth \div c.tile \in Positive
      BY <2>2, Divides
    <3> QED
      BY <2>2, <3>1, <3>2, QuotientOf
  <2> DEFINE l == TiledLaunch(c)
  <2>4. l.kernel = "tiled" /\ l.m \in Nat /\ l.n \in Nat /\ l.k \in Positive
    BY <2>3 DEF TiledLaunch
  <2> HIDE DEF l
  <2>5. Gridded(l)
    BY <2>4 DEF Gridded, GridKernels, Formed, RowKernels
  <2> QED
    BY <2>1, <2>5 DEF l
<1>4. CASE c.kind = "tune"
  <2>1. GridLaunches(c, T) = TimedLaunches(c, T[<<"measured">>])
    BY <1>4 DEF GridLaunches
  <2>2. ASSUME NEW i \in T[<<"measured">>] PROVE Gridded(MatmulLaunch(c, TunedKernel, c.configs[i]))
    <3>1. i \in Fitting(c)
      BY <1>4 DEF Chosen
    <3> QED
      BY <1>4, <3>1, TunedFits, GriddedMatmul
  <2> QED
    BY <2>1, <2>2 DEF TimedLaunches
<1>5. CASE c.kind = "softmax"
  <2>1. GridLaunches(c, T) = {SoftmaxLaunch(c)}
    BY <1>5 DEF GridLaunches
  <2>2. c.rows \in Positive /\ c.cols \in Nat
    BY <1>1, <1>5 DEF WellFormed, Positive
  <2> DEFINE l == SoftmaxLaunch(c)
  <2>3. l.kernel = "softmax" /\ l.rows = c.rows /\ l.cols = c.cols /\ l.width = NextPowerOf2(c.cols)
    BY DEF SoftmaxLaunch
  <2>4. l.width \in Nat /\ l.cols <= l.width
    BY <2>2, <2>3, NextPowerIs
  <2> HIDE DEF l
  <2>5. Gridded(l)
    BY <2>2, <2>3, <2>4 DEF Gridded, GridKernels, Formed, RowKernels
  <2> QED
    BY <2>1, <2>5 DEF l
<1>6. CASE c.kind = "add"
  <2>1. GridLaunches(c, T) = {MatAddLaunch(c)}
    BY <1>6 DEF GridLaunches
  <2>2. c.rows \in Positive /\ c.cols \in Positive /\ c.rows \in Nat /\ c.cols \in Nat
    BY <1>1, <1>6 DEF WellFormed, Positive
  <2> DEFINE l == MatAddLaunch(c)
  <2>3. l.kernel = "add" /\ l.n = c.cols /\ l.blocks \in Nat
    BY <2>2, ProductNat DEF MatAddLaunch
  <2> HIDE DEF l
  <2>4. Gridded(l)
    BY <2>2, <2>3 DEF Gridded, GridKernels, Formed, RowKernels
  <2> QED
    BY <2>1, <2>4 DEF l
<1>7. CASE c.kind = "vector"
  <2>1. GridLaunches(c, T) = {VectorAddLaunch(c)}
    BY <1>7 DEF GridLaunches
  <2>2. c.tile \in Positive /\ c.cols \in Nat
    BY <1>1, <1>7 DEF WellFormed, Positive
  <2> DEFINE l == VectorAddLaunch(c)
  <2>3. l.kernel = "vector" /\ l.tile = c.tile /\ l.blocks = CDiv(c.cols, c.tile)
    BY DEF VectorAddLaunch
  <2>4. l.blocks \in Nat
    BY <2>2, <2>3, Tiles DEF CDiv, CeilDiv
  <2> HIDE DEF l
  <2>5. Gridded(l)
    BY <2>2, <2>3, <2>4 DEF Gridded, GridKernels, Formed, RowKernels
  <2> QED
    BY <2>1, <2>5 DEF l
<1> QED
  BY <1>2, <1>3, <1>4, <1>5, <1>6, <1>7 DEF GridKinds

\* What a matrix product, a softmax and a sum have stored when they have given all.
LEMMA MatmulGiven ==
  ASSUME NEW M, NEW l, l.kernel = "matmul", Ordered(l), Given(M, l), NEW x \in 0 .. l.m - 1, NEW y \in 0 .. l.n - 1
  PROVE  <<"C", x, y>> \in DOMAIN M
<1>1. PICK t \in 0 .. TotalTiles(l) - 1 : Order(l, t) = <<x, y>>
  BY OrderIs
<1> DEFINE b == t % Blocks
           r == t \div Blocks
           j == r * l.k + (l.k - 1)
<1>2. l.k \in Positive /\ l.k \in Nat /\ l.k > 0 /\ Blocks \in Positive /\ Blocks \in Nat
  BY DeviceSizes DEF Ordered, Positive
<1>3. TotalTiles(l) \in Nat /\ t \in Nat /\ t < TotalTiles(l)
  <2>1. TotalTiles(l) \in Nat
    BY OrderIs
  <2> QED
    BY <2>1
<1>4. b \in 0 .. Blocks - 1 /\ r \in Nat /\ t = r * Blocks + b
  BY <1>2, <1>3, QuotientOf
<1>5. TilesOf(l, b) \in Nat /\ (r < TilesOf(l, b) <=> b + r * Blocks < TotalTiles(l))
  <2> HIDE DEF b, r
  <2> QED
    BY <1>2, <1>4, BlockOfTile
<1> HIDE DEF b, r
<1>6. r * Blocks \in Nat /\ b \in Nat /\ r * l.k \in Nat
  BY <1>2, <1>4, ProductNat
<1>7. r < TilesOf(l, b)
  BY <1>3, <1>4, <1>5, <1>6
<1>8. (r + 1) * l.k <= TilesOf(l, b) * l.k /\ (r + 1) * l.k = r * l.k + l.k /\ TilesOf(l, b) * l.k \in Nat
  <2>1. r + 1 \in Nat /\ r + 1 <= TilesOf(l, b)
    BY <1>4, <1>5, <1>7
  <2> QED
    BY <1>2, <1>4, <1>5, <2>1, ProductMonotone, ProductNat
<1>9. j \in Nat /\ j < MatmulRounds(l, b)
  BY <1>2, <1>6, <1>8 DEF MatmulRounds
<1>10. j \div l.k = r /\ j % l.k = l.k - 1
  <2> DEFINE k == l.k
             i == k - 1
  <2>1. k \in Positive /\ i \in 0 .. k - 1 /\ j = r * k + i
    BY <1>2
  <2> HIDE DEF i, k, j
  <2>2. j \in Nat /\ r \in Nat
    BY <1>4, <1>9
  <2>3. j \div k = r /\ j % k = i
    BY <2>1, <2>2, QuotientIs
  <2> QED
    BY <2>3 DEF i, k
<1> HIDE DEF j
<1>11. TileAt(l, b, j) = <<x, y>>
  <2>1. b + r * Blocks = t
    BY <1>4, <1>6
  <2> QED
    BY <1>1, <1>10, <2>1 DEF TileAt, Order
<1>12. <<"C", x, y>> \in DOMAIN RoundStores(l, b, <<>>, j)
  <2>1. RoundStores(l, b, <<>>, j) = MatmulStore(l, b, <<>>, j)
    BY DEF RoundStores
  <2>2. x < l.m /\ y < l.n
    BY DEF Ordered, Positive
  <2> QED
    BY <1>10, <1>11, <2>1, <2>2 DEF MatmulStore
<1>13. b \in GridOf(l) /\ Rounds(l, b) = MatmulRounds(l, b)
  BY <1>4 DEF GridOf, Rounds, Flash
<1>14. MatmulRounds(l, b) \in Nat
  BY <1>8 DEF MatmulRounds
<1>15. j \in 0 .. MatmulRounds(l, b) - 1
  BY <1>9, <1>14
<1> QED
  BY <1>12, <1>13, <1>15 DEF Given, Settled, Paid

LEMMA TiledGiven ==
  ASSUME NEW M, NEW l, l.kernel = "tiled", l.k \in Positive, Given(M, l), NEW b \in TiledGrid(l)
  PROVE  <<"C", b[1], b[2]>> \in DOMAIN M
<1>1. b \in GridOf(l) /\ Rounds(l, b) = l.k
  BY DEF GridOf, Rounds, Flash
<1>2. l.k - 1 \in 0 .. l.k - 1
  BY DEF Positive
<1>3. RoundStores(l, b, <<>>, l.k - 1) = TiledStore(l, b, <<>>, l.k - 1)
  BY DEF RoundStores
<1>4. <<"C", b[1], b[2]>> \in DOMAIN RoundStores(l, b, <<>>, l.k - 1)
  BY <1>3 DEF TiledStore
<1> QED
  BY <1>1, <1>2, <1>4 DEF Given, Settled, Paid

LEMMA SoftmaxGiven ==
  ASSUME NEW M, NEW l, l.kernel = "softmax", l.rows \in Positive, Given(M, l), NEW r \in 0 .. l.rows - 1
  PROVE  <<"S", r>> \in DOMAIN M
<1> DEFINE p == SoftmaxPrograms(l)
           b == r % p
           j == r \div p
<1>1. p \in Positive /\ l.rows \in Nat /\ r \in Nat /\ r < l.rows
  BY SoftmaxFacts DEF Positive
<1>2. b \in 0 .. p - 1 /\ j \in Nat /\ r = j * p + b
  <2> HIDE DEF p
  <2> QED
    BY <1>1, QuotientOf
<1>3. SoftmaxRounds(l, b) \in Nat /\ (j < SoftmaxRounds(l, b) <=> b + j * p < l.rows)
  <2> HIDE DEF b, j
  <2> QED
    BY <1>2, SoftmaxFacts
<1> HIDE DEF p, b, j
<1>4. p \in Nat /\ b \in Nat /\ j * p \in Nat /\ b + j * p = r
  BY <1>1, <1>2, ProductNat DEF Positive
<1>5. j \in 0 .. SoftmaxRounds(l, b) - 1
  BY <1>1, <1>2, <1>3, <1>4
<1>6. b \in GridOf(l) /\ Rounds(l, b) = SoftmaxRounds(l, b)
  BY <1>2 DEF GridOf, Rounds, Flash, p
<1>7. <<"S", r>> \in DOMAIN RoundStores(l, b, <<>>, j)
  <2>1. RoundStores(l, b, <<>>, j) = SoftmaxStore(l, b, j)
    BY DEF RoundStores
  <2> QED
    BY <1>4, <2>1 DEF SoftmaxStore, p
<1> QED
  BY <1>5, <1>6, <1>7 DEF Given, Settled, Paid

LEMMA SumsOfMatrices ==
  ASSUME NEW M, NEW c \in Calls, c.kind = "add", Given(M, MatAddLaunch(c)), AllRight(M, {MatAddLaunch(c)})
  PROVE  {a \in DOMAIN M : a[1] = "sum"} = {"sum"} \X (0 .. c.rows - 1) \X (0 .. c.cols - 1)
<1> DEFINE l == MatAddLaunch(c)
<1>1. WellFormed(c)
  BY DeviceAssumption
<1>2. c.rows \in Nat /\ c.cols \in Positive
  BY <1>1 DEF WellFormed, Positive
<1>3. l.kernel = "add" /\ l.n = c.cols /\ l.blocks = c.rows * c.cols
  BY DEF MatAddLaunch
<1> HIDE DEF l
<1>4. GridOf(l) = 0 .. c.rows * c.cols - 1 /\ \A b : EndAt(l, b) = {<<"sum", b \div c.cols, b % c.cols>>}
  BY <1>3 DEF GridOf, Flash, EndAt, MatAddStore
<1>5. /\ \A t \in 0 .. c.rows * c.cols - 1 : t \div c.cols \in 0 .. c.rows - 1 /\ t % c.cols \in 0 .. c.cols - 1
      /\ \A x \in 0 .. c.rows - 1, y \in 0 .. c.cols - 1 :
           \E t \in 0 .. c.rows * c.cols - 1 : t \div c.cols = x /\ t % c.cols = y
  BY <1>2, RasterOrder
<1>6. ASSUME NEW a \in DOMAIN M, a[1] = "sum" PROVE a \in {"sum"} \X (0 .. c.rows - 1) \X (0 .. c.cols - 1)
  <2>1. Right(l, a, M[a])
    BY <1>6 DEF AllRight, l
  <2>2. \E b \in GridOf(l) : a \in EndAt(l, b)
    BY <1>3, <2>1 DEF Right
  <2>3. PICK b \in 0 .. c.rows * c.cols - 1 : a = <<"sum", b \div c.cols, b % c.cols>>
    BY <1>4, <2>2
  <2>4. b \div c.cols \in 0 .. c.rows - 1 /\ b % c.cols \in 0 .. c.cols - 1
    BY <1>5
  <2> QED
    BY <2>3, <2>4
<1>7. ASSUME NEW x \in 0 .. c.rows - 1, NEW y \in 0 .. c.cols - 1 PROVE <<"sum", x, y>> \in DOMAIN M
  <2>1. PICK t \in 0 .. c.rows * c.cols - 1 : t \div c.cols = x /\ t % c.cols = y
    BY <1>5
  <2>2. <<"sum", x, y>> \in EndAt(l, t) /\ t \in GridOf(l)
    BY <1>4, <2>1
  <2>3. \A b \in GridOf(l) : EndAt(l, b) \subseteq DOMAIN M
    BY DEF Given, Settled, l
  <2> QED
    BY <2>2, <2>3
<1>8. \A a \in {"sum"} \X (0 .. c.rows - 1) \X (0 .. c.cols - 1) : a \in DOMAIN M /\ a[1] = "sum"
  <2> TAKE a \in {"sum"} \X (0 .. c.rows - 1) \X (0 .. c.cols - 1)
  <2>1. a = <<"sum", a[2], a[3]>> /\ a[2] \in 0 .. c.rows - 1 /\ a[3] \in 0 .. c.cols - 1
    OBVIOUS
  <2> QED
    BY <1>7, <2>1
<1> QED
  BY <1>6, <1>8

LEMMA SumsOfVectors ==
  ASSUME NEW M, NEW c \in Calls, c.kind = "vector", Given(M, VectorAddLaunch(c)), AllRight(M, {VectorAddLaunch(c)})
  PROVE  {a \in DOMAIN M : a[1] = "sum"} = {"sum"} \X (0 .. c.cols - 1)
<1> DEFINE l == VectorAddLaunch(c)
           t == c.tile
           n == c.cols
<1>1. WellFormed(c)
  BY DeviceAssumption
<1>2. n \in Nat /\ t \in Positive /\ t \in Nat /\ t > 0
  BY <1>1 DEF WellFormed, Positive
<1>3. l.kernel = "vector" /\ l.size = n /\ l.tile = t /\ l.blocks = CDiv(n, t)
  BY DEF VectorAddLaunch
<1> HIDE DEF l
<1>4. GridOf(l) = 0 .. CDiv(n, t) - 1
  BY <1>3 DEF GridOf, Flash
<1>5. \A b : EndAt(l, b) = {<<"sum", i>> : i \in {i \in b * t .. (b + 1) * t - 1 : i < n}}
  BY <1>3 DEF EndAt, VectorAddStore
<1> HIDE DEF t, n
<1>6. CDiv(n, t) \in Nat /\ \A j \in Nat : j < CDiv(n, t) <=> j * t < n
  BY <1>2, Tiles DEF CDiv, CeilDiv
<1>7. ASSUME NEW a \in DOMAIN M, a[1] = "sum" PROVE a \in {"sum"} \X (0 .. n - 1)
  <2>1. Right(l, a, M[a])
    BY <1>7 DEF AllRight, l
  <2>2. \E b \in GridOf(l) : a \in EndAt(l, b)
    BY <1>3, <2>1 DEF Right
  <2>3. PICK b \in 0 .. CDiv(n, t) - 1 : a \in EndAt(l, b)
    BY <1>4, <2>2
  <2>4. PICK i \in b * t .. (b + 1) * t - 1 : a = <<"sum", i>> /\ i < n
    BY <1>5, <2>3
  <2>5. b \in Nat /\ b * t \in Nat
    BY <1>2, <2>3, ProductNat
  <2>6. i \in 0 .. n - 1
    BY <1>2, <2>4, <2>5
  <2> QED
    BY <2>4, <2>6
<1>8. ASSUME NEW i \in 0 .. n - 1 PROVE <<"sum", i>> \in DOMAIN M
  <2> DEFINE b == i \div t
  <2>1. i \in Nat /\ b \in Nat /\ i % t \in 0 .. t - 1 /\ i = b * t + (i % t)
    BY <1>2, QuotientOf
  <2> HIDE DEF b
  <2>2. b * t \in Nat /\ (b + 1) * t = b * t + t
    BY <1>2, <2>1, ProductNat
  <2>3. i \in b * t .. (b + 1) * t - 1 /\ b * t < n /\ i < n
    BY <1>2, <2>1, <2>2
  <2>4. b \in GridOf(l)
    BY <1>4, <1>6, <2>1, <2>3
  <2>5. <<"sum", i>> \in EndAt(l, b)
    BY <1>5, <2>3
  <2>6. \A x \in GridOf(l) : EndAt(l, x) \subseteq DOMAIN M
    BY DEF Given, Settled, l
  <2> QED
    BY <2>4, <2>5, <2>6
<1>9. \A a \in {"sum"} \X (0 .. n - 1) : a \in DOMAIN M /\ a[1] = "sum"
  <2> TAKE a \in {"sum"} \X (0 .. n - 1)
  <2>1. a = <<"sum", a[2]>> /\ a[2] \in 0 .. n - 1
    OBVIOUS
  <2> QED
    BY <1>8, <2>1
<1> QED
  BY <1>7, <1>9 DEF n

-----------------------------------------------------------------------------
(* The calls' launches, from the first to the last *)

Gridding == stage = "launched" /\ call.kind \in GridKinds
GridInv == Gridding => Chosen(call, tuned) /\ Tiling(GridLaunches(call, tuned))

LEMMA GridMoves ==
  ASSUME StreamInv, GridInv, call' = call, stage' = stage, tuned' = tuned,
         \A L : Tiling(L) => Tiling(L)'
  PROVE  GridInv'
<1> SUFFICES ASSUME Gridding' PROVE Chosen(call', tuned') /\ Tiling(GridLaunches(call, tuned))'
  BY DEF GridInv
<1>1. Gridding
  BY DEF Gridding
<1>2. PICK L : L = GridLaunches(call, tuned)
  OBVIOUS
<1>3. Tiling(L)'
  BY <1>1, <1>2 DEF GridInv
<1>4. L = GridLaunches(call', tuned')
  BY <1>2
<1>5. Tiling(GridLaunches(call, tuned))'
  BY <1>3, <1>4
<1> QED
  BY <1>1, <1>5 DEF GridInv

\* A call starts with its launches, all of them, on an idle stream and with no tile stored.
LEMMA GridStarts ==
  ASSUME StreamInv, NEW c \in Calls, c.kind \in GridKinds, call' = c, Chosen(c, tuned'), queue = <<>>,
         queue' \in Seq(GridLaunches(c, tuned')), \A l \in GridLaunches(c, tuned') : \E i \in DOMAIN queue' : queue'[i] = l,
         mem' = Cache, resident' = resident, done' = done
  PROVE  GridInv'
<1>1. PICK L : L = GridLaunches(c, tuned')
  OBVIOUS
<1>2. DOMAIN resident' = {} /\ done' = {}
  BY DEF StreamInv
<1>3. \A l \in L : Gridded(l)
  BY <1>1, LaunchesGridded
<1>4. AllRight(mem', L)
  BY DEF AllRight, Cache
<1>5. Tiling(L)'
  BY <1>1, <1>2, <1>3, <1>4 DEF Tiling
<1>6. L = GridLaunches(call', tuned')
  BY <1>1
<1>7. Tiling(GridLaunches(call, tuned))'
  BY <1>5, <1>6
<1> QED
  BY <1>7 DEF GridInv

LEMMA TuneStarts ==
  ASSUME StreamInv, NEW c \in Calls, Tune(c)
  PROVE  GridInv'
<1>1. call' = c /\ c.kind = "tune" /\ queue = <<>> /\ mem' = Cache /\ resident' = resident /\ done' = done
  BY DEF Tune, Make, Submit
<1>2. PICK S \in SUBSET Fitting(c) : queue' = Timed(c, S) /\ tuned' = Entry(<<"measured">>, S) ++ tuned
  BY DEF Tune, Submit, Timed, Fitting
<1>3. tuned'[<<"measured">>] = S
  BY <1>2 DEF ++, Entry
<1>4. GridLaunches(c, tuned') = TimedLaunches(c, S) /\ Chosen(c, tuned')
  BY <1>1, <1>2, <1>3 DEF GridLaunches, Chosen
<1>5. S \in SUBSET (DOMAIN c.configs)
  BY <1>2 DEF Fitting
<1>6. queue' \in Seq(TimedLaunches(c, S)) /\ \A l \in TimedLaunches(c, S) : \E i \in DOMAIN queue' : queue'[i] = l
  BY <1>1, <1>2, <1>5, TimedIs
<1>7. c.kind \in GridKinds
  BY <1>1 DEF GridKinds
<1> QED
  BY <1>1, <1>4, <1>6, <1>7, GridStarts

LEMMA BenchmarkStarts ==
  ASSUME StreamInv, NEW c \in Calls, Benchmark(c) \/ Elementwise(c)
  PROVE  GridInv'
<1>1. call' = c /\ queue = <<>> /\ mem' = Cache /\ resident' = resident /\ done' = done /\ tuned' = tuned
      /\ c.kind \in GridKinds /\ c.kind # "tune"
  BY DEF Benchmark, Elementwise, Make, Submit, GridKinds
<1>2. \E l : GridLaunches(c, tuned') = {l} /\ Chosen(c, tuned') /\ (queue' = <<l>> \/ queue' = [i \in 1 .. 2 |-> l])
  <2>1. CASE c.kind = "matmul"
    BY <2>1 DEF Benchmark, Elementwise, Make, Submit, GridLaunches, Chosen
  <2>2. CASE c.kind = "tiled"
    BY <2>2 DEF Benchmark, Elementwise, Make, Submit, GridLaunches, Chosen
  <2>3. CASE c.kind = "softmax"
    BY <2>3 DEF Benchmark, Elementwise, Make, Submit, GridLaunches, Chosen
  <2>4. CASE c.kind = "add"
    BY <2>4 DEF Benchmark, Elementwise, Make, Submit, GridLaunches, Chosen
  <2>5. CASE c.kind = "vector"
    BY <2>5 DEF Benchmark, Elementwise, Make, Submit, GridLaunches, Chosen
  <2> QED
    BY <1>1, <2>1, <2>2, <2>3, <2>4, <2>5 DEF GridKinds
<1>3. PICK l : GridLaunches(c, tuned') = {l} /\ Chosen(c, tuned') /\ (queue' = <<l>> \/ queue' = [i \in 1 .. 2 |-> l])
  BY <1>2
<1>4. queue' \in Seq({l}) /\ 1 \in DOMAIN queue' /\ queue'[1] = l
  <2> DEFINE one == <<l>>
             two == [i \in 1 .. 2 |-> l]
  <2>1. one \in Seq({l}) /\ 1 \in DOMAIN one /\ one[1] = l
    OBVIOUS
  <2>2. two \in Seq({l}) /\ 1 \in DOMAIN two /\ two[1] = l
    OBVIOUS
  <2>3. queue' = one \/ queue' = two
    BY <1>3
  <2> HIDE DEF one, two
  <2> QED
    BY <2>1, <2>2, <2>3
<1>5. \A m \in {l} : \E i \in DOMAIN queue' : queue'[i] = m
  BY <1>4
<1> QED
  BY <1>1, <1>3, <1>4, <1>5, GridStarts

LEMMA GridStep ==
  ASSUME StreamInv, StageInv, GridInv, DeviceNext
  PROVE  GridInv'
<1>1. ASSUME NEW b, queue # <<>>, Issue(b) \/ Iterate(b) \/ Retire(b) PROVE GridInv'
  <2>1. call' = call /\ stage' = stage /\ tuned' = tuned
    BY <1>1 DEF Issue, Iterate, Retire
  <2>2. \A L : Tiling(L) => Tiling(L)'
    BY <1>1, TilingIssue, TilingIterate, TilingRetire
  <2> QED
    BY <2>1, <2>2, GridMoves
<1>2. CASE NextLaunch
  <2>1. call' = call /\ stage' = stage /\ tuned' = tuned
    BY <1>2 DEF NextLaunch
  <2>2. \A L : Tiling(L) => Tiling(L)'
    BY <1>2, TilingNextLaunch
  <2> QED
    BY <2>1, <2>2, GridMoves
<1>3. CASE Backward \/ Return \/ BeginDecoding \/ Replay \/ EagerStep \/ EndDecoding
  <2>1. ~ Gridding'
    BY <1>3 DEF StageInv, Backward, Return, BeginDecoding, Replay, EagerStep, EndDecoding, More, Gridding, GridKinds
  <2> QED
    BY <2>1 DEF GridInv
<1>4. ASSUME NEW c \in Calls, Infer(c) \/ Forward(c) \/ Study(c) \/ Gpt(c) \/ Generate(c) \/ Attend(c) PROVE GridInv'
  <2>1. ~ Gridding'
    BY <1>4 DEF Infer, Forward, Study, Gpt, Generate, Attend, Make, Gridding, GridKinds
  <2> QED
    BY <2>1 DEF GridInv
<1>5. ASSUME NEW c \in Calls, Tune(c) \/ Benchmark(c) \/ Elementwise(c) PROVE GridInv'
  BY <1>5, TuneStarts, BenchmarkStarts
<1> QED
  BY <1>1, <1>2, <1>3, <1>4, <1>5 DEF DeviceNext

\* What starts such a call is formed.
LEMMA FormedGrids ==
  ASSUME StreamInv, ApartInv, GridInv', NEW c \in Calls, Tune(c) \/ Benchmark(c) \/ Elementwise(c)
  PROVE  ApartInv'
<1>1. queue = <<>> /\ call' = c /\ c.kind \in GridKinds /\ stage' = "launched" /\ resident' = resident /\ written' = written
  BY DEF Tune, Benchmark, Elementwise, Make, Submit, GridKinds
<1>2. Gridding'
  BY <1>1 DEF Gridding
<1>3. PICK L : L = GridLaunches(call', tuned')
  OBVIOUS
<1>4. Tiling(L)'
  <2>1. Tiling(GridLaunches(call, tuned))'
    BY <1>2 DEF GridInv
  <2> QED
    BY <1>3, <2>1
<1>5. queue' \in Seq(L) /\ \A l \in L : Formed(l)
  BY <1>4 DEF Tiling, Gridded
<1>6. queue = <<>> /\ resident' = resident /\ written' = written
  BY <1>1
<1> QED
  BY <1>5, <1>6, ApartSubmits

LEMMA ApartStep ==
  ASSUME StreamInv, StageInv, CalledInv, ApartInv, DeviceNext, AttendInv', TrainInv', GridInv'
  PROVE  ApartInv'
<1>1. ASSUME NEW b, queue # <<>>, Issue(b) \/ Iterate(b) \/ Retire(b) PROVE ApartInv'
  BY <1>1, ApartIssue, ApartIterate, ApartRetire
<1>2. CASE NextLaunch
  BY <1>2, ApartNextLaunch
<1>3. CASE Return \/ BeginDecoding \/ EndDecoding
  <2>1. queue' = queue /\ resident' = resident /\ written' = written
    BY <1>3 DEF Return, BeginDecoding, EndDecoding, stream
  <2> QED
    BY <2>1, ApartStands
<1>4. CASE Backward \/ Replay \/ EagerStep
  <2>1. Calls # {}
    <3>1. stage # "idle"
      BY <1>4 DEF Backward, Replay, EagerStep, More
    <3> QED
      BY <3>1 DEF CalledInv
  <2> QED
    BY <1>4, <2>1, FormedTraining, FormedGenerating
<1>5. ASSUME NEW c \in Calls, Infer(c) \/ Study(c) \/ Gpt(c) PROVE ApartInv'
  BY <1>5, FormedAttending
<1>6. ASSUME NEW c \in Calls, Forward(c) PROVE ApartInv'
  BY <1>6, FormedTraining
<1>7. ASSUME NEW c \in Calls, Generate(c) PROVE ApartInv'
  BY <1>7, FormedGenerating
<1>8. ASSUME NEW c \in Calls, Attend(c) PROVE ApartInv'
  BY <1>8, FormedServing
<1>9. ASSUME NEW c \in Calls, Tune(c) \/ Benchmark(c) \/ Elementwise(c) PROVE ApartInv'
  BY <1>9, FormedGrids
<1> QED
  BY <1>1, <1>2, <1>3, <1>4, <1>5, <1>6, <1>7, <1>8, <1>9 DEF DeviceNext

\* When the stream is empty, all is given.
LEMMA AllGiven ==
  ASSUME GridInv, Gridding, queue = <<>>
  PROVE  /\ Chosen(call, tuned) /\ AllRight(mem, GridLaunches(call, tuned))
         /\ \A l \in GridLaunches(call, tuned) : Given(mem, l) /\ Gridded(l)
<1> DEFINE L == GridLaunches(call, tuned)
<1>1. Chosen(call, tuned) /\ Tiling(L)
  BY DEF GridInv
<1> HIDE DEF L
<1>2. AllRight(mem, L) /\ \A l \in L : Given(mem, l) /\ Gridded(l)
  BY <1>1 DEF Tiling
<1> QED
  BY <1>1, <1>2 DEF L

\* The tiles of one product, when others with the depths of their tiles were stored over it.
LEMMA ProductCovered ==
  ASSUME NEW L, NEW depths, AllRight(mem, L), NEW l \in L, l.kernel = "matmul", Ordered(l), Given(mem, l),
         \A x \in L : x.kernel = "matmul" /\ \E d \in depths : x.k = CDiv(call.depth, d)
  PROVE  Covered(l.m, l.n, depths)
<1> SUFFICES ASSUME NEW t \in (0 .. l.m - 1) \X (0 .. l.n - 1)
             PROVE  /\ <<"C", t[1], t[2]>> \in DOMAIN mem
                    /\ \E d \in depths : mem[<<"C", t[1], t[2]>>] = [i \in 1 .. CDiv(call.depth, d) |-> i - 1]
  BY DEF Covered
<1> DEFINE a == <<"C", t[1], t[2]>>
<1>1. t[1] \in 0 .. l.m - 1 /\ t[2] \in 0 .. l.n - 1
  OBVIOUS
<1>2. a \in DOMAIN mem
  BY <1>1, MatmulGiven
<1>3. a[1] = "C"
  OBVIOUS
<1> HIDE DEF a
<1>4. PICK x \in L : Right(x, a, mem[a])
  BY <1>2, <1>3 DEF AllRight
<1>5. x.kernel = "matmul" /\ \E d \in depths : x.k = CDiv(call.depth, d)
  OBVIOUS
<1>6. mem[a] = Steps(x.k)
  BY <1>4, <1>5 DEF Right
<1> QED
  BY <1>2, <1>5, <1>6 DEF Steps, a

LEMMA MatmulMeans ==
  ASSUME CalledInv, GridInv, Ended("matmul")
  PROVE  Covered(Parts(call.kernel.padded, call.rows, call.cfg[1]), Parts(call.kernel.padded, call.cols, call.cfg[2]), {call.cfg[3]})
<1>1. call \in Calls /\ call.kind = "matmul" /\ Gridding /\ queue = <<>>
  BY DEF Ended, CalledInv, Gridding, GridKinds
<1>2. WellFormed(call)
  BY <1>1, DeviceAssumption
<1> DEFINE l == MatmulLaunch(call, call.kernel, call.cfg)
           L == {l}
<1>3. GridLaunches(call, tuned) = L
  BY <1>1 DEF GridLaunches
<1>4. Chosen(call, tuned) /\ AllRight(mem, L) /\ Given(mem, l)
  BY <1>1, <1>3, AllGiven
<1>5. /\ {call.rows, call.cols, call.depth} \subseteq Positive /\ call.strip \in Nat
      /\ call.kernel \in MatmulKernels /\ MatmulFits(call, call.kernel, call.cfg) /\ Fits(call, call.kernel, call.cfg)
  BY <1>1, <1>2, <1>4 DEF WellFormed, Chosen
<1>6. /\ Ordered(l) /\ l.kernel = "matmul"
      /\ l.m = Parts(call.kernel.padded, call.rows, call.cfg[1]) /\ l.n = Parts(call.kernel.padded, call.cols, call.cfg[2])
      /\ l.k = CDiv(call.depth, call.cfg[3])
  BY <1>5, MatmulOrdered
<1>7. l \in L /\ \A x \in L : x = l
  OBVIOUS
<1> HIDE DEF l, L
<1>8. \A x \in L : x.kernel = "matmul" /\ \E d \in {call.cfg[3]} : x.k = CDiv(call.depth, d)
  BY <1>6, <1>7
<1>9. Covered(l.m, l.n, {call.cfg[3]})
  BY <1>4, <1>6, <1>7, <1>8, ProductCovered
<1> QED
  BY <1>6, <1>9

LEMMA TuneMeans ==
  ASSUME CalledInv, GridInv, Ended("tune"), NEW i \in tuned[<<"measured">>]
  PROVE  Covered(call.rows \div call.configs[i][1], call.cols \div call.configs[i][2],
                 {call.configs[j][3] : j \in tuned[<<"measured">>]})
<1> DEFINE S == tuned[<<"measured">>]
           launch(j) == MatmulLaunch(call, TunedKernel, call.configs[j])
           L == {launch(j) : j \in S}
           depths == {call.configs[j][3] : j \in S}
<1>1. call \in Calls /\ call.kind = "tune" /\ Gridding /\ queue = <<>>
  BY DEF Ended, CalledInv, Gridding, GridKinds
<1>2. GridLaunches(call, tuned) = L
  BY <1>1 DEF GridLaunches, TimedLaunches
<1>3. Chosen(call, tuned) /\ AllRight(mem, L) /\ \A l \in L : Given(mem, l)
  <2> HIDE DEF L
  <2> QED
    BY <1>1, <1>2, AllGiven
<1>4. \A j \in S : j \in Fitting(call)
  BY <1>1, <1>3 DEF Chosen
<1>5. ASSUME NEW j \in S
      PROVE  /\ Ordered(launch(j)) /\ launch(j).kernel = "matmul"
             /\ launch(j).m = call.rows \div call.configs[j][1] /\ launch(j).n = call.cols \div call.configs[j][2]
             /\ launch(j).k = CDiv(call.depth, call.configs[j][3])
  <2> DEFINE cfg == call.configs[j]
  <2>1. /\ {call.rows, call.cols, call.depth} \subseteq Positive /\ call.strip \in Nat
        /\ TunedKernel \in MatmulKernels /\ MatmulFits(call, TunedKernel, cfg) /\ Fits(call, TunedKernel, cfg)
    BY <1>1, <1>4, TunedFits
  <2> HIDE DEF cfg
  <2> DEFINE l == MatmulLaunch(call, TunedKernel, cfg)
  <2>2. /\ Ordered(l) /\ l.kernel = "matmul"
        /\ l.m = Parts(TunedKernel.padded, call.rows, cfg[1]) /\ l.n = Parts(TunedKernel.padded, call.cols, cfg[2])
        /\ l.k = CDiv(call.depth, cfg[3])
    BY <2>1, MatmulOrdered
  <2>3. \A n, t : Parts(TunedKernel.padded, n, t) = n \div t
    BY DEF Parts, TunedKernel
  <2>4. launch(j) = l
    BY DEF cfg
  <2> HIDE DEF l, launch
  <2> QED
    BY <2>2, <2>3, <2>4 DEF cfg
<1> HIDE DEF launch
<1>6. \A x \in L : x.kernel = "matmul" /\ \E d \in depths : x.k = CDiv(call.depth, d)
  BY <1>5
<1>7. launch(i) \in L /\ Given(mem, launch(i)) /\ Ordered(launch(i)) /\ launch(i).kernel = "matmul"
  BY <1>3, <1>5
<1> HIDE DEF L, depths
<1>8. Covered(launch(i).m, launch(i).n, depths)
  BY <1>3, <1>6, <1>7, ProductCovered
<1> QED
  BY <1>5, <1>8 DEF depths

LEMMA TiledMeans ==
  ASSUME CalledInv, GridInv, Ended("tiled")
  PROVE  Covered(call.rows \div call.tile, call.cols \div call.tile, {call.tile})
<1>1. call \in Calls /\ call.kind = "tiled" /\ Gridding /\ queue = <<>>
  BY DEF Ended, CalledInv, Gridding, GridKinds
<1>2. WellFormed(call)
  BY <1>1, DeviceAssumption
<1> DEFINE l == TiledLaunch(call)
<1>3. GridLaunches(call, tuned) = {l}
  BY <1>1 DEF GridLaunches
<1>4. AllRight(mem, {l}) /\ Given(mem, l) /\ Gridded(l)
  BY <1>1, <1>3, AllGiven
<1>5. l.kernel = "tiled" /\ l.m = call.rows \div call.tile /\ l.n = call.cols \div call.tile /\ l.k = call.depth \div call.tile
  BY DEF TiledLaunch
<1>6. l.k = CDiv(call.depth, call.tile) /\ l.k \in Positive
  BY <1>1, <1>2, <1>5, Divides DEF WellFormed, CDiv
<1> HIDE DEF l
<1>7. ASSUME NEW t \in (0 .. l.m - 1) \X (0 .. l.n - 1)
      PROVE  <<"C", t[1], t[2]>> \in DOMAIN mem /\ mem[<<"C", t[1], t[2]>>] = Steps(l.k)
  <2> DEFINE a == <<"C", t[1], t[2]>>
  <2>1. a \in DOMAIN mem
    BY <1>4, <1>5, <1>6, TiledGiven DEF TiledGrid
  <2>2. a[1] = "C"
    OBVIOUS
  <2> HIDE DEF a
  <2>3. Right(l, a, mem[a])
    BY <1>4, <2>1, <2>2 DEF AllRight
  <2>4. mem[a] = Steps(l.k)
    BY <1>5, <2>3 DEF Right
  <2> QED
    BY <2>1, <2>4 DEF a
<1>8. Covered(l.m, l.n, {call.tile})
  BY <1>6, <1>7 DEF Covered, Steps
<1> QED
  BY <1>5, <1>8

LEMMA SoftmaxMeans ==
  ASSUME CalledInv, GridInv, Ended("softmax"), NEW r \in 0 .. call.rows - 1
  PROVE  <<"S", r>> \in DOMAIN mem /\ mem[<<"S", r>>] = 0 .. call.cols - 1
<1>1. call \in Calls /\ call.kind = "softmax" /\ Gridding /\ queue = <<>>
  BY DEF Ended, CalledInv, Gridding, GridKinds
<1>2. WellFormed(call)
  BY <1>1, DeviceAssumption
<1> DEFINE l == SoftmaxLaunch(call)
           a == <<"S", r>>
<1>3. GridLaunches(call, tuned) = {l}
  BY <1>1 DEF GridLaunches
<1>4. AllRight(mem, {l}) /\ Given(mem, l)
  BY <1>1, <1>3, AllGiven
<1>5. l.kernel = "softmax" /\ l.rows = call.rows /\ l.cols = call.cols /\ call.rows \in Positive
  BY <1>1, <1>2 DEF SoftmaxLaunch, WellFormed
<1> HIDE DEF l
<1>6. a \in DOMAIN mem
  BY <1>4, <1>5, SoftmaxGiven
<1>7. a[1] = "S"
  OBVIOUS
<1> HIDE DEF a
<1>8. Right(l, a, mem[a])
  BY <1>4, <1>6, <1>7 DEF AllRight
<1>9. mem[a] = 0 .. call.cols - 1
  BY <1>5, <1>8 DEF Right
<1> QED
  BY <1>6, <1>9 DEF a

LEMMA SumsMean ==
  ASSUME CalledInv, GridInv
  PROVE  /\ Ended("add") => Sums = {"sum"} \X (0 .. call.rows - 1) \X (0 .. call.cols - 1)
         /\ Ended("vector") => Sums = {"sum"} \X (0 .. call.cols - 1)
<1>1. ASSUME Ended("add") PROVE Sums = {"sum"} \X (0 .. call.rows - 1) \X (0 .. call.cols - 1)
  <2>1. call \in Calls /\ call.kind = "add" /\ Gridding /\ queue = <<>>
    BY <1>1 DEF Ended, CalledInv, Gridding, GridKinds
  <2>2. GridLaunches(call, tuned) = {MatAddLaunch(call)}
    BY <2>1 DEF GridLaunches
  <2>3. AllRight(mem, {MatAddLaunch(call)}) /\ Given(mem, MatAddLaunch(call))
    BY <2>1, <2>2, AllGiven
  <2> QED
    BY <2>1, <2>3, SumsOfMatrices DEF Sums
<1>2. ASSUME Ended("vector") PROVE Sums = {"sum"} \X (0 .. call.cols - 1)
  <2>1. call \in Calls /\ call.kind = "vector" /\ Gridding /\ queue = <<>>
    BY <1>2 DEF Ended, CalledInv, Gridding, GridKinds
  <2>2. GridLaunches(call, tuned) = {VectorAddLaunch(call)}
    BY <2>1 DEF GridLaunches
  <2>3. AllRight(mem, {VectorAddLaunch(call)}) /\ Given(mem, VectorAddLaunch(call))
    BY <2>1, <2>2, AllGiven
  <2> QED
    BY <2>1, <2>3, SumsOfVectors DEF Sums
<1> QED
  BY <1>1, <1>2

-----------------------------------------------------------------------------
TilesAll == StreamInv /\ StageInv /\ AttendInv /\ TrainInv /\ CalledInv /\ GridInv /\ ApartInv

LEMMA TilesInit == Init => TilesAll
<1> SUFFICES ASSUME Init PROVE TilesAll
  OBVIOUS
<1>1. AttendInv /\ TrainInv /\ StreamInv /\ StageInv
  BY AttendInit, TrainInit DEF AttendAll, TrainAll
<1>2. stage = "idle" /\ queue = <<>> /\ written = {}
  BY DEF Init, DeviceInit
<1>3. queue \in Seq({}) /\ \A l \in {} : Formed(l)
  BY <1>2
<1>4. ApartInv
  BY <1>2, <1>3 DEF ApartInv
<1>5. CalledInv /\ GridInv
  BY <1>2 DEF CalledInv, GridInv, Gridding
<1> QED
  BY <1>1, <1>4, <1>5 DEF TilesAll

LEMMA TilesNext == TilesAll /\ [Next]_vars => TilesAll'
<1> SUFFICES ASSUME TilesAll, [Next]_vars PROVE TilesAll'
  OBVIOUS
<1>1. AttendInv' /\ TrainInv' /\ StreamInv' /\ StageInv'
  BY AttendNext, TrainNext DEF AttendAll, TrainAll, TilesAll
<1>2. CASE OnDevice
  <2>1. DeviceNext
    BY <1>2 DEF OnDevice
  <2>2. GridInv' /\ CalledInv'
    BY <2>1, GridStep, CalledStep DEF TilesAll
  <2>3. ApartInv'
    BY <1>1, <2>1, <2>2, ApartStep DEF TilesAll
  <2> QED
    BY <1>1, <2>2, <2>3 DEF TilesAll
<1>3. CASE OnRanks \/ UNCHANGED vars
  <2>1. UNCHANGED <<call, stage, tuned, queue, resident, done, written, mem>>
    BY <1>3 DEF OnRanks, device, stream, vars
  <2>2. CalledInv' /\ ApartInv'
    BY <2>1, ApartStands DEF TilesAll, CalledInv
  <2>3. GridInv'
    <3>1. \A L : Tiling(L) => Tiling(L)'
      BY <2>1 DEF Tiling
    <3>2. call' = call /\ stage' = stage /\ tuned' = tuned
      BY <2>1
    <3> QED
      BY <3>1, <3>2, GridMoves DEF TilesAll
  <2> QED
    BY <1>1, <2>2, <2>3 DEF TilesAll
<1> QED
  BY <1>2, <1>3 DEF Next

LEMMA TilesMean == TilesAll => EveryTileComputed
<1> SUFFICES ASSUME TilesAll PROVE EveryTileComputed
  OBVIOUS
<1>1. CalledInv /\ GridInv /\ ApartInv
  BY DEF TilesAll
<1>2. BlocksWriteApart
  <2>1. CASE queue = <<>>
    BY <1>1, <2>1 DEF BlocksWriteApart, ApartInv
  <2>2. CASE queue # <<>>
    <3>1. \A x \in written : x[2] = Writer(queue[1], x[1])
      BY <1>1, <2>2 DEF ApartInv
    <3> QED
      BY <3>1 DEF BlocksWriteApart
  <2> QED
    BY <2>1, <2>2
<1> QED
  BY <1>1, <1>2, MatmulMeans, TuneMeans, TiledMeans, SoftmaxMeans, SumsMean DEF EveryTileComputed

\* Whatever the order of tiles, the number of programs and the sizes, every tile of a
\* product is the sum over all of its depth, every row of a softmax and every element
\* of a sum is computed, and no two blocks of a launch, of any kernel, store to one
\* place (cutile_swizzled_matmul.py to cutile_matmul_perf5.py, softmax.py, autotuner).
THEOREM TilesAreComputed == Spec => []EveryTileComputed
<1>1. Init => TilesAll
  BY TilesInit
<1>2. TilesAll /\ [Next]_vars => TilesAll'
  BY TilesNext
<1>3. TilesAll => EveryTileComputed
  BY TilesMean
<1> QED
  BY <1>1, <1>2, <1>3, PTL DEF Spec
=============================================================================
