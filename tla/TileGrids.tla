----------------------------- MODULE TileGrids -----------------------------
(***************************************************************************)
(* The kernels of KernelAgent/0-MatMul: matrix products over a grid of     *)
(* output tiles in several orders, the elementwise sums and the softmax of *)
(* rows.  Blocks are persistent: block b of P takes the tiles b, b + P,    *)
(* b + 2P ..., and the order in which tile numbers map to tiles is what    *)
(* the studies vary.                                                       *)
(***************************************************************************)
EXTENDS Integers, FiniteSets, FiniteSetsExt, Sequences

CONSTANTS Blocks          \* NUM_CTAS: the programs of a launch

CDiv(a, b) == (a + b - 1) \div b

\* compute_tile_coords of cutile_swizzled_matmul.py: strips of `group' rows of
\* tiles, down each column of the strip first.
SwizzledCoords(t, m, n, group) ==
  LET inStrip == t % (group * n) IN
  <<(t \div (group * n)) * group + (inStrip % group), inStrip \div group>>
\* cutile_matmul_perf.py and perf2: raster order for group 0.
UniversalCoords(t, m, n, group) ==
  IF group = 0 THEN <<t \div n, t % n>> ELSE SwizzledCoords(t, m, n, group)
\* perf3 and the autotuner: raster order.
RasterCoords(t, m, n, group) == <<t \div n, t % n>>
\* Mutant: the last strip as high as the others.
StripHeightFull(t, m, n, group) == group

\* perf4: the last strip may be lower than the others.
StripHeight(t, m, n, group) == Min({m - (t \div (group * n)) * group, group})
GroupedCoords(t, m, n, group) ==
  LET inStrip == t % (group * n)
      height == StripHeight(t, m, n, group) IN
  <<(t \div (group * n)) * group + (inStrip % height), inStrip \div height>>
\* perf5: the row within the strip comes from the tile number itself.
FastCoords(t, m, n, group) ==
  LET height == StripHeight(t, m, n, group) IN
  <<(t \div (group * n)) * group + (t % height), (t % (group * n)) \div height>>

\* test.py: raster order or strips by argument, as in the first two versions.
VaryingCoords(t, m, n, group) ==
  IF group = 0 THEN RasterCoords(t, m, n, group) ELSE SwizzledCoords(t, m, n, group)

\* The kernels: their order of tiles; whether the last strip's tiles are counted
\* as if it were full; whether the grid is rounded up over padded tiles.
SwizzledKernel == [order |-> "swizzled", full |-> FALSE, padded |-> FALSE]
UniversalKernel == [order |-> "universal", full |-> FALSE, padded |-> FALSE]
VaryingKernel == [order |-> "varying", full |-> FALSE, padded |-> FALSE]
RasterKernel == [order |-> "raster", full |-> FALSE, padded |-> FALSE]
TunedKernel == [order |-> "raster", full |-> FALSE, padded |-> FALSE]
GroupedKernel == [order |-> "grouped", full |-> FALSE, padded |-> FALSE]
TilegymKernel == [order |-> "swizzled", full |-> TRUE, padded |-> FALSE]
FastKernel == [order |-> "fast", full |-> FALSE, padded |-> TRUE]
MatmulKernels == {SwizzledKernel, UniversalKernel, VaryingKernel, RasterKernel, GroupedKernel, TilegymKernel, FastKernel}

Coords(order, t, m, n, group) ==
  CASE order = "universal" -> UniversalCoords(t, m, n, group)
    [] order = "varying" -> VaryingCoords(t, m, n, group)
    [] order = "swizzled" -> SwizzledCoords(t, m, n, group)
    [] order = "raster" -> RasterCoords(t, m, n, group)
    [] order = "grouped" -> GroupedCoords(t, m, n, group)
    [] order = "fast" -> FastCoords(t, m, n, group)

\* A launch with tiles of the configuration's sizes.
Parts(padded, length, tile) == IF padded THEN CDiv(length, tile) ELSE length \div tile
MatmulLaunch(c, kernel, cfg) ==
  [kernel |-> "matmul", order |-> kernel.order, full |-> kernel.full, group |-> c.strip,
   m |-> Parts(kernel.padded, c.rows, cfg[1]), n |-> Parts(kernel.padded, c.cols, cfg[2]),
   k |-> Parts(kernel.padded, c.depth, cfg[3])]
\* Tile sizes that do not divide the matrix are skipped.
Fits(c, kernel, cfg) == kernel.padded \/ (c.rows % cfg[1] = 0 /\ c.cols % cfg[2] = 0)

\* The tiles of a block, and its rounds: one per tile and step of k.
TotalTiles(l) == IF l.full THEN CDiv(l.m, l.group) * l.group * l.n ELSE l.m * l.n
TilesOf(l, b) == IF b >= TotalTiles(l) THEN 0 ELSE CDiv(TotalTiles(l) - b, Blocks)
MatmulRounds(l, b) == TilesOf(l, b) * l.k
TileAt(l, b, j) == Coords(l.order, b + (j \div l.k) * Blocks, l.m, l.n, l.group)
\* The accumulator: the steps of k whose tiles of A and B it has taken in.
MatmulRound(l, b, st, j) ==
  IF j % l.k = 0 THEN <<j % l.k>> ELSE Append(st, j % l.k)
\* After the last step the tile is stored; coordinates outside C are skipped.
MatmulStore(l, b, st, j) ==
  LET at == TileAt(l, b, j) IN
  [a \in {<<"C", at[1], at[2]>> : x \in {y \in {j} : j % l.k = l.k - 1 /\ at[1] < l.m /\ at[2] < l.n}} |-> st]

\* cutile_tiled_matmul.py: a grid of as many blocks as there are tiles; the first
\* version of compare_matmul.py is the same.
TiledLaunch(c) ==
  [kernel |-> "tiled", m |-> c.rows \div c.tile, n |-> c.cols \div c.tile, k |-> c.depth \div c.tile]
TiledGrid(l) == (0 .. l.m - 1) \X (0 .. l.n - 1)
TiledStore(l, b, st, j) ==
  [a \in {<<"C", b[1], b[2]>> : x \in {y \in {j} : j = l.k - 1}} |-> st]

\* softmax.py: a block per row, persistent; the row is one tile of the next
\* power of two, padded with -inf.
Power(n) == LET p[e \in 0 .. n] == IF e = 0 THEN 1 ELSE 2 * p[e - 1] IN p
NextPowerOf2(n) ==
  LET above == {Power(n)[e] : e \in {e \in 0 .. n : Power(n)[e] >= n}} IN
  CHOOSE p \in above : \A q \in above : p <= q
SoftmaxLaunch(c) == [kernel |-> "softmax", rows |-> c.rows, cols |-> c.cols, width |-> NextPowerOf2(c.cols)]
SoftmaxPrograms(l) == Min({Blocks, l.rows})
SoftmaxRounds(l, b) == CDiv(l.rows - b, SoftmaxPrograms(l))
SoftmaxStore(l, b, j) ==
  [a \in {<<"S", b + j * SoftmaxPrograms(l)>>} |-> {n \in 0 .. l.width - 1 : n < l.cols}]

\* cutile_mat_add.py: one tile per block, numbered in raster order.
MatAddLaunch(c) == [kernel |-> "add", n |-> c.cols, blocks |-> c.rows * c.cols]
MatAddStore(l, b) == [a \in {<<"sum", b \div l.n, b % l.n>>} |-> <<b \div l.n, b % l.n>>]
\* cutile_vect_add.py and cutile_vectadd.py: a grid of tiles rounded up.
VectorAddLaunch(c) == [kernel |-> "vector", blocks |-> CDiv(c.cols, c.tile), size |-> c.cols, tile |-> c.tile]
VectorAddStore(l, b) ==
  [a \in {<<"sum", n>> : n \in {n \in b * l.tile .. (b + 1) * l.tile - 1 : n < l.size}} |-> a[2]]
=============================================================================
