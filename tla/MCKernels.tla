------------------------------ MODULE MCKernels ------------------------------
(* Small shapes for Kernels: tiles of one to four rows, lengths that are no  *)
(* multiples of them, two query heads on one key head.                       *)
EXTENDS Kernels

MCScore(q, k) == (3 * q[3] + 5 * k[Len(k)] + q[2]) % 4
MCFwdConfigs == <<<<2, 2>>, <<4, 4>>>>
MCDkDvConfigs == <<<<1, 2>>, <<2, 4>>>>
MCDqConfigs == <<<<2, 1>>, <<4, 2>>>>
MCStudyConfigs == <<<<2, 2>>, <<2, 4>>>>
MCStrategies == {"direct", "padded", "hybrid"}

MCFiles == {<<"down", "gate", "k", "q">>, <<"embed", "v", "up", "o">>}

\* "b" and "c" share their first two tokens.
MCOwner(s, n) == IF s = "c" /\ n < 2 THEN "b" ELSE s

infer(klen, causal, auto) ==
  [kind |-> "infer", batch |-> 1, heads |-> 2, kvHeads |-> 1, qlen |-> 3, klen |-> klen,
   causal |-> causal, autotune |-> auto]
train(klen, causal, auto, kv) ==
  [kind |-> "train", batch |-> 1, heads |-> 2, kvHeads |-> kv, qlen |-> 3, klen |-> klen,
   causal |-> causal, autotune |-> auto]
study(q, klen, causal, pos) ==
  [kind |-> "study", batch |-> 1, heads |-> 2, kvHeads |-> 1, qlen |-> q, klen |-> klen, causal |-> causal, pos |-> pos]
gpt(q, klen, causal) ==
  [kind |-> "gpt", batch |-> 1, heads |-> 1, kvHeads |-> 1, qlen |-> q, klen |-> klen, causal |-> causal]
generate(graph, prompt, new) ==
  [kind |-> "generate", batch |-> 1, heads |-> 2, kvHeads |-> 2, qlen |-> prompt, klen |-> prompt,
   causal |-> TRUE, graph |-> graph, new |-> new]
seq(name, cached, new, table) == [name |-> name, cached |-> cached, new |-> new, table |-> table]
prefill(strategy, seqs) == [kind |-> "attend", decode |-> FALSE, strategy |-> strategy, pad |-> 0, seqs |-> seqs]
decode(pad, seqs) == [kind |-> "attend", decode |-> TRUE, strategy |-> "direct", pad |-> pad, seqs |-> seqs]
matmul(kernel, strip, rows, cols, depth, cfg) ==
  [kind |-> "matmul", kernel |-> kernel, strip |-> strip, rows |-> rows, cols |-> cols, depth |-> depth, cfg |-> cfg]

MCPrograms ==
  {<<infer(5, TRUE, TRUE), infer(3, TRUE, TRUE)>>, <<infer(4, FALSE, FALSE)>>, <<infer(5, FALSE, TRUE)>>,
   <<train(3, TRUE, TRUE, 1), train(3, TRUE, TRUE, 1)>>, <<train(5, FALSE, FALSE, 1)>>, <<train(4, TRUE, FALSE, 2)>>,
   <<study(3, 3, TRUE, 0)>>, <<study(1, 5, FALSE, 4)>>,
   <<gpt(2, 2, TRUE), gpt(1, 3, FALSE)>>, <<gpt(5, 5, TRUE)>>,
   <<generate(TRUE, 3, 3), generate(TRUE, 1, 4)>>, <<generate(FALSE, 1, 4)>>,
   <<prefill("direct", <<seq("a", 0, 3, <<2, 0>>)>>), decode(1, <<seq("a", 3, 1, <<2, 0>>)>>),
     decode(0, <<seq("a", 4, 1, <<2, 0, 3>>)>>)>>,
   <<prefill("hybrid", <<seq("b", 0, 3, <<1, 0>>), seq("a", 0, 2, <<3>>)>>),
     prefill("hybrid", <<seq("c", 2, 3, <<1, 2, 4>>)>>)>>,
   <<prefill("padded", <<seq("a", 0, 5, <<2, 0, 1>>)>>)>>,
   <<matmul(SwizzledKernel, 2, 4, 2, 2, <<1, 1, 1>>)>>,
   <<matmul(UniversalKernel, 2, 4, 3, 2, <<1, 1, 2>>)>>, <<matmul(UniversalKernel, 0, 3, 2, 1, <<1, 1, 1>>)>>,
   <<matmul(VaryingKernel, 0, 2, 2, 1, <<1, 1, 1>>), matmul(VaryingKernel, 2, 2, 3, 1, <<1, 1, 1>>)>>,
   <<matmul(RasterKernel, 1, 3, 2, 2, <<3, 1, 1>>)>>, <<matmul(GroupedKernel, 2, 5, 3, 1, <<1, 1, 1>>)>>,
   <<matmul(TilegymKernel, 2, 3, 2, 2, <<1, 1, 1>>)>>,
   <<matmul(FastKernel, 2, 5, 3, 3, <<1, 1, 2>>), matmul(FastKernel, 2, 5, 3, 3, <<2, 2, 2>>)>>,
   <<[kind |-> "tune", strip |-> 1, rows |-> 4, cols |-> 2, depth |-> 2,
      configs |-> <<<<2, 1, 1>>, <<1, 1, 2>>, <<3, 2, 2>>>>]>>,
   <<[kind |-> "tiled", rows |-> 4, cols |-> 4, depth |-> 4, tile |-> 2]>>,
   <<[kind |-> "softmax", rows |-> 5, cols |-> 3]>>, <<[kind |-> "add", rows |-> 2, cols |-> 3]>>,
   <<[kind |-> "vector", cols |-> 5, tile |-> 2]>>}

\* A prefix of one page, and a page of two tiles.
MCPagedPrograms ==
  {<<prefill("direct", <<seq("b", 0, 5, <<1, 0>>)>>), prefill("direct", <<seq("b", 4, 2, <<1, 2>>)>>)>>}
=============================================================================
