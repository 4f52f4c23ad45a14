---------------------------- MODULE MCDeviceHost ----------------------------
(* A device with two module images, buffers of one and two words, a weight  *)
(* file of one and a half pages, one KV arena of three rows, and NVVM       *)
(* descriptors: one of each plan kind and some that must be refused.        *)
EXTENDS DeviceHost

MCEntries == [prog |-> {"step", "add"}, other |-> {"step"}]
MCFileWords == <<1, 1, 0>>

Heap(words, short) == [source |-> "heap", at |-> 0, words |-> words, short |-> short]
Mapped(at, n, short) == [source |-> "map", at |-> at, words |-> [i \in 1 .. n |-> 0], short |-> short]
MCPayloads == {Heap(<<1, 0>>, TRUE), Mapped(1, 2, TRUE)}
MCAligned == {Heap(<<0, 0>>, FALSE), Mapped(0, 2, FALSE)}
MCNoWeights == <<>>
MCWeights == <<Heap(<<1>>, FALSE)>>

Buffer(role, binding, count) == [role |-> role, binding |-> binding, count |-> count, shape |-> <<count>>]
Kernel(buffers, grid, plan) ==
    [entry |-> "step", type |-> "f32", width |-> 4, buffers |-> buffers,
     inputs |-> CountWhere(buffers, IsInput), outputs |-> CountWhere(buffers, IsOutput),
     accumulations |-> CountWhere(buffers, LAMBDA b : b.role = "accumulation"),
     counts |-> [i \in DOMAIN buffers |-> buffers[i].count],
     count |-> buffers[1].count,
     launch |-> [grid |-> grid, block |-> <<1, 1, 1>>], plan |-> plan]
Document(k) == [schema |-> 3, target |-> "llvm-nvvm", kernels |-> <<k>>]

Product(rows) == [kind |-> "tiled_matmul", m |-> rows, k |-> 1, n |-> 2, tile |-> 2, x |-> 1, y |-> 0]
ProductBuffers(rows) ==
    <<Buffer("input", 0, rows), Buffer("extra-input", 1, 2), Buffer("output", 2, 2 * rows)>>
Partials(n) == [kind |-> "tree_reduction", length |-> 2, partials |-> n, op |-> "sum", x |-> 0, y |-> 0]

MCDocuments ==
    [matmul |-> Document(Kernel(ProductBuffers(3), <<1, 2, 1>>, Product(3))),
     shortGrid |-> Document(Kernel(ProductBuffers(3), <<1, 1, 1>>, Product(3))),
     evenGrid |-> Document(Kernel(ProductBuffers(2), <<0, 1, 1>>, Product(2))),
     reduce |-> Document(Kernel(<<Buffer("input", 0, 2), Buffer("accumulation", 1, 1)>>,
                                <<1, 1, 1>>, Partials(1))),
     sum |-> Document(Kernel(<<Buffer("input", 0, 2), Buffer("output", 1, 1)>>,
                             <<1, 1, 1>>, Partials(1)))]
MCGiven == [full |-> [i \in {0, 1} |-> i], part |-> [i \in {1} |-> 0]]

\* One arena of three rows: an append view of one row, a prefix view of all.
MCKvCatalog ==
    [decode |-> [image |-> "prog", allocations |-> <<3>>,
                 views |-> {[allocation |-> 1, base |-> 0, span |-> 1],
                            [allocation |-> 1, base |-> 0, span |-> 3]},
                 records |-> <<[allocation |-> 1, offset |-> 0, span |-> 1, index |-> 1,
                                source |-> "Position"],
                               [allocation |-> 1, offset |-> 0, span |-> 3, index |-> 0,
                                source |-> "ValidLenAfter"]>>]]
=============================================================================
