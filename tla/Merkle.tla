-------------------------------- MODULE Merkle --------------------------------
(***************************************************************************)
(* The SSZ hash_tree_root primitives of core/include/z6m/ssz.hpp, and the  *)
(* roots SSZ itself defines, to compare them with.                         *)
(*                                                                         *)
(* A node is a sequence of numbers: a leaf is the chunk's bytes, and       *)
(* SHA-256, which is external and taken to be free of collisions, yields   *)
(* its two arguments in brackets.  The data to merkleize is a sequence of  *)
(* chunks; Pack makes them of bytes.                                       *)
(***************************************************************************)
EXTENDS Integers, Sequences

CONSTANTS
    BYTES_PER_CHUNK,    \* 32
    LEVELS              \* 64: the rows of the table of zero subtrees

Node  == Seq(Int)
Nodes == Seq(Node)

Open  == -1
Close == -2
Hash(left, right) == <<Open>> \o left \o right \o <<Close>>

ZeroHash == [i \in 1..BYTES_PER_CHUNK |-> 0]

CeilDiv(a, b) == (a + b - 1) \div b

Pow2[e \in Nat] == IF e = 0 THEN 1 ELSE 2 * Pow2[e - 1]

\* The number of times 1 is doubled to reach x.
Depth(x) == CHOOSE d \in 0..x : Pow2[d] >= x /\ (d = 0 \/ Pow2[d - 1] < x)

BitCeil(x) == Pow2[Depth(x)]

\* The chunks of a byte string, the last one filled up with zeros.
Pack(bytes) ==
    [c \in 1..CeilDiv(Len(bytes), BYTES_PER_CHUNK) |->
        [i \in 1..BYTES_PER_CHUNK |->
            LET k == (c - 1) * BYTES_PER_CHUNK + i
            IN  IF k <= Len(bytes) THEN bytes[k] ELSE 0]]

-----------------------------------------------------------------------------
(***************************************************************************)
(* The code.  The table of zero subtrees is filled as far as a call needs  *)
(* it and kept for the calls after it; table[d + 1] is its row d.          *)
(***************************************************************************)
\* One turn of the loop: the first row is a zero chunk, another hashes the one
\* before it with itself.
FillRow(table) ==
    Append(table, IF table = << >> THEN ZeroHash
                  ELSE Hash(table[Len(table)], table[Len(table)]))

\* Mistake: the table is not kept from call to call.
FillAnew(table, depth) ==
    LET fill[rows \in Nat] == IF rows = 0 THEN << >> ELSE FillRow(fill[rows - 1])
    IN  fill[depth + 1]

\* The table once row `depth' is valid.
Fill(table, depth) ==
    LET fill[rows \in Nat] ==
            IF rows <= Len(table) THEN table ELSE FillRow(fill[rows - 1])
    IN  fill[depth + 1]

\* Mistake: the row itself is not filled and reads as the zeros that static
\* storage starts with.
ZeroSubtreeRootExclusive(table, depth) ==
    LET d == IF depth >= LEVELS THEN LEVELS - 1 ELSE depth
        t == IF d = 0 THEN table ELSE Fill(table, d - 1)
    IN  [root |-> IF d < Len(t) THEN t[d + 1] ELSE ZeroHash, table |-> t]

\* zero_subtree_root: what it returns and the table it leaves.
ZeroSubtreeRoot(table, depth) ==
    LET d == IF depth >= LEVELS THEN LEVELS - 1 ELSE depth
        t == Fill(table, d)
    IN  [root |-> t[d + 1], table |-> t]

PowersOfTwo == {k \in Nat : \E e \in 0..k : Pow2[e] = k}

\* What a call is given and what it yields; the table goes from call to call.
Arguments == [data : Nodes, table : Nodes]
Results   == [root : Node, table : Nodes]

MerkleizePowerOfTwo[total \in PowersOfTwo] ==
    [call \in Arguments |->
        IF call.data = << >> THEN ZeroSubtreeRoot(call.table, Depth(total))
        ELSE IF total = 1 THEN [root |-> call.data[1], table |-> call.table]
        ELSE LET half    == total \div 2
                 leftLen == IF Len(call.data) > half THEN half ELSE Len(call.data)
                 left    == MerkleizePowerOfTwo[half][
                              [data |-> SubSeq(call.data, 1, leftLen), table |-> call.table]]
                 right   == MerkleizePowerOfTwo[half][
                              [data |-> SubSeq(call.data, leftLen + 1, Len(call.data)),
                               table |-> left.table]]
             IN  [root |-> Hash(left.root, right.root), table |-> right.table]]

MerkleizeChunks(table, data) ==
    IF data = << >> THEN [root |-> Hash(ZeroHash, ZeroHash), table |-> table]
    ELSE MerkleizePowerOfTwo[BitCeil(Len(data))][[data |-> data, table |-> table]]

Merkleize(table, data, limit) ==
    IF limit = 0 THEN [root |-> ZeroHash, table |-> table]
    ELSE MerkleizePowerOfTwo[BitCeil(limit)][[data |-> data, table |-> table]]

MixInLength(root, length) == Hash(root, Pack(<<length>>)[1])

-----------------------------------------------------------------------------
(***************************************************************************)
(* SSZ: the chunks are padded to a power of two with zero chunks, and      *)
(* neighbours are hashed until one node is left.                           *)
(***************************************************************************)
Padded(chunks, leaves) ==
    [i \in 1..leaves |-> IF i <= Len(chunks) THEN chunks[i] ELSE ZeroHash]

Parents(nodes) == [i \in 1..(Len(nodes) \div 2) |-> Hash(nodes[2 * i - 1], nodes[2 * i])]

RootOf[height \in Nat] ==
    [nodes \in Nodes |-> IF height = 0 THEN Padded(nodes, 1)[1]
                         ELSE RootOf[height - 1][Parents(nodes)]]

SszMerkleize(chunks, limit) ==
    LET height == Depth(IF limit = 0 THEN 1 ELSE limit)
    IN  RootOf[height][Padded(chunks, Pow2[height])]
=============================================================================
