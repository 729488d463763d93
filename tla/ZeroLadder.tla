------------------------------ MODULE ZeroLadder ------------------------------
(***************************************************************************)
(* Calls of merkleize on any list, as those made for the lists of a        *)
(* payload: each may find the table of zero subtrees filled to another row.*)
(***************************************************************************)
EXTENDS Merkle, SequencesExt

CONSTANTS
    Chunks,             \* the chunks lists are made of
    Limits              \* the limits of the lists, in chunks

\* The table has a row for every subtree of a list with that many chunks.
Limit(max) == max \in Nat /\ Depth(max) < LEVELS

ASSUME LimitsAssumption ==
    /\ BYTES_PER_CHUNK \in Nat \ {0}
    /\ LEVELS \in Nat \ {0}
    /\ Chunks \subseteq [1..BYTES_PER_CHUNK -> 0..255]
    /\ \A l \in Limits : Limit(l)

VARIABLES
    table,              \* table[0..filled) of zero_subtree_root
    merkleized          \* the last call and what it returned: [data, limit, root]

ladder == <<table, merkleized>>

\* A process starts with an empty table.
NoCall == [data |-> << >>, limit |-> 0, root |-> ZeroHash]

InitTable == table = << >> /\ merkleized = NoCall

NewProcess == table' = << >> /\ merkleized' = NoCall

Call(d, l) ==
    /\ table' = Merkleize(table, d, l).table
    /\ merkleized' = [data |-> d, limit |-> l, root |-> Merkleize(table, d, l).root]

MerkleizeAny == \E l \in Limits : \E d \in SeqOf(Chunks, l) : Call(d, l)

-----------------------------------------------------------------------------
\* Whatever the calls before it have left in the table of zero subtrees, a list
\* within its limit, an empty one included, gets the root SSZ defines
\* (ssz.hpp:204-246).
ListsMatchSsz == merkleized.root = SszMerkleize(merkleized.data, merkleized.limit)

\* As long as a process lives, a row once valid is never rewritten: pointers to
\* it are handed out (ssz.hpp:187).
RowsAreKept == [][IsPrefix(table, table') \/ NewProcess]_ladder
=============================================================================
