---------------------------- MODULE MCConformance ----------------------------
(***************************************************************************)
(* Instance of Conformance: files with several tests and blocks, of which  *)
(* the guest may answer one case wrongly; a block without stateless        *)
(* fields, one that is not hexadecimal, a file that cannot be read; an     *)
(* output directory that is empty or left over from other fixtures.        *)
(***************************************************************************)
EXTENDS Conformance

CONSTANTS StemA, StemB, StemC, Good, Bad, Right, Wrong

Block(i, o) == [input |-> i, expected |-> o]
Fixture(path, stem, readable, tests) ==
    [path |-> path, stem |-> stem, readable |-> readable, tests |-> tests]

Unreadable == Fixture(3, StemC, FALSE, <<>>)
FileA == Fixture(1, StemA, TRUE, <<<<Block(Bad, Right)>>, <<Block(Good, Right), Block(NoBytes, NoBytes)>>>>)
FileB(stem) == Fixture(2, stem, TRUE, <<<<Block(Good, Right)>>, <<Block(Good, Right), Block(Good, Right)>>>>)
FileC == Fixture(4, StemC, TRUE, <<<<Block(Good, Right), Block(BadHex, Right)>>>>)

\* Names differ.
MCFixtures == {{FileA, FileB(StemB), Unreadable}, {FileA, FileC}}

\* Two files of one name, in different directories.
MCSameStem == {{FileA, FileB(StemA)}}

\* The guest answers Right to Good, and to Bad rightly or wrongly.
MCGuests == {[i \in {Good, Bad} |-> IF i = Good THEN Right ELSE o] : o \in {Right, Wrong}}

\* Nothing, or pairs of other fixtures: an input alone and a pair.
MCLeftovers ==
    {<<>>,
     [k \in {[base |-> <<StemA, 1, 1>>, kind |-> "input"]} |-> Bad],
     [k \in {[base |-> <<StemC, 1, 1>>, kind |-> "input"]} |-> Good],
     [k \in [base : {<<StemC, 1, 1>>}, kind : {"input", "expected"}] |->
        IF k.kind = "input" THEN Good ELSE Right]}
=============================================================================
