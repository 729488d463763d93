-------------------------- MODULE ConformanceProofs --------------------------
(***************************************************************************)
(* What an exit code of the conformance runner says: of the directory,     *)
(* always; of the fixtures, after an extraction that ended well and when   *)
(* the names of the files differ.                                          *)
(*                                                                         *)
(* Two inductive invariants.  RunInv relates the counters of a run to the  *)
(* inputs it has visited.  ExtractInv relates the directory to the blocks  *)
(* an extraction is past: the pair of each is there and nothing that was   *)
(* written later has replaced it, which is where the names matter.         *)
(***************************************************************************)
EXTENDS Conformance, TLAPS

-----------------------------------------------------------------------------
RunInv ==
    /\ pc \in {"idle", "extracting", "running"}
    /\ fail \in Nat
    /\ pc # "idle" => exit = -1
    /\ pc = "running" =>
         /\ unvisited \subseteq Inputs
         /\ fail = 0 <=> \A k \in Inputs \ unvisited : RunCase(k)
    /\ exit \in {0, 1} => (exit = 0 <=> \A k \in Inputs : RunCase(k))

\* A run counts a failure as soon as it meets one.
LEMMA RunInvStep == RunInv /\ [Next]_vars => RunInv'
  <1> SUFFICES ASSUME RunInv, [Next]_vars PROVE RunInv'
    OBVIOUS
  <1>1. CASE Extract /\ UNCHANGED <<files, Answer>>
    <2>1. pc = "idle" \/ pc = "extracting"
      BY <1>1 DEF Extract, StartExtraction, OpenFile, ExtractBlock, NextTest,
                  NextFile, ExtractionDone
    <2>2. pc' \in {"idle", "extracting"} /\ exit' = -1 /\ fail' = fail
      BY <1>1, <2>1 DEF RunInv, Extract, StartExtraction, OpenFile, ExtractBlock,
                        NextBlock, Abort, NextTest, NextFile, ExtractionDone, runner
    <2> QED BY <2>2 DEF RunInv
  <1>2. CASE StartRun /\ UNCHANGED <<files, Answer>>
    <2>1. /\ pc' = "running" /\ exit' = -1 /\ fail' = 0
          /\ pairs' = pairs /\ unvisited' = Inputs
      BY <1>2 DEF StartRun, extractor
    <2>2. Inputs' = Inputs
      BY <2>1 DEF Inputs
    <2> QED BY <2>1, <2>2 DEF RunInv
  <1>3. CASE VisitEntry /\ UNCHANGED <<files, Answer>>
    <2>1. /\ pc = "running" /\ pc' = "running" /\ exit' = exit
          /\ pairs' = pairs /\ Answer' = Answer
      BY <1>3 DEF VisitEntry, extractor
    <2>2. Inputs' = Inputs /\ \A k : RunCase(k)' <=> RunCase(k)
      BY <2>1 DEF Inputs, RunCase, Expected
    <2>3. PICK k \in unvisited :
            /\ unvisited' = unvisited \ {k}
            /\ RunCase(k) => fail' = fail
            /\ ~ RunCase(k) => fail' = fail + 1
      BY <1>3 DEF VisitEntry
    <2>4. k \in Inputs /\ fail \in Nat
      BY <2>1, <2>3 DEF RunInv
    <2>5. Inputs \ unvisited' = (Inputs \ unvisited) \cup {k}
      BY <2>3, <2>4
    <2>6. fail' \in Nat /\ (fail' = 0 <=> fail = 0 /\ RunCase(k))
      BY <2>3, <2>4
    <2>7. fail' = 0 <=> \A j \in Inputs \ unvisited' : RunCase(j)
      BY <2>1, <2>5, <2>6 DEF RunInv
    <2>8. unvisited' \subseteq Inputs
      BY <2>1, <2>3 DEF RunInv
    <2> QED BY <2>1, <2>2, <2>6, <2>7, <2>8 DEF RunInv
  <1>4. CASE CannotOpen /\ UNCHANGED <<files, Answer>>
    BY <1>4 DEF RunInv, CannotOpen
  <1>5. CASE RunDone /\ UNCHANGED <<files, Answer>>
    <2>1. /\ pc = "running" /\ pc' = "idle" /\ unvisited = {} /\ fail' = fail
          /\ exit' = (IF fail = 0 THEN 0 ELSE 1) /\ pairs' = pairs /\ Answer' = Answer
      BY <1>5 DEF RunDone, extractor
    <2>2. Inputs' = Inputs /\ \A k : RunCase(k)' <=> RunCase(k)
      BY <2>1 DEF Inputs, RunCase, Expected
    <2>3. fail = 0 <=> \A k \in Inputs : RunCase(k)
      BY <2>1 DEF RunInv
    <2> QED BY <2>1, <2>2, <2>3 DEF RunInv
  <1>6. CASE UNCHANGED vars
    BY <1>6 DEF vars, RunInv, Inputs, RunCase, Expected
  <1> QED BY <1>1, <1>2, <1>3, <1>4, <1>5, <1>6 DEF Next, Run

LEMMA RunInvariant == Spec => []RunInv
  <1>1. Init => RunInv
    BY DEF Init, RunInv
  <1> QED BY <1>1, RunInvStep, PTL DEF Spec

\* The runner's exit code is 0 exactly when every input in the directory has the
\* expected output the guest's answer equals, whatever the order of the entries
\* (main.cpp:128-160).
THEOREM ExitSaysAllMatch == Spec => []ExitZeroIffAllMatch
  <1>1. RunInv => ExitZeroIffAllMatch
    BY DEF RunInv, ExitZeroIffAllMatch, RunCase
  <1> QED BY <1>1, RunInvariant, PTL

-----------------------------------------------------------------------------
(***************************************************************************)
(* The extraction.                                                         *)
(***************************************************************************)
\* Files that can be read differ in their names.
StemsDiffer(F) ==
    \A f, g \in F : f.readable /\ g.readable /\ f.stem = g.stem => f = g

Key(f, t, b, kind) == [base |-> Base(f.stem, t, b), kind |-> kind]

Usable(c) == {NoBytes, BadHex} \cap {c.input, c.expected} = {}

\* The pair of a block is in the directory, as the fixtures have it.
Extracted(f, t, b) ==
    Usable(f.tests[t][b]) =>
        /\ Key(f, t, b, "input") \in DOMAIN pairs
        /\ pairs[Key(f, t, b, "input")] = f.tests[t][b].input
        /\ Key(f, t, b, "expected") \in DOMAIN pairs
        /\ pairs[Key(f, t, b, "expected")] = f.tests[t][b].expected

\* The extraction has come past a block.
Past(f, t, b) ==
    /\ f \notin unread
    /\ InFile /\ at.file = f => t < at.test \/ (t = at.test /\ b < at.block)

FilesOK ==
    \A f \in files :
        IsSequence(f.tests) /\ \A t \in DOMAIN f.tests : IsSequence(f.tests[t])

CursorOK ==
    pc = "extracting" =>
        /\ unread \subseteq files
        /\ at.test \in Nat /\ at.block \in Nat
        /\ InFile => at.file \in files \ unread /\ at.file.readable

DirectoryOK ==
    /\ complete => pc # "extracting"
    /\ pc = "extracting" \/ complete =>
         \A f \in files : f.readable =>
             \A t \in DOMAIN f.tests : \A b \in DOMAIN f.tests[t] :
                 complete \/ Past(f, t, b) => Extracted(f, t, b)

ExtractInv == FilesOK /\ CursorOK /\ (StemsDiffer(files) => DirectoryOK)

WithPair(dir, base, i, e) ==
    Written(Written(dir, InputFile(base, i)), ExpectedFile(base, e))

\* Writing a pair: both files are there, no other has changed.
LEMMA WriteFacts ==
    ASSUME NEW dir, NEW base, NEW i, NEW e
    PROVE  LET d  == WithPair(dir, base, i, e)
               ik == [base |-> base, kind |-> "input"]
               ek == [base |-> base, kind |-> "expected"]
           IN  /\ ik \in DOMAIN d /\ d[ik] = i
               /\ ek \in DOMAIN d /\ d[ek] = e
               /\ \A k \in DOMAIN dir \ {ik, ek} : k \in DOMAIN d /\ d[k] = dir[k]
  <1> DEFINE ik == [base |-> base, kind |-> "input"]
             ek == [base |-> base, kind |-> "expected"]
             m  == Written(dir, InputFile(base, i))
             d  == WithPair(dir, base, i, e)
  <1>1. ik # ek
    <2>1. ik.kind # ek.kind
      OBVIOUS
    <2> QED BY <2>1
  <1>2. /\ DOMAIN InputFile(base, i) = {ik} /\ InputFile(base, i)[ik] = i
        /\ DOMAIN ExpectedFile(base, e) = {ek} /\ ExpectedFile(base, e)[ek] = e
    BY DEF InputFile, ExpectedFile
  <1> HIDE DEF ik, ek
  <1>3. DOMAIN m = DOMAIN dir \cup {ik}
        /\ \A k \in DOMAIN m : m[k] = IF k = ik THEN i ELSE dir[k]
    BY <1>2 DEF Written
  <1> HIDE DEF m
  <1>4. d = Written(m, ExpectedFile(base, e))
    BY DEF m, WithPair
  <1> HIDE DEF d
  <1>5. DOMAIN d = DOMAIN m \cup {ek}
        /\ \A k \in DOMAIN d : d[k] = IF k = ek THEN e ELSE m[k]
    BY <1>2, <1>4 DEF Written
  <1>6. /\ ik \in DOMAIN d /\ d[ik] = i /\ ek \in DOMAIN d /\ d[ek] = e
        /\ \A k \in DOMAIN dir \ {ik, ek} : k \in DOMAIN d /\ d[k] = dir[k]
    BY <1>1, <1>3, <1>5
  <1> QED BY <1>6 DEF d, ik, ek

\* Keys tell the blocks of files of different names apart.
LEMMA KeysDiffer ==
    ASSUME NEW f, NEW g, NEW t, NEW u, NEW b, NEW c, NEW kind, NEW form,
           Key(f, t, b, kind) = Key(g, u, c, form)
    PROVE  f.stem = g.stem /\ t = u /\ b = c /\ kind = form
  <1>1. Key(f, t, b, kind).base = <<f.stem, t, b>> /\ Key(g, u, c, form).base = <<g.stem, u, c>>
    BY DEF Key, Base
  <1>2. Key(f, t, b, kind).kind = kind /\ Key(g, u, c, form).kind = form
    BY DEF Key
  <1> QED BY <1>1, <1>2

LEMMA InitExtractInv == Init => ExtractInv
  BY FixturesAssumption DEF Init, ExtractInv, FilesOK, CursorOK, DirectoryOK

\* Steps that leave the directory alone and come past no block.
LEMMA NothingPassed ==
    ASSUME ExtractInv, pairs' = pairs, files' = files, complete' = complete,
           pc' = "extracting", pc = "extracting",
           \A f \in files : f.readable =>
             \A t \in DOMAIN f.tests : \A b \in DOMAIN f.tests[t] :
               Past(f, t, b)' => Past(f, t, b)
    PROVE  StemsDiffer(files)' => DirectoryOK'
  <1>1. StemsDiffer(files)' => StemsDiffer(files)
    BY DEF StemsDiffer
  <1>2. StemsDiffer(files) => ~ complete
    BY DEF ExtractInv, DirectoryOK
  <1>3. ASSUME NEW f, NEW t, NEW b PROVE Extracted(f, t, b) => Extracted(f, t, b)'
    BY DEF Extracted, Key, Base, Usable
  <1> QED BY <1>1, <1>2, <1>3 DEF ExtractInv, DirectoryOK

LEMMA StartExtractionInv ==
    ExtractInv /\ StartExtraction /\ UNCHANGED <<files, Answer>> => ExtractInv'
  <1> SUFFICES ASSUME ExtractInv, StartExtraction, UNCHANGED <<files, Answer>>
               PROVE  ExtractInv'
    OBVIOUS
  <1>1. unread' = files /\ at' = NoBlock /\ ~ complete' /\ files' = files /\ ~ InFile'
    BY DEF StartExtraction, NoBlock, InFile
  <1>2. FilesOK'
    BY <1>1 DEF ExtractInv, FilesOK
  <1>3. CursorOK'
    BY <1>1 DEF CursorOK, NoBlock
  <1>4. DirectoryOK'
    BY <1>1 DEF DirectoryOK, Past
  <1> QED BY <1>2, <1>3, <1>4 DEF ExtractInv

LEMMA OpenFileInv ==
    ExtractInv /\ OpenFile /\ UNCHANGED <<files, Answer>> => ExtractInv'
  <1> SUFFICES ASSUME ExtractInv, OpenFile, UNCHANGED <<files, Answer>>
               PROVE  ExtractInv'
    OBVIOUS
  <1>1. /\ pc = "extracting" /\ ~ InFile /\ pc' = "extracting"
        /\ complete' = complete /\ pairs' = pairs /\ files' = files
    BY DEF OpenFile
  <1>2. PICK f \in unread :
          /\ unread' = unread \ {f}
          /\ at' = IF f.readable THEN [file |-> f, test |-> 1, block |-> 1] ELSE NoBlock
    BY DEF OpenFile
  <1>3. FilesOK'
    BY <1>1 DEF ExtractInv, FilesOK
  <1>4. unread \subseteq files
    BY <1>1 DEF ExtractInv, CursorOK
  <1>5. CASE f.readable
    <2>1. InFile' /\ at'.file = f /\ at'.test = 1 /\ at'.block = 1
      BY <1>2, <1>5 DEF InFile
    <2>2. CursorOK'
      BY <1>1, <1>2, <1>4, <1>5, <2>1 DEF CursorOK
    <2>3. ASSUME NEW g \in files, NEW t \in DOMAIN g.tests, NEW b \in DOMAIN g.tests[t],
                 Past(g, t, b)'
          PROVE  Past(g, t, b)
      <3>1. t \in Nat \ {0} /\ b \in Nat \ {0}
        BY DEF ExtractInv, FilesOK, IsSequence
      <3>2. g # f
        BY <2>1, <2>3, <3>1 DEF Past
      <3> QED BY <1>1, <1>2, <2>3, <3>2 DEF Past
    <2> QED BY <1>1, <1>3, <2>2, <2>3, NothingPassed DEF ExtractInv
  <1>6. CASE ~ f.readable
    <2>1. ~ InFile' /\ at' = NoBlock
      BY <1>2, <1>6 DEF InFile, NoBlock
    <2>2. CursorOK'
      BY <1>1, <1>2, <1>4, <2>1 DEF CursorOK, NoBlock
    <2>3. ASSUME NEW g \in files, g.readable, NEW t, NEW b, Past(g, t, b)'
          PROVE  Past(g, t, b)
      BY <1>1, <1>2, <1>6, <2>3 DEF Past
    <2> QED BY <1>1, <1>3, <2>2, <2>3, NothingPassed DEF ExtractInv
  <1> QED BY <1>5, <1>6

LEMMA NextTestInv ==
    ExtractInv /\ NextTest /\ UNCHANGED <<files, Answer>> => ExtractInv'
  <1> SUFFICES ASSUME ExtractInv, NextTest, UNCHANGED <<files, Answer>>
               PROVE  ExtractInv'
    OBVIOUS
  <1>1. /\ pc = "extracting" /\ InTests /\ ~ InBlocks /\ pc' = "extracting"
        /\ complete' = complete /\ pairs' = pairs /\ files' = files /\ unread' = unread
        /\ at' = [at EXCEPT !.test = @ + 1, !.block = 1]
    BY DEF NextTest
  <1>2. /\ at.test \in Nat /\ at.test > 0 /\ at.block \in Nat
        /\ at.file \in files \ unread /\ at.file.readable /\ unread \subseteq files
        /\ at.test <= Len(at.file.tests) /\ ~ (at.block <= Len(at.file.tests[at.test]))
    BY <1>1 DEF ExtractInv, CursorOK, InTests, InFile, InBlocks
  <1>3. FilesOK'
    BY <1>1 DEF ExtractInv, FilesOK
  <1>4. CursorOK' /\ InFile'
    BY <1>1, <1>2 DEF CursorOK, InFile
  <1>5. ASSUME NEW g \in files, NEW t \in DOMAIN g.tests, NEW b \in DOMAIN g.tests[t],
               Past(g, t, b)'
        PROVE  Past(g, t, b)
    <2>1. g.tests = at.file.tests => Len(g.tests[t]) \in Nat /\ b \in 1..Len(g.tests[t]) /\ t \in Nat
      BY DEF ExtractInv, FilesOK, IsSequence
    <2> QED BY <1>1, <1>2, <1>4, <1>5, <2>1 DEF Past, InFile
  <1> QED BY <1>1, <1>3, <1>4, <1>5, NothingPassed DEF ExtractInv

LEMMA NextFileInv ==
    ExtractInv /\ NextFile /\ UNCHANGED <<files, Answer>> => ExtractInv'
  <1> SUFFICES ASSUME ExtractInv, NextFile, UNCHANGED <<files, Answer>>
               PROVE  ExtractInv'
    OBVIOUS
  <1>1. /\ pc = "extracting" /\ InFile /\ ~ InTests /\ pc' = "extracting" /\ at' = NoBlock
        /\ complete' = complete /\ pairs' = pairs /\ files' = files /\ unread' = unread
    BY DEF NextFile
  <1>2. /\ at.test \in Nat /\ at.file \in files \ unread /\ unread \subseteq files
        /\ ~ (at.test <= Len(at.file.tests))
    BY <1>1 DEF ExtractInv, CursorOK, InTests
  <1>3. FilesOK'
    BY <1>1 DEF ExtractInv, FilesOK
  <1>4. CursorOK' /\ ~ InFile'
    BY <1>1, <1>2 DEF CursorOK, InFile, NoBlock
  <1>5. ASSUME NEW g \in files, NEW t \in DOMAIN g.tests, NEW b, Past(g, t, b)'
        PROVE  Past(g, t, b)
    <2>1. Len(g.tests) \in Nat /\ t \in 1..Len(g.tests)
      BY DEF ExtractInv, FilesOK, IsSequence
    <2> QED BY <1>1, <1>2, <1>5, <2>1 DEF Past
  <1> QED BY <1>1, <1>3, <1>4, <1>5, NothingPassed DEF ExtractInv

LEMMA ExtractionDoneInv ==
    ExtractInv /\ ExtractionDone /\ UNCHANGED <<files, Answer>> => ExtractInv'
  <1> SUFFICES ASSUME ExtractInv, ExtractionDone, UNCHANGED <<files, Answer>>
               PROVE  ExtractInv'
    OBVIOUS
  <1>1. /\ pc = "extracting" /\ ~ InFile /\ unread = {} /\ pc' = "idle" /\ complete'
        /\ pairs' = pairs /\ files' = files
    BY DEF ExtractionDone
  <1>2. FilesOK' /\ CursorOK'
    BY <1>1 DEF ExtractInv, FilesOK, CursorOK
  <1>3. ASSUME StemsDiffer(files)' PROVE DirectoryOK'
    <2>1. \A f \in files : f.readable =>
            \A t \in DOMAIN f.tests : \A b \in DOMAIN f.tests[t] : Extracted(f, t, b)
      BY <1>1, <1>3 DEF ExtractInv, DirectoryOK, StemsDiffer, Past
    <2>2. ASSUME NEW f, NEW t, NEW b PROVE Extracted(f, t, b) => Extracted(f, t, b)'
      BY <1>1 DEF Extracted, Key, Base, Usable
    <2> QED BY <1>1, <2>1, <2>2 DEF DirectoryOK
  <1> QED BY <1>2, <1>3 DEF ExtractInv

\* The block the extraction comes past is in the directory, and its names are
\* those of no block before it.
LEMMA ExtractBlockInv ==
    ExtractInv /\ ExtractBlock /\ UNCHANGED <<files, Answer>> => ExtractInv'
  <1> SUFFICES ASSUME ExtractInv, ExtractBlock, UNCHANGED <<files, Answer>>
               PROVE  ExtractInv'
    OBVIOUS
  <1> DEFINE base == Base(at.file.stem, at.test, at.block)
             both == WithPair(pairs, base, Case.input, Case.expected)
  <1>1. /\ pc = "extracting" /\ InBlocks /\ InTests /\ InFile /\ files' = files
        /\ complete' = complete /\ unread' = unread
    BY DEF ExtractBlock, InBlocks, InTests, NextBlock, Abort
  <1>2. /\ at.test \in Nat /\ at.test > 0 /\ at.block \in Nat
        /\ at.file \in files \ unread /\ at.file.readable /\ unread \subseteq files
    BY <1>1 DEF ExtractInv, CursorOK, InFile
  <1>3. FilesOK'
    BY <1>1 DEF ExtractInv, FilesOK
  <1>4. CASE Abort
    <2>1. pc' = "idle"
      BY <1>4 DEF Abort
    <2>2. CursorOK'
      BY <2>1 DEF CursorOK
    <2>3. StemsDiffer(files)' => DirectoryOK'
      BY <1>1, <2>1 DEF ExtractInv, DirectoryOK, StemsDiffer
    <2> QED BY <1>3, <2>2, <2>3 DEF ExtractInv
  <1>5. CASE NextBlock
    <2>1. at' = [at EXCEPT !.block = @ + 1] /\ pc' = "extracting"
      BY <1>1, <1>5 DEF NextBlock
    <2>2. CursorOK' /\ InFile'
      BY <1>1, <1>2, <2>1 DEF CursorOK, InFile
    <2>3. ASSUME StemsDiffer(files)' PROVE DirectoryOK'
      <3>1. StemsDiffer(files) /\ ~ complete
        BY <1>1, <2>3 DEF StemsDiffer, ExtractInv, DirectoryOK
      <3>2. ASSUME NEW f \in files, f.readable,
                   NEW t \in DOMAIN f.tests, NEW b \in DOMAIN f.tests[t], Past(f, t, b)'
            PROVE  Extracted(f, t, b)'
        <4>1. t \in Nat /\ b \in Nat
          BY DEF ExtractInv, FilesOK, IsSequence
        <4>2. Past(f, t, b) \/ (f = at.file /\ t = at.test /\ b = at.block)
          BY <1>1, <1>2, <2>1, <2>2, <3>2, <4>1 DEF Past
        <4>3. Past(f, t, b) => Extracted(f, t, b)
          BY <1>1, <3>1, <3>2 DEF ExtractInv, DirectoryOK
        <4>4. CASE pairs' = pairs /\ ~ Usable(Case)
          <5>1. Extracted(f, t, b)
            BY <4>2, <4>3, <4>4 DEF Extracted, Case
          <5> QED BY <4>4, <5>1 DEF Extracted, Key, Base, Usable
        <4>5. CASE pairs' = both
          <5> DEFINE ik == Key(at.file, at.test, at.block, "input")
                     ek == Key(at.file, at.test, at.block, "expected")
          <5>1. /\ ik \in DOMAIN pairs' /\ pairs'[ik] = Case.input
                /\ ek \in DOMAIN pairs' /\ pairs'[ek] = Case.expected
                /\ \A k \in DOMAIN pairs \ {ik, ek} : k \in DOMAIN pairs' /\ pairs'[k] = pairs[k]
            <6>1. ik = [base |-> base, kind |-> "input"] /\ ek = [base |-> base, kind |-> "expected"]
              BY DEF Key
            <6> HIDE DEF ik, ek
            <6> QED BY <4>5, <6>1, WriteFacts
          <5>2. CASE f = at.file /\ t = at.test /\ b = at.block
            BY <5>1, <5>2 DEF Extracted, Case, Key, Base, Usable
          <5>3. CASE ~ (f = at.file /\ t = at.test /\ b = at.block)
            <6>1. Extracted(f, t, b)
              BY <4>2, <4>3, <5>3
            <6>2. ASSUME NEW kind PROVE Key(f, t, b, kind) \notin {ik, ek}
              <7>1. f = at.file \/ f.stem # at.file.stem
                BY <1>2, <3>1, <3>2 DEF StemsDiffer
              <7> QED BY <5>3, <7>1, KeysDiffer
            <6>3. ASSUME NEW kind, Key(f, t, b, kind) \in DOMAIN pairs
                  PROVE  /\ Key(f, t, b, kind) \in DOMAIN pairs'
                         /\ pairs'[Key(f, t, b, kind)] = pairs[Key(f, t, b, kind)]
              BY <5>1, <6>2, <6>3
            <6> HIDE DEF ik, ek
            <6>4. Key(f, t, b, "input")' = Key(f, t, b, "input")
                  /\ Key(f, t, b, "expected")' = Key(f, t, b, "expected")
              BY DEF Key, Base
            <6> QED BY <6>1, <6>3, <6>4 DEF Extracted, Usable
          <5> QED BY <5>2, <5>3
        <4>6. (pairs' = pairs /\ ~ Usable(Case)) \/ pairs' = both
          <5>1. ~ Abort
            BY <1>1, <2>1 DEF Abort
          <5> QED BY <1>1, <5>1 DEF ExtractBlock, Usable, WithPair
        <4> QED BY <4>4, <4>5, <4>6
      <3> QED BY <1>1, <2>1, <3>1, <3>2 DEF DirectoryOK
    <2> QED BY <1>3, <2>2, <2>3 DEF ExtractInv
  <1>6. Abort \/ NextBlock
    BY DEF ExtractBlock
  <1> QED BY <1>4, <1>5, <1>6

\* A run does not write the directory.
LEMMA RunsKeepExtractInv ==
    ExtractInv /\ (Run \/ UNCHANGED vars) /\ UNCHANGED <<files, Answer>> => ExtractInv'
  <1> SUFFICES ASSUME ExtractInv, Run \/ UNCHANGED vars, UNCHANGED <<files, Answer>>
               PROVE  ExtractInv'
    OBVIOUS
  <1>1. /\ UNCHANGED <<files, unread, at, complete, pairs>>
        /\ pc' = "extracting" => pc = "extracting"
    BY DEF Run, StartRun, VisitEntry, CannotOpen, RunDone, extractor, vars
  <1>2. FilesOK'
    BY <1>1 DEF ExtractInv, FilesOK
  <1>3. CursorOK'
    BY <1>1 DEF ExtractInv, CursorOK, InFile
  <1>4. StemsDiffer(files)' => DirectoryOK'
    <2>1. ASSUME NEW f, NEW t, NEW b
          PROVE  (Extracted(f, t, b)' <=> Extracted(f, t, b)) /\ (Past(f, t, b)' <=> Past(f, t, b))
      BY <1>1 DEF Extracted, Key, Base, Usable, Past, InFile
    <2> QED BY <1>1, <2>1 DEF ExtractInv, DirectoryOK, StemsDiffer
  <1> QED BY <1>2, <1>3, <1>4 DEF ExtractInv

LEMMA ExtractInvariant == Spec => []ExtractInv
  <1>1. ExtractInv /\ [Next]_vars => ExtractInv'
    BY StartExtractionInv, OpenFileInv, ExtractBlockInv, NextTestInv, NextFileInv,
       ExtractionDoneInv, RunsKeepExtractInv
       DEF Next, Extract, vars
  <1> QED BY <1>1, InitExtractInv, PTL DEF Spec

\* When the files of the fixtures that can be read differ in their names, exit
\* code 0 after an extraction that ended well (main.rs:96-185, main.cpp:128-160)
\* says that the guest answers every case of theirs as it should: whatever was in
\* the directory before, and however often an extraction or a run stopped part way.
\* Of files of one name this does not hold: the run MCSameStem has the behaviour.
THEOREM ZeroSaysFixturesConform ==
    Spec => [](StemsDiffer(files) => ZeroMeansFixturesConform)
  <1>1. ASSUME RunInv, ExtractInv, StemsDiffer(files), complete, exit = 0,
               NEW c \in FixtureCases, {NoBytes, BadHex} \cap {c.input, c.expected} = {}
        PROVE  Answer[c.input] = c.expected
    <2>1. PICK f \in files : f.readable /\
            \E t \in DOMAIN f.tests : \E b \in DOMAIN f.tests[t] : c = f.tests[t][b]
      BY DEF FixtureCases
    <2>2. PICK t \in DOMAIN f.tests : \E b \in DOMAIN f.tests[t] : c = f.tests[t][b]
      BY <2>1
    <2>3. PICK b \in DOMAIN f.tests[t] : c = f.tests[t][b]
      BY <2>2
    <2> DEFINE ik == Key(f, t, b, "input")
               ek == Key(f, t, b, "expected")
    <2>4. /\ ik \in DOMAIN pairs /\ pairs[ik] = c.input
          /\ ek \in DOMAIN pairs /\ pairs[ek] = c.expected
      BY <1>1, <2>1, <2>3 DEF ExtractInv, DirectoryOK, Extracted, Usable
    <2>5. ik \in Inputs /\ Expected(ik) = ek
      BY <2>4 DEF Inputs, Expected, Key
    <2>6. RunCase(ik)
      BY <1>1, <2>5 DEF RunInv
    <2> QED BY <2>4, <2>5, <2>6 DEF RunCase
  <1>2. RunInv /\ ExtractInv => (StemsDiffer(files) => ZeroMeansFixturesConform)
    BY <1>1 DEF ZeroMeansFixturesConform
  <1> QED BY <1>2, RunInvariant, ExtractInvariant, PTL
=============================================================================
