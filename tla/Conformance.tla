------------------------------ MODULE Conformance ------------------------------
(***************************************************************************)
(* The conformance pipeline: extract_eest (conformance/src/main.rs) writes *)
(* an input and an expected output per block of the fixtures into a        *)
(* directory, and the native runner (conformance/native/main.cpp) runs the *)
(* guest on every pair it finds there.  An extraction can stop part way    *)
(* and be started again; the runner may be started whenever none is going  *)
(* on.                                                                     *)
(***************************************************************************)
EXTENDS Integers, Sequences, FiniteSets

CONSTANTS
    Fixtures,           \* sets of fixture files: [path, stem, readable, tests]
    NoBytes,            \* a block without stateless fields
    BadHex,             \* a field that is not hexadecimal
    Guests,             \* functions from input bytes to public values
    Leftovers           \* what the output directory may hold beforehand

IsSequence(s) == Len(s) \in Nat /\ DOMAIN s = 1..Len(s)

\* The tests of a file are a sequence, and so are the blocks of a test.
ASSUME FixturesAssumption ==
    \A F \in Fixtures : \A f \in F :
        IsSequence(f.tests) /\ \A t \in DOMAIN f.tests : IsSequence(f.tests[t])

VARIABLES
    files,              \* the fixtures at hand, out of Fixtures
    Answer,             \* the guest under test, out of Guests
    pc,                 \* "idle", "extracting", "running"
    unread,             \* files the extraction has not come to
    at,                 \* the block it is at: [file, test, block]
    complete,           \* the last extraction ended with Ok
    pairs,              \* the directory: [base, kind] -> bytes
    unvisited,          \* inputs the runner has not come to
    pass, fail,
    exit                \* exit code of the last run; -1: none since an extraction

vars == <<files, Answer, pc, unread, at, complete, pairs, unvisited, pass, fail, exit>>
extractor == <<unread, at, complete, pairs>>
runner == <<unvisited, pass, fail, exit>>

NoBlock == [file |-> {}, test |-> 0, block |-> 0]
InFile == at.test > 0

Init ==
    /\ files \in Fixtures /\ Answer \in Guests
    /\ pc = "idle"
    /\ unread = {} /\ at = NoBlock /\ complete = FALSE
    /\ pairs \in Leftovers
    /\ unvisited = {} /\ pass = 0 /\ fail = 0 /\ exit = -1

-----------------------------------------------------------------------------
\* The order of read_dir is that of the file system.
StartExtraction ==
    /\ pc = "idle"
    /\ pc' = "extracting"
    /\ unread' = files /\ at' = NoBlock /\ complete' = FALSE
    /\ exit' = -1
    /\ UNCHANGED <<pairs, unvisited, pass, fail>>

\* An unreadable file is counted and passed over.
OpenFile ==
    /\ pc = "extracting" /\ ~ InFile
    /\ \E f \in unread :
        /\ unread' = unread \ {f}
        /\ at' = IF f.readable THEN [file |-> f, test |-> 1, block |-> 1] ELSE NoBlock
    /\ UNCHANGED <<pc, complete, pairs, runner>>

\* Mistake: blocks are numbered across the tests of a file by position only.
BaseWithoutTest(stem, test, block) == <<stem, 0, block>>

\* {stem}__t{test_idx}_b{block_idx}
Base(stem, test, block) == <<stem, test, block>>

Case == at.file.tests[at.test][at.block]
InTests == InFile /\ at.test <= Len(at.file.tests)
InBlocks == InTests /\ at.block <= Len(at.file.tests[at.test])

Written(dir, file) ==
    [k \in DOMAIN dir \cup DOMAIN file |->
        IF k \in DOMAIN file THEN file[k] ELSE dir[k]]

\* The two files of a pair; the third, the name for triage, nothing reads.
InputFile(base, bytes) == [k \in {[base |-> base, kind |-> "input"]} |-> bytes]
ExpectedFile(base, bytes) == [k \in {[base |-> base, kind |-> "expected"]} |-> bytes]

Abort ==
    /\ pc' = "idle"
    /\ UNCHANGED <<unread, at, complete, runner>>

NextBlock ==
    /\ at' = [at EXCEPT !.block = @ + 1]
    /\ UNCHANGED <<pc, unread, complete, runner>>

\* One block: passed over without stateless fields; a field that does not decode
\* or a file that cannot be written ends the extraction, after neither file or
\* the input alone has been written.
ExtractBlock ==
    /\ pc = "extracting" /\ InBlocks
    /\ LET base == Base(at.file.stem, at.test, at.block)
           input == InputFile(base, Case.input)
           expected == ExpectedFile(base, Case.expected)
       IN  IF NoBytes \in {Case.input, Case.expected} THEN NextBlock /\ UNCHANGED pairs
           ELSE IF BadHex \in {Case.input, Case.expected} THEN Abort /\ UNCHANGED pairs
           ELSE \/ Abort /\ pairs' \in {pairs, Written(pairs, input)}
                \/ NextBlock /\ pairs' = Written(Written(pairs, input), expected)

NextTest ==
    /\ pc = "extracting" /\ InTests /\ ~ InBlocks
    /\ at' = [at EXCEPT !.test = @ + 1, !.block = 1]
    /\ UNCHANGED <<pc, unread, complete, pairs, runner>>

NextFile ==
    /\ pc = "extracting" /\ InFile /\ ~ InTests
    /\ at' = NoBlock
    /\ UNCHANGED <<pc, unread, complete, pairs, runner>>

ExtractionDone ==
    /\ pc = "extracting" /\ ~ InFile /\ unread = {}
    /\ pc' = "idle" /\ complete' = TRUE
    /\ UNCHANGED <<unread, at, pairs, runner>>

-----------------------------------------------------------------------------
Inputs == {k \in DOMAIN pairs : k.kind = "input"}
Expected(k) == [k EXCEPT !.kind = "expected"]

StartRun ==
    /\ pc = "idle"
    /\ pc' = "running"
    /\ unvisited' = Inputs /\ pass' = 0 /\ fail' = 0 /\ exit' = -1
    /\ UNCHANGED extractor

\* Mistake: an input without its expected output is not a case.
MissingIsSkipped(k) ==
    Expected(k) \notin DOMAIN pairs \/ Answer[pairs[k]] = pairs[Expected(k)]

\* Length and bytes of the encoded public values are those expected.
RunCase(k) ==
    Expected(k) \in DOMAIN pairs /\ Answer[pairs[k]] = pairs[Expected(k)]

VisitEntry ==
    /\ pc = "running"
    /\ \E k \in unvisited :
        /\ unvisited' = unvisited \ {k}
        /\ IF RunCase(k) THEN pass' = pass + 1 /\ UNCHANGED fail
                         ELSE fail' = fail + 1 /\ UNCHANGED pass
    /\ UNCHANGED <<pc, exit, extractor>>

\* read_file exits with 2 on a file it cannot open.
CannotOpen ==
    /\ pc = "running" /\ unvisited # {}
    /\ pc' = "idle" /\ exit' = 2
    /\ UNCHANGED <<unvisited, pass, fail, extractor>>

RunDone ==
    /\ pc = "running" /\ unvisited = {}
    /\ pc' = "idle"
    /\ exit' = IF fail = 0 THEN 0 ELSE 1
    /\ UNCHANGED <<unvisited, pass, fail, extractor>>

Extract ==
    \/ StartExtraction \/ OpenFile \/ ExtractBlock
    \/ NextTest \/ NextFile \/ ExtractionDone

Run == StartRun \/ VisitEntry \/ CannotOpen \/ RunDone

Next == (Extract \/ Run) /\ UNCHANGED <<files, Answer>>

Spec == Init /\ [][Next]_vars

-----------------------------------------------------------------------------
\* The runner's promise (main.cpp, line 14): its exit code is 0 exactly when every
\* input in the directory has an expected output that the guest's answer equals.
ExitZeroIffAllMatch ==
    exit \in {0, 1} =>
        (exit = 0 <=> \A k \in Inputs :
                        /\ Expected(k) \in DOMAIN pairs
                        /\ Answer[pairs[k]] = pairs[Expected(k)])

\* The cases of the fixtures that could be read.
FixtureCases ==
    UNION {UNION {{f.tests[t][b] : b \in DOMAIN f.tests[t]} : t \in DOMAIN f.tests} :
            f \in {g \in files : g.readable}}

\* After an extraction that ended well, exit code 0 says that the guest answers
\* every case of the fixtures as they ask, whatever was in the directory before,
\* in whatever order the files were read and however often it was started again.
ZeroMeansFixturesConform ==
    complete /\ exit = 0 =>
        \A c \in FixtureCases :
            {NoBytes, BadHex} \cap {c.input, c.expected} = {} => Answer[c.input] = c.expected
=============================================================================
