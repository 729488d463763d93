# zilkworm-stateless: TLA+ models, checks and proofs

This directory holds a TLA+ development of the stateless Ethereum block
validator of this repository: the guest program that decides whether a block is
valid from a witness, the three zkVM runtimes and the copy routines it is linked
with, and the pipelines that test and release it. Line numbers are those of the
sources under `src/`.

    tlc -config MCStatelessGuest.cfg MCStatelessGuest     # any other run alike
    tlapm StatelessGuestProofs.tla                        # any *Proofs module alike

`PROJECT.json` lists components, runs, hazards, theorems, and for every
definition that models code the lines it stands for.

## 1. The system

The host gives the guest one private input; the guest writes one public answer;
a proof of the execution binds the two.

    host ── input ──> runtime ── read_input ──> main.cpp
                                                  │ run_stateless_guest
                                                  │   decode SSZ (two schemas)
                                                  │   validate config, headers
                                                  │   execute (silkworm)
                                                  │   compare state root
                                                  │ encode_public_values
    verifier <── public values ── runtime <── write_output ─┘

| Component | State | Operations | Correct when |
|---|---|---|---|
| SSZ decoding (`core/src/stateless.cpp` 40-468) | none; spans into the input | `decode_stateless_input` for 0x0001 and 0x1501 and the decoders under them | never reads outside a span; takes exactly the documented layouts |
| Validation flow (`run_stateless_guest`, 650-974) | prepared failure answer, header hashes, `pre_state_root`, `WitnessState`, block, result | schema switch, config check, header chain check, parent search, ancestor loading, transaction decoding, execution, root check | the answer is the verdict of the input, on every path |
| Public values (976-992, `zkvm/common/main.cpp`) | a 256-byte buffer | encode, write once | every answer fits and is written once |
| SSZ roots (`core/include/z6m/ssz.hpp`, 470-604) | a lazily filled table of zero subtrees | `merkleize`, `htr_*` | equals the SSZ definition |
| State delta (922-966) | changed accounts, `node_store` | collect updates, compute root | the root is that of the state after the block |
| IO interface (`zkvm/common/zkvm_io.h`) | - | `read_input`, `write_output` | input idempotent, output concatenated |
| SP1 runtime | bump heap, public-values buffer, input region, cached input | `_sbrk`, `pv_buf_append`, `read_vec_raw`, `syscall_halt`, `sys_panic` | implements the IO interface, corrupts no memory |
| ZisK runtime | 1024-byte output buffer, output slots | `read_input_raw`, `write_output_bytes`, `sys_halt`, `sys_panic` | same; stays inside the 64 slots |
| OpenVM runtime | bump heap, 256-byte output buffer, cached input | `read_vec_raw`, `hint_buffer_chunked`, `zkvm_io_flush`, terminate, `sys_panic` | same |
| `memcpy`, `memmove` (a 64-bit routine for SP1 and ZisK, a 32-bit one for OpenVM) | memory, registers | byte, word, shift-merge and unrolled loops; backward copy | the destination holds the source as it was; no misaligned or stray access |
| Accelerators (`zkvm/common/zkvm_accelerators.*`) | none | argument conversion to evmone | status codes as declared |
| Conformance (`conformance/`) | a directory of pairs, counters | extract pairs, run, compare | exit code 0 means that every case was met |
| EF runner (`tests/`) | counters | read fixtures, skip, run, compare | a verdict per case, none lost |
| Release and CI workflows | jobs, artifacts | build, rebuild, compare, test, publish | published = reproduced and tested |
| Key generator, benchmark, linker scripts, atomic stubs | none | - | see `PROJECT.json` for why they are left out |

**What is hard.** There is one hart and no concurrency; interleaving appears
only between a runtime and an arbitrary program above it, between the jobs of a
release, and between an extraction that is started again and the runner that
reads its directory. The hard parts are elsewhere: eight early returns of
`run_stateless_guest`, each of which must answer with what was prepared before;
pairs of computations that must agree although they are written separately (two
lookups of the parent, two views of the execution requests, two schemas);
unsigned arithmetic on offsets an input supplies; buffers whose growth, end and
flush are at fixed limits; results that are handed out by returning zero. A
proof is made of whatever the guest answers, so a wrong answer is not retried,
logged or noticed.

## 2. Modules

| Module | Models | Kind |
|---|---|---|
| `SszDecode` | the SSZ decoders of both schemas | pure operators |
| `ValidationSpec` | the verdict of an input, in one expression; what is external | pure operators |
| `StatelessContract` | hold one input, answer once with its verdict | abstract specification |
| `StatelessGuest` | `main` around `run_stateless_guest`, stage by stage | specification and its properties |
| `MCStatelessGuest` | its instance | model checking |
| `StatelessGuestProofs` | theorems about the decoders and the guest | proofs |
| `Merkle`, `ZeroLadder`, `RequestRoot`, `MCRequestRoot` | `merkleize` with its table of zero subtrees; every `htr_*`; processes that use them | operators, specification, instance |
| `StateDelta`, `MCStateDelta` | the collection of updates and the post-state root | specification, instance |
| `RootProofs` | theorems about both roots | proofs |
| `ZkvmIo` | the IO interface and termination | abstract specification |
| `GuestMemory` | byte-addressed memory | pure operators |
| `Sp1Runtime`, `ZiskRuntime`, `OpenvmRuntime` | one runtime each, under any program | specifications |
| `MCSp1Runtime`, `MCZiskRuntime`, `MCOpenvmRuntime` | their instances | model checking |
| `Sp1RuntimeProofs`, `ZiskRuntimeProofs`, `OpenvmRuntimeProofs` | theorems about them | proofs |
| `MemoryMove` | what a copy promises, in one step | abstract specification |
| `CopyCalls`, `MemmoveLoop` | the calls and accesses allowed; `memmove` around `memcpy` | shared by both routines |
| `OpenvmMemcpy`, `Memcpy64`, `GuestMemcpy`, `MCGuestMemcpy` | the two routines, loop by loop; either one, as linked | specifications, instance |
| `GuestMemcpyProofs` | theorems about both routines | proofs |
| `Conformance`, `MCConformance`, `ConformanceProofs` | extraction of the pairs and the run over them | specification, instance, proofs |
| `ReleaseWorkflow`, `MCReleaseWorkflow`, `ReleaseWorkflowProofs` | the job graph of a release | specification, instance, proofs |

`GuestMemcpy` composes the two routines with `memmove`; `StatelessGuest` and
`StateDelta` share one stage of `run_stateless_guest`, in `StatelessGuest` as the
delta of `Execution` and in `StateDelta` account by account.

### 2.1 The guest

`StatelessGuest` keeps the program's control: `pc` names the next stage, each
action is a stage of the source or one iteration of a loop that can return, and
every early return is a step to `"encode"` that leaves `result` alone. The
variables are the program's: `si` the decoded input, `result` the
`StatelessValidatorOutput`, `hashes`, `preRoot`, `ancestors` (what was inserted
into the `WitnessState`), `txs` (`block.transactions`), `executed` (what
`insert_block` produced), `out` (what `write_output` received).

| Action | Lines of `stateless.cpp` |
|---|---|
| `RejectSchema`, `DecodeLegacy`, `DecodeAmsterdam01` | 650-688 |
| `CheckChainConfig` | 386-397, 690-697 |
| `CheckHeaderCount`, `CheckHeader`, `HeadersChecked` | 749-768 |
| `FindParent`, `SkipHeader`, `NoParent` | 784-800 |
| `LoadAncestors` | 800-834 |
| `DecodeTransaction`, `TransactionsDecoded` | 863-888 |
| `ExecuteBlock` (with `ForkSwitches`, `RequestsHashOk`) | 705-747, 826-920 |
| `VerifyStateRoot` | 922-974 |
| `EncodeAndWrite` | 976-992, `main.cpp` 25-33 |

A span is a record of its length and of the values the decoders read at the
positions they read; the bytes between are one opaque value. Offsets keep their
32-bit arithmetic: a difference the code has not checked wraps modulo `U32Mod`,
and the length of the input is cut to it as at line 409.

What is outside `src/` is symbolic and stated in `ValidationSpec`: keccak is
collision free; RLP decoding is a function of the bytes and only accepts the
canonical encoding of a header, so that `header.hash()` is the keccak of the
bytes; the outcome of execution is an arbitrary function of base root, rules,
payload and witness; applying a delta to a root is injective. `Execution` and
the decoders of headers and transactions are CONSTANTS, so the theorems hold
for all of them.

`Verdict(w)` is the reference: the default failure for what does not decode,
and otherwise the request root, the echoed chain config, and whether the fork
is active, the headers are at most 256 and linked, all transactions decode, and
some witness header is the parent on whose state the block executes to the
claimed root. The guest computes this by a different route (it searches by
hash, looks up by number and hash, sets switches one by one), which is what
`Implements` compares.

### 2.2 The runtimes

Each runtime is modelled under an arbitrary program that may allocate, read the
input, write output in chunks, panic and return a code; it is checked to
implement `ZkvmIo` under a refinement mapping: `view` is what `read_input`
points at *in memory now*, so a later overwrite of the input is a violation;
`public` is what the verifier sees once the machine has stopped; the bytes
written are the abstract output. `ZkvmIo` lets public values be padded with zeros
(`openvm_runtime.cpp` 161-162, `zisk_syscalls.hpp` 144-145), and lets a panic
publish the output so far or nothing, always with a failing code.

`Sp1Runtime` models memory byte by byte because its buffer moves. A
`write_output` takes several steps there: `WriteOutput` is the ecall, by which
the host has the bytes, `DoubleCapacity` one turn of the loop of
`pv_buf_append`, `PvBufAppend` the rest of it, which copies a buffer that is too
small to the top of the heap and leaves the old one behind. `OpenvmRuntime` reads
the payload one hint chunk per step and reveals one word per step. `ZiskRuntime`
fills one slot per step. Host behaviour (hint streams, mapped input, zeroed output areas) is
external.

### 2.3 The copy routines

`CopyCalls` holds the calls a program may make (`memcpy` on disjoint areas,
`memmove` on any) and what an access must be: aligned to its width and inside
the area it belongs to. `MemmoveLoop` is `memmove`, which forwards to `memcpy`
or copies backward byte by byte; both routines extend it with their loops, one
action per loop or unrolled block of the assembly (`AlignSource`, `CopyWords`,
`StoreFirstBytes`, `MergeWords`, `UnrolledBytes`, ...; for 32 bits `CopyWord`,
`CopyByte`). A register is the sequence of its bytes and a shift is counted in
bytes; `JumpTable` gives the shifts, limit and set-back of the row for each
offset of the destination. Loads that run ahead of their stores are kept apart
(`word`, `held`), because overlapping areas reach `memcpy` through `memmove`.
ZisK's file differs from SP1's in the width of the table entries only.

### 2.4 Roots

`Merkle` has the functions of `ssz.hpp`; the hash is symbolic and free of
collisions, so that two roots are equal exactly when the trees are.
`zero_subtree_root` returns the table it has extended, and `ZeroLadder` makes
calls one after the other on the same table. `RequestRoot` has each `htr_*` field
by field, and beside it an SSZ definition of the request types, from which the
reference root is computed by other means: the types are written as a list of
fields and limits, the reference pads to the limit instead of walking rows.

`StateDelta` visits the changed accounts in any order. The trie's root is its
contents; the state after the block, and the lists of changed accounts and
slots, which contain at least what differs, are those `WitnessState` gives.

### 2.5 Pipelines

`Conformance` has `extract_eest` with the order of files left open, its failures
between and within pairs, its restarts over a directory that already holds
something, and the native runner, which may be started whenever no extraction is
going on. `ReleaseWorkflow` has the jobs of `release.yml` with `needs` as in the
file; any job may fail, a maintainer runs single jobs again (which resets those
that need them), days pass, and an artifact is gone after `RETENTION_DAYS`. The
scheduler and the artifact store are external.

## 3. Runs

| Run | Shows | Distinct states |
|---|---|---|
| `guest` | the guest implements `StatelessContract` (safety and liveness) and keeps `TypeOK`, `StageInv`, `SameParentState`, `ExecutesCommittedBlock`, `RequestsMatchRoot`, `AlwaysFits`, `ReadsInBounds`, `EchoIsStable` | 35 975 |
| `short_request` | finding 1 below | violation |
| `header_links` | finding 2 below | violation |
| `request_root` | `ListsMatchSsz`: `merkleize` gives each list its SSZ root, whatever the table holds; `RootsMatchSsz`: so is the committed root; `RootBindsRequest`: different requests have different roots; `RowsAreKept` | 64 713 |
| `state_delta` | `RootWithoutRemovals`: the root is that of the state after the block if no account is removed | 42 407 |
| `removed_accounts` | finding 3 below | violation |
| `sp1_runtime` | `MemoryIntact`, `WritesReturn` (the doubling loop ends), `Implements` | 197 732 |
| `zisk_runtime` | `SlotsInRange`, `Implements` | 4 206 |
| `openvm_runtime` | `HintsStayInBlock`, `Implements` | 38 977 |
| `memcpy` | both routines and both directions: `AccessesAllowed`, and `Implements` of `MemoryMove`, termination included | 40 023 |
| `conformance` | `ExitZeroIffAllMatch`, `ZeroMeansFixturesConform` | 588 635 |
| `release_workflow` | `PublishesChecked`: what is published was rebuilt and tested in its last state; `RunSettles`: no job waits for ever | 97 256 |

**Bounds of `guest`.** The inputs are four families, each varying one part of
an input that is otherwise accepted, under both schemas: every list of up to
three headers out of six preimages (a linked chain, a sibling, a header with a
wrong number, one that does not decode, an empty entry) under payloads built on
each kind of parent; every list of up to two transactions out of three with
every outcome of execution and both request forms; chain configs with all forks,
activation lists, blob schedules and every single field out of place; lengths
and offsets around every limit, including lengths past the u32 range.
`MAX_WITNESS_HEADERS` is 2 instead of 256 so that three headers are too many;
`U32Mod` is 2048, above every well-formed length of the instance, so that the
wrap-around happens only where 2^32 would make it happen. Three headers are
enough for a header that is neither first nor last, and the code compares only
neighbours. Every property of the run is known to be broken by a plausible
change of the code (the operators commented "Mistake").

**Bounds of the runtimes.** Initial capacity 2 instead of 4096, so that output
of 6 bytes makes the SP1 buffer move several times, once by more than one
doubling; 2 output slots instead of 64 with, as in the code, a buffer four
times as large; hint reads of 2 words instead of 1023, with inputs of no, one
and several chunks and partial words; output buffers of 8 bytes. `HeapLimit`
and `MaxOutput` bound the program, `MaxMemory` the memory. The return codes are
those for which a cast to a byte does not change success into failure: `main`
returns 0.

**Bounds of the roots.** Chunks are 2 bytes instead of 32 and the table has 4
rows instead of 64, so that the last row is used. Byte vectors keep their
relation to a chunk: shorter (address), equal (hash), one and a half (public
key), several. Requests are, for each of the three shapes and schemas, those
that differ from an empty one in one field, one list length or one field of one
item, with lists up to their limits; pairs of them, so that the binding of root
to request is checked for every two. Lists of chunks contain zero chunks, which
look like padding, with limits 0 to 6, powers of two and not. Two processes.

**Bounds of `state_delta`.** Two accounts with two slots each, three values of
the account fields, and every pair of states with every list of changes that
pair allows; accounts and slots are interchangeable, hence the symmetry. The
theorem removes the bound.

**Bounds of `memcpy`.** Every destination offset modulo 8, sources aligned and
not, all lengths up to 9 and those around 16, 32, 64 and 96, where the code
branches: tails alone, one to three turns of the merge loop with the remainders
that end it. `memmove` from 0 to 8 bytes below its source and 1 to 17 above it.
Every byte differs, so that a byte out of place shows. `MaxLength32` bounds the
32-bit routine, which has no unrolled blocks.

**Bounds of `conformance`.** Two sets of up to three files with several tests
and blocks (no stateless fields, not hexadecimal, unreadable file), a guest that
is right or wrong on one input, and directories that are empty or hold leftover
files of the same and of other names. Counters end with the pairs, so nothing
else is bounded.

**Bounds of `release_workflow`.** Two guests, builds with two outcomes,
`MaxDays` 3 and `MaxReruns` 2 with a retention of one day: a build can be run
again after its artifact has expired and a rebuild or a publication after that.

**Fairness.** `StatelessGuest` assumes `WF_vars(Step)`: one thread runs the
program to its end, loops are over lists of the input, and nothing waits. The
copy routines assume weak fairness of their only step for the same reason.
`Sp1Runtime` assumes it of the steps of `pv_buf_append` alone, which nothing
interrupts; the program above a runtime may never return, so the runtimes assume
nothing else. `ReleaseWorkflow` assumes that a job that can run does
(`WF_vars(JobStep)`), which is the scheduler's part; neither re-runs nor the
passing of days are fair. Systems that stop take a stuttering step
(`Terminated`, `Returned`, `Over`, `Done`, `Compared`), so deadlock is checked
everywhere.

## 4. Findings

1. *A request that cannot be decoded is answered as a zero request*
   (`short_request`). `stateless.hpp` 49-51 promises the default failure for
   "an input that fails to decode". `decode_new_payload_request` (line 252)
   returns a value-initialised request for a span under 44 bytes; its payload
   shape is enumerator zero, ElectraFulu, which the callers accept. The answer
   then carries the hash root of an all-zero request.
2. *Empty witness headers are not linked* (`header_links`). The comment at line
   759 says each header's parent hash is checked; zero-length entries are
   passed over, and a block with one in its witness is accepted.
3. *Removed accounts stay in the trie* (`removed_accounts`). Line 954 skips an
   account that no longer exists after the block, so no update deletes its leaf.
   A block that removes an account of the parent's state gets the root of a
   state that still has it, and a correct block is refused.

Disagreements that only show at sizes or names this guest and its fixtures do
not reach have configurations of their own, to be run by hand; each ends in a
counterexample:

| Configuration | Violates | The text and the code |
|---|---|---|
| `MCZiskSlots` | `SlotsInRange` | `zisk_syscalls.hpp` 45 and 139 say "up to 64 u32 slots"; the buffer (`zisk_runtime.cpp` 138) takes 1024 bytes, and the flush has no bound |
| `MCOpenvmOutput` | `OutputIsConcatenated` | `zkvm_io.h` 39 says writes "are observed as if their byte buffers were concatenated"; `openvm_runtime.cpp` 155 drops what exceeds 256 bytes, with success |
| `MCOverLimit` | `RootBindsRequest` | `stateless_types.hpp` 136 gives `extra_data` the type `ByteList[MAX_EXTRA_DATA_BYTES]`; the decoder (`stateless.cpp` 237) takes any length, and the root drops what lies past the limit |
| `MCIncompleteRelease` | `ReleaseIsComplete` | `release.yml` 4-7 builds the three guests and "publishes a GitHub Release"; with artifacts that expire after a day (line 156), a publication that is run again lacks the guests whose artifacts are gone |
| `MCSameStem` | `ZeroMeansFixturesConform` | `main.rs` 255 calls `{stem}__t{test}_b{block}` a "unique name"; two files of one name in different directories overwrite each other's pairs |

The first two need a program that writes more than 256 bytes: this guest never
does (`AlwaysFits`), a later one might.

## 5. Proofs

Eight modules hold 28 theorems and the lemmas they rest on, for every value of
the constants that satisfies the named assumptions.

`StatelessGuestProofs`:

- `StagesHold`: `Spec => [](TypeOK /\ StageInv)`. None of the safety properties
  is inductive: that an accepted block ran all its transactions depends on what
  the decoding loop has done so far, and that the two parent lookups agree on
  the search before it. `StageInv` says what each stage may rely on: the prepared
  failure (`Prepared`), the hashes of all headers, the linked prefix, the prefix
  without the parent, `PreRootFound`, the transactions decoded so far, the
  outcome of execution; and that a final answer is the verdict (`Answered`). The
  proof has one lemma per action (`CheckHeaderInv`, `ExecuteBlockInv`, ...), and
  lemmas for the agreements: `RulesAgree` (switches and rules of the fork),
  `ForkActiveAgrees`, `StoredIsParent`, `SameRoot`, `VerifyDecides`. An early
  return is right because `RejectIsVerdict`: the prepared failure is the verdict
  of whatever is not acceptable.
- `TypeCorrect`, `ParentStatesAgree`, `CommittedBlockExecuted`,
  `AcceptedRequestsMatchRoot`, `OutputAlwaysFits`, `DecodersReadInBounds`,
  `EchoNeverChanges`: the properties of the run, from that invariant.
- `ImplementsContract`: initial states and steps of the guest are those of
  `StatelessContract`, or invisible. This is the safety half of `Implements`.
- `LegacyConfigReadsInBounds`, `Amsterdam01ConfigReadsInBounds`: both chain-config
  decoders read inside their span whatever it contains. `InputSlicesInBounds`: the
  four top-level slices are ordered and inside the input, also for inputs longer
  than a u32 can say.

Assumptions: `HeaderAssumption` (keccak is never zero, header fields have their
types), `TxAssumption`, `LimitsAssumption` (a buffer of at least 37 + 76 bytes;
the code has 256), `U32ModAssumption`, `WiresAssumption` (inputs are what a host
can provide). TLC evaluates them, and those below, on the instances.

`RootProofs`, in three parts.

- *Lists get the root of SSZ* (`ListRoots`, `RowsKept`, `RequestRoots`). The
  recursive functions of `Merkle` need induction over numbers, which is made from
  the least element of a set of numbers (`NatLessThanWellFounded` and `WFMin` of
  the library; `Induction`, `Recursion`). It gives the tree as the hash of its two
  halves (`HalvesAre`, `HalvesOfHigher`), while the reference hashes level by
  level. The invariant `LadderInv` says that the table is valid: each filled row
  is the root of the subtree of zeros of its height (`ValidTable`). A call keeps
  it so and returns the right root (`MerkleizePowerOfTwoRight`, `MerkleizeRight`,
  `CallRight`), provided that the tree is no higher than the table has rows for
  (`HasRows`, one level above the last row): `LimitsAssumption` and
  `RequestsAssumption` ask that of the limits; the largest of the code, 2^30 bytes,
  makes a tree of height 25 for a table of 64 rows. Then each `htr_*` function has the root of its type, from
  `htr_byte_vector` up to `htr_new_payload_request` (`RequestRootIs`), for requests
  within their limits (`WithinLimits`) that are of one of the two schemas
  (`OfSchema`).
- *Equal roots are roots of equal requests* (`RequestsBound`). The symbolic hash
  writes brackets around its arguments, and a word, something built from chunks by
  hashing, can be read from a place in a string in one way only (`UniqueAt`,
  `HashesAreUnique`): hence `HashBinds`. `MerkleizeBinds` follows for two lists
  under one limit whose lengths are mixed in, or fixed. Level by level, equal roots
  tell equal values (`Tells`), with the bytes of each chunk, the fields of each
  item, the items of each list. Two payloads of 17 and of 19 fields have trees of
  one height; leaf 18 tells them apart (`ShapesDiffer`), where one has padding and
  the other a hash. Requests of 3 and of 5 lists have trees of heights 2 and 3
  (`SchemasDiffer`). The two schemas limit the block access list differently, so
  payloads are compared only once the execution requests have told the schema. The
  theorem assumes that every request is within the limits: `MCOverLimit` shows the
  property false otherwise. Of SHA-256 it takes that no two pairs have the same hash
  and, for `ShapesDiffer` and `SchemasDiffer`, that a hash is neither the zero chunk
  nor the chunk of a length; both come with the symbolic `Hash` of `Merkle`.
- *The post-state root* (`PostStateRoot`), for any accounts, slots and values. The
  invariant says that the updates are those of the visited accounts that changed
  and exist; `StorageRootIsPost` says that each carries the storage after the
  block, whether the account was created, changed or created again, and
  `UpdatedIsPost` that they suffice once all have been visited.

`Sp1RuntimeProofs`: `Sp1MemoryIntact` and `Sp1MeetsIo`, the whole of
`Implements` (its abstract specification has no fairness). `MemoryIntact` is not
inductive: that a copy spares the program's blocks needs the layout. `IInv` adds
it: blocks and buffer are disjoint below the heap pointer (`Apart`), the heap is
below the input region. The second is arithmetic: each capacity is at least
twice the one before, so all buffers together take less than twice the last,
which is less than twice the output (`LayoutOK`, `LoopOK`). `RuntimeAssumption`
asks for that much room, and for hint vectors that end inside memory; the code's
region begins 2^37 - 2^34 bytes up.

`ZiskRuntimeProofs`: `ZiskSlotsInRange` and `ZiskMeetsIo`. The invariant relates
the slot counter to the bytes taken (`FlushOK`). They assume output no longer
than the slots and the buffer, which is what `MCZiskSlots` shows to be needed.
Lengths of inputs are below 256, one digit of the record length.

`OpenvmRuntimeProofs`: `HintsInBlock` without further assumption, `OpenvmMeetsIo`
for output no longer than the buffer (see `MCOpenvmOutput`). `HintsOK` says that
what has been read is in the block and what is left in the hint stream fits in
the rest of it.

`Sp1MeetsIo` and `ZiskMeetsIo` assume that no return code but 0 is a multiple of
256, because the code is cut to a byte (`sp1_runtime.cpp` 300, `zisk_runtime.cpp`
131); `main.cpp` returns 0.

`GuestMemcpyProofs`: `MemcpyAccessesAllowed` and `MemcpyImplementsCopy` (the
safety half of `Implements`), for both routines and every memory and call that
satisfies `CallsAssumption`. `IInv` says that what has been copied is a prefix of
the source as it was before the call, or in the backward loop of `memmove` a
suffix. Its core is that what is still to be loaded has not been overwritten,
which is where the direction of `memmove` matters. `Progress64` adds, loop by
loop, what the 64-bit routine relies on: the alignment reached, that the
registers that were read ahead (`word`, `held`) hold the source bytes that come
next, how far ahead the source pointer is in each row of the jump table, and for
the unrolled tail that the bits of `n` not yet tested say what remains.

`ConformanceProofs`: `ExitSaysAllMatch`, for any fixtures, guests, failures and
restarts. `RunInv` says that the failures counted are zero exactly if all inputs
visited so far match. `ZeroSaysFixturesConform`: exit code 0 after a complete
extraction means that the guest meets every block of every fixture. `ExtractInv`
says that every block the extraction has passed is in the directory with the
bytes of the fixture, and that what it has yet to write will not overwrite them.
The theorem assumes that readable fixture files differ in their stems
(`StemsDiffer`): `MCSameStem` shows the property false otherwise.
`FixturesAssumption` says that a fixture has a sequence of tests, each a sequence
of blocks.

`ReleaseWorkflowProofs`: `ReleasePublishesChecked`, for any number of guests,
builds, days and re-runs. The invariant is that a job which has ended still has
all it needs successful (`NeedsAreOk`: re-running a job resets its dependents,
`DependentsAreClosed`), that a guest has one staged artifact, and that a
successful rebuild made the ELF of that artifact (`Reproduced`).

Only model-checked: liveness, which TLAPS does not prove under fairness (the
guest answers, copies return, `WritesReturn`, `RunSettles`, and so the other half
of the two `Implements` with fairness). No safety invariant of a passing run is
left without a theorem. The three runs that end in a violation are
counterexamples and have nothing to prove.

## 6. Not modelled

- Out-of-range reads through the offsets inside request, witness and byte lists
  (lines 103-116, 232-241, 262-272, 280-284), which the code does not compare
  with the span: the model gives them in-range values only.
- `rlp::decode` of the genesis header, whose result is ignored (830): the model
  takes an undecodable one as a header no `parent_hash` names.
- The accelerators, which convert arguments for third-party cryptography and
  keep no state; the EF blockchain test runner; the mock vectors, the mode of the
  native runner that runs a single pair; signing, attestation and the CI
  workflow, whose jobs do not depend on each other. Cryptography, the EVM and the
  trie are in submodules that are not part of the tree.
- The ecall wrappers of `sp1_syscalls.hpp`, entry-point assembly, linker scripts,
  key generation, benchmark, atomic stubs: nothing a state machine would say
  about them (see `PROJECT.json`).

## 7. Plan

1. `GuestOnRuntime`: main composed with a runtime, so that what the verifier sees
   is an encoding of the verdict, zero-padded, or a failing exit. The parts are
   proved: `ImplementsContract` above, `Sp1MeetsIo` and its siblings below.
2. `EfRunner`: skip list, expected exceptions and the verdict of a suite.
