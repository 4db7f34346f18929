# A TLA+ model of clvm_rs

clvm_rs runs and serializes CLVM programs: binary trees whose leaves are byte
strings (atoms). This directory holds TLA+ modules for its core and its Python
package, TLC configurations that check them on small instances, and TLAPS
proofs of what matters most for every instance. `PROJECT.json` lists for each
definition the lines of source it stands for, the runs, the hazards and the
findings.

## The system

| part | source | state | operations | module |
|---|---|---|---|---|
| allocator | `src/allocator.rs` | a byte heap, a vector of pairs, a vector of slices, a count of small atoms | `new_*`, `checkpoint`, `restore_checkpoint`, readers | `Allocator`, driven by `AllocatorClient`; abstractly `Arena` |
| path lookup | `src/traverse_path.rs` | none | `traverse_path`, `traverse_path_fast` | `PathTraversal` |
| operators | `src/op_utils.rs`, `more_ops.rs`, `bls_ops.rs`, `secp_ops.rs`, `core_ops.rs`, `keccak256_ops.rs` | the arena they are given | one operator each | `OpUtils`, `Costs`, `MoreOps`, `BlsOps`, `Dialect` |
| dialects | `src/chia_dialect.rs`, `runtime_dialect.rs`, `f_table.rs` | flags, a table | `op`, `softfork_extension` | `Dialect` |
| interpreter | `src/run_program.rs` | values, environments, pending operations, softfork guards, cost | the loop of `run_program` | `RunProgram`; two of them in `DialectPair` |
| readers and writer | `src/serde/de.rs`, `de_br.rs`, `de_tree.rs`, `tools.rs`, `ser.rs`; `ser.py`, `de.py` | a cursor, a stack of operations, a stack of values | one loop each | `Streams` |
| atom encoding | `src/serde/write_atom.rs`, `parse_atom.rs`, `serialized_length.rs` | none | write, predict, parse | `AtomCodec` |
| back references | `src/serde/read_cache_lookup.rs` | the reader's stack as hashes, counts, parents | `push`, `pop2_and_cons`, `find_path` | `ReadCacheLookup` |
| compressing serializers | `src/serde/incremental.rs`, `ser_br.rs` | operations the reader will do, nodes to write, the output | `add`, `restore`, `node_to_stream_backrefs` | `Serializer` |
| object cache | `src/serde/object_cache.rs` | values by node, a work list | `get_or_calculate` | `ObjectCache` |
| Python package | `wheel/python/clvm_rs`, `wheel/src` | objects with caches | methods of `Program`, the calls into Rust | `PyProgram` |

The interpreter owns an allocator, resolves paths in it and hands operators to
the dialect; a softfork guard takes a checkpoint of the allocator and restores
it on exit. The serializer keeps a picture of the reader's stack in a
`ReadCacheLookup`, asks the object caches for hashes and lengths, and writes
paths that the reader will resolve with `traverse_path`. A Python `Program`
wraps other Programs, a place in a blob that was parsed, or a node of an arena
that came back from a run; to run, it is serialized and read again by Rust.

Nothing here is concurrent. What is hard is long: state that four stacks must
agree on, memory given back while pointers are held, two representations of
one value, a picture of somebody else's state, eight readers of one format,
caches filled by one object and used by another, limits that are met half-way
through an operation, and two nodes of a network that must agree although
their rules differ.

## Modules

`Allocator` has no variables: an allocator is a record and each operation an
operator from an allocator to `[ok, a, node]`, so that a client, the operators,
the interpreter and the readers share it. Vectors are sequences;
`NodePtr.index` keeps the code's numbering. The widths are constants (`BYTE`,
`SMALL_LEN`, `SMALL_TOP`: 256, 4 and 3 in the code), so that small instances
have every kind of atom: small and large, with and without a leading zero.
Arithmetic is that of a release build: `heap_limit - u8_vec.len()` is taken
modulo `USIZE`, and positions in the heap are cut to a `u32` (modulo `U32`) in
the places where the code casts them. A heap is `Addressable` when its length
is a `u32`, and a node `Readable` when `atom()` finds its slice. `new_g1` and `new_g2` are `new_atom` of a curve point's bytes.

`AllocatorClient` calls the operations in any order with any valid nodes.
`new_concat` is a loop that grows the heap before it knows whether it will
succeed; it has one action for each turn and each way out. Checkpoints are
restored the way `run_program` does it, forgetting newer ones. The client can
take the heap past `heap_limit` (see the run `heap_limit`) and past what a `u32`
addresses; there a buffer may end before it starts, and `extend_from_within`
panics on it, so the client stops before such a turn. The modules of the
operators, the interpreter and the readers work on addressable heaps: their
instances have room for far more than their programs allocate. The variable
`saved` keeps with each checkpoint the allocator it was taken of, which the
program does not have; only properties read it.

`Arena` is what an allocator promises: a store of immutable nodes, a step of
which adds one node made of nodes that are there, makes a mark, or goes back to
the store at a mark. `AllocatorClient` implements it (`ImplementsArena`); the
mapping reads the nodes out of the vectors, and the marks out of `saved`.

`PathTraversal` gives both traversals as one walk over a sequence of bits; the
bits and the cost are computed the way each function does it.

`OpUtils`, `MoreOps`, `BlsOps` and the core operators in `Dialect` are one
definition per operator of the crate: arguments, conversions, the budget tests
inside loops, allocation and cost, on an allocator. Numbers are integers.
Which of several errors is returned is left out. The hashes are parameters.
The curves are external: a group of small prime order whose points are written
in the libraries' compressed form, with the pairing as a product; the
signatures that verify are a set. `Costs` holds the constants.

`Dialect` has both tables, the flags, the softfork extensions and the unknown
operators with their cost functions, whose product is taken modulo `COST_MOD`
(2^64) before it is compared. `LIMIT_HEAP` is no flag of the model: no dialect
reads it, it tells whoever makes the allocator to use `new_limited`.

`RunProgram` takes one turn of the loop per action. `EvalPair` is called from
three places with the stacks its caller has left. The loop that pushes operands
is unrolled. An error ends the call and leaves the stacks, which the program
drops. Costs are modulo `COST_MOD`. A panic, a failed `expect` and
the "stack empty" errors have statuses of their own.

`DialectPair` runs the same call on a second interpreter with a laxer dialect.

`Streams` has every reader as its turn and a loop over turns, on bytes: the
plain one, the one of back references with its record, the two that only find
the length, the tree hash, `parse_triples`, and the two readers written in
Python; and the writer with its limit. A hash is its preimage. `AtomCodec` has
the code's own numbers; a 64-bit size is two numbers, because TLC's integers
have 32 bits. It covers every size that `write_atom` accepts, up to 2^34 - 1,
with the cast of the length to a `u32` in `serialized_length_atom` and with the
heap of an empty allocator, which `parse_atom` cannot exceed.

`ReadCacheLookup` and `Serializer` identify a tree with its hash. The maps
`count` and `parent_lookup`, the order of parents, and the breadth-first search
with its limit are as in the code. A path is written to bytes by
`reversed_path_to_vec_u8` and read from them by `traverse_path`; the bits of a
byte and the lengths at which a prefix grows are constants (`BITS`,
`PREFIX_LIMITS`). The output is a sequence of tokens, and the reader of back
references is here a loop over tokens. In `add` an atom always
has a hash (only the sentinel has none, and it never gets there), so lines
126-129 of `incremental.rs` have no counterpart.

`ObjectCache` is the loop of `calculate` on a graph of shared nodes, with any
function given by its value on atoms and how it combines two children.

`PyProgram` has Python's heap of objects; an object is a position in it, and a
method is an operator from a heap to a heap, because reading an object may
create its members and fill its caches. The two ways into Rust are
`deserialize_as_tree` (the triples of `Streams`) and
`run_serialized_chia_program`, whose result is some node of the arena.

The modules `MC...` instantiate these for TLC and add reference definitions.

## What TLC checks

Definitions whose comment starts with "Bug:" are variants of the one that
follows; each property has one that breaks it, and they are used nowhere else.

| run | properties | question | result |
|---|---|---|---|
| `allocator` | `ArenaIsSound`, `NoStrayBytes`, `CheckpointsRestore`, `AtomsAreTheirBytes`, `ImplementsArena` | is the arena a sound store of immutable nodes under every sequence of calls, past the limit of the heap too? | yes; atoms can be read as long as the heap is addressable |
| `heap_limit` | `HeapWithinLimit` | does the heap stay within `heap_limit`? | no: `new_substr` of a small atom does not test it |
| `operators` | `PathsMatchReference`, `OnlyBytesMatter`, `BudgetOnlyRejects`, `OnlyAdds`, `NumberLaws`, `StringLaws`, `PointLaws` | do paths and operators compute the right thing, whatever form the atoms have, whatever budget and room there is? | yes |
| `run` | `ContextIsSound`, `StacksInStep`, `MatchesReference`, `Terminates` | does the machine compute what a recursive evaluator does, with its stacks in step, and return? | yes |
| `run_unlimited` | `CostNeverDecreases` | with `max_cost` 0, can the cost wrap? | it can |
| `dialect_pair` | `StricterOnlyRejects`, `CallerCanRestore`, `NeverFaults`, `NoDanglingNodes` | is what stricter rules accept accepted by laxer ones with the same result and cost; out of memory or stack anywhere, are there internal errors or dangling nodes? | it is; none |
| `serializer` | `PictureIsRight`, `RoundTrip`, `BestReference`, `SingleAddIsPlain` | is the picture of the reader right, does the output decode, are the back references the best there are, is it what the other serializer writes? | yes |
| `path_smallest` | `FoundPathIsSmallest` | is the path found the smallest? | no |
| `object_cache` | `CacheIsSound`, `UnfinishedHasNoValue`, `CallsReturn` | are cached values right whatever calls came before; does each call return? | yes |
| `stop_token` | `StopTokenGivesNone` | does a stop token below the node give `None`? | not if a value was cached before |
| `streams` | `ReadersAgree`, `ArenaDecides`, `LengthForetellsReader`, `WriterRoundTrips`, `SharingIsRecorded`, `AtomsRoundTrip`, `NothingReadPastTheEnd` | do all readers agree on every buffer, cut off anywhere; is what is written read back? | yes |
| `python` | `CachesAreRight`, `CursorFollowsTheStream`, `CurryIsInvertible`, `ReplaceIsOneByOne`, `RustSeesTheSame`, `ObjectsAreImmutable` | do Python's objects stay what they are, with right caches, and does Rust see the same trees? | yes |

The four runs that fail each check a sentence of a comment; `findings` in
`PROJECT.json` quotes it. What they mean for the rest:

* `new_substr` grows the heap by at most three bytes a call past the limit;
  past it, `heap_limit - u8_vec.len()` wraps around, so `new_atom` and
  `new_concat` admit anything. This reaches what the run `allocator` checks:
  positions are kept as a `u32`, so once the heap is longer than 4 GiB a new
  atom's buffer may lie over another one or end before it starts, and `atom()`
  panics on the latter. That is why "a buffer does not end before it starts"
  and "an atom has the bytes it was made of" are stated of an addressable heap.
  The limits, the nodes that were there before, checkpoints and the refinement
  of `Arena` do not depend on it (there an atom that cannot be read counts as
  one of no bytes).
* the cost can wrap only when the caller passes `max_cost` 0.
* `find_paths` marks a tree as seen when the first path to it is found. A
  second path of the same length, which might be smaller, is lost. The path is
  still a shortest one (`BestReference`), so only the choice between
  equally good references is affected.
* `get_or_calculate` prefers a cached value to the stop token. The serializer
  always passes the same token, and then no unfinished tree gets a value
  (`UnfinishedHasNoValue`).

Facts that came up and that no run is kept for:

* A checkpoint kept over a restore to an older one can pass the asserts of
  `restore_checkpoint` once the vectors have grown again, and restores a
  mixture; `run_program` never holds one.
* The limit in `find_paths` leaves one byte for the prefix of the path atom
  and none to be saved, although its comment counts "1 min byte for savings": a
  back reference may be as long as the tree. With a path of 64 bytes or more,
  whose prefix has two, it can be one byte longer. `BestReference` therefore
  asks that the path with a prefix of one byte takes no more than the tree, and
  that no back reference which saves a byte is missed.
* `write_atom` takes atoms of up to 2^34 - 1 bytes and `parse_atom` makes none
  that an allocator cannot hold. `serialized_length_atom` returns a `u32`, which
  wraps around for the four largest atoms of an allocator; `AtomsRoundTrip`
  states it modulo 2^32.
* A tree added in parts may come out longer or shorter than at once: which
  back references exist depends on when they are looked for.
* The comment on the signature operators in `chia_dialect.rs` (lines 101-103)
  names `0x0cf84f` as a multiplier; the opcode has `0x13d61f`, which is right.
* The two Python readers accept sizes of seven bytes (first byte 0xfe), which
  Rust takes for a back reference; the comment in `ser.py` calls 0xfe nil.
  `ReadersAgree` allows for it. A `Program` that is read with `from_bytes` goes
  through Rust and is not affected; one that is parsed is serialized anew.
* The docstring of `uncurry` gives `sexp, []` for a curry of no arguments; the
  code returns the curried function, as it does for any other curry.
* `serialized_length_small_number` counts one byte too many for 1 to 127. The
  caches use `serialized_length_atom` on the bytes, which does not.

### Bounds

* `allocator`: bytes of two bits, small atoms of at most two bytes, so that a
  small atom may have a leading zero and each length threshold has atoms on
  both sides; four atoms besides nil and one, two pairs, and four nodes in all
  once there is a pair; a heap limit of two bytes and positions of two bits,
  so that pieces of small atoms take the heap past its limit and then past the
  positions; strings of two bytes, concatenations of two nodes with sizes
  right and wrong, one checkpoint, restored any number of times. All limits
  are met, also in the middle of a concatenation. The proofs cover the other
  values, nested checkpoints among them.
* `operators`: bytes of three bits, and a `u64`, a `u32` and an `i32` of two bytes
  each, so that the edges of one, two and three bytes are a few numbers; up to
  three arguments, where numbers are given as small atoms and as heap buffers; a
  family with room for three more atoms, arguments included, so that an operator
  fails between two allocations; groups of order five. Paths:
  all of up to four bytes, so that a small atom may take three bytes and every
  bit of a byte is the sentinel in turn; three trees of depth six.
* `run`: real opcodes and bytes, but a `Cost` of three bytes and a `u32` of
  two, so that both limits on costs are met and products of unknown operators
  wrap around to less and to more than the smaller one. The programs nest
  operators to depth two and guards to depth two, with declared costs right and
  off by one; one program applies itself for ever and is stopped by its cost.
* `dialect_pair`: room for ten values on a stack, 40 pairs and 42 atoms (the
  programs included) and 16 bytes; a sweep of the programs meets the limits at
  different turns. The stricter dialect is `ChiaDialect`; the laxer one drops
  flags, or is a `RuntimeDialect` with the same table.
* `serializer`: bytes of two bits and prefixes that grow at three, four, five
  and six bytes, so that paths of several bytes, and back references that just
  pay and just do not, occur in trees of a few nodes; up to three additions
  that are not undone.
* `object_cache`: eight nodes, three of them children of several pairs, every
  root and token. The values saturate within the graph.
* `streams`: nine bytes, among them nil, one, both markers and the first bytes
  of one- and two-byte sizes; all buffers of up to six of them, and seven longer
  starts for seven-byte sizes and for back references into pairs; a fresh arena
  and one with room for two atoms, three heap bytes and five pairs. Atoms: two
  sizes on each side of each boundary, with first bytes on each side of 0x80
  and at the two markers, cut off anywhere in the prefix or one byte early.
* `python`: four calls in a row on a blob of two trees and a piece of a third,
  with atoms that are not in their shortest form, and on a blob that is almost a
  curry and has a size of seven bytes; ints around the edges of one and two bytes.

`CHECK_DEADLOCK FALSE` stands where there is nothing left to do: the operator
has been called, the buffer is as long as it gets, the Python program has made
its last call; and in `allocator`, where the client stops at a panic.

### Fairness

`run_program` and `get_or_calculate` are loops on one thread: once called they
take turns until they return. `FairSpec` of `RunProgram` is weak fairness of
`Next`. In `ObjectCache` it is weak fairness of the turns of a call; nobody has to make
a call. `Terminates` is checked in `run` only, whose limits on stacks and memory
are not met; `dialect_pair` checks safety under tight ones. The other loops (readers, operators, methods) are single steps here,
and no other run needs fairness.

## What is proved

Six modules hold theorems: `AllocatorLemmas` and `EncodingLemmas` (lemmas that
the others cite), `AllocatorProofs`, `PathProofs`, `ReadingProofs` and
`StackProofs`.

### Allocator

`AllocatorProofs` and the second part of `ReadingProofs`, for every value of
the constants that `AllocatorAssumption`, `EncodingAssumption` and
`ClientAssumption` allow (limits at least as large as the nodes every allocator
has, a heap limit below `U32`, as `new_limited` asserts, a `usize` at least as
wide as a `u32`, bytes of at least two values, a top byte of small atoms without
the sign bit):

* `ArenaStaysSound` and `RestoreIsExact`: `ArenaIsSound` and
  `CheckpointsRestore` are invariants;
* `AtomsKeepTheirBytes`: `AtomsAreTheirBytes`;
* `HeapEndsWithAnAtom`: `NoStrayBytes`;
* `AllocatorImplementsArena`: the refinement, and with it that a node which
  survives a step, a restore or a failed concatenation has the content it had;
* `OnlyBytesAreRead`: two atoms with the same bytes are the same argument. All
  the readings that the interpreter and the operators have (`number`,
  `uint_atom`, `i32_atom`, `small_number`, `atom_len`, `atom_eq`, the path
  lookup) agree on them, whether each is in a node pointer or in the heap;
* `NumbersReadBack`: the integer that `new_number` makes an atom of is the one
  that `number` reads from it, and no shorter byte string has that value.

`ArenaIsSound` is not inductive. A restore truncates, so that what it leaves is
sound only if the allocator at the checkpoint was sound and is a prefix of the
present one; the invariant `IInv` says so of every checkpoint (`SavedOK`), and
that each is a prefix of the later ones. A concatenation in its loop
will truncate too: `ConcatOK` says that every slice and every checkpoint ends
before the place it started at, and that the atom it was admitted for still has
room. Each operation is shown once to extend the old allocator (the lemmas
`...Grows`), and one lemma, `PrefixReads`, says that nodes read the same in
an extension. Nothing is assumed of how the heap relates to `heap_limit`, in
keeping with the run `heap_limit`: the casts are part of the proof, `InHeap`
says what they leave true of a buffer in a heap of any length, and
`AddressableReads` that every atom of an addressable heap can be read. The
readings in `OnlyBytesAreRead` and `NumbersReadBack` have that as a hypothesis.

`NoStrayBytes` needs more than `IInv`: that each checkpoint, and the place where
a concatenation started, was itself the end of an atom (`TidyInv`).

`AtomsKeepTheirBytes` rests on `EncodingLemmas`: writing a number in n bytes and
reading n bytes are inverse (`ReadThenWrite`, `WriteThenRead`), and the length
that the thresholds of `len_for_value` give is that of exactly the strings which
`fits_in_small_atom` accepts (`FittingLength`). So the bytes of a small atom are
those it was made of and no others have its value. From the same facts about
bits follows, in `PathProofs`, `FastPathAgrees`: `traverse_path_fast`, which looks a path up by
its value and works out the cost of a leading zero byte that is not there, and
`traverse_path`, which goes through the bytes, find the same node at the same
cost. `OnlyBytesAreRead` adds that a string which fits reads as its value in
every other way as well, also with its leading zero dropped. It asks that a
small atom fits the widths read (`SMALL_LEN` is at most `I32_BYTES` and at most
the `size` given to `uint_atom`), as four bytes do.

`NumbersReadBack` is about all lengths. The bytes of an integer, read below the
part of it that is to their left, are the integer (`WriteThenExtend`); with as
many bytes as `SignedLen` gives, that part is the sign which `number_from_u8`
finds in the first byte (`SignedReadsBack`), and fewer bytes have values that
are nearer to zero (`SignedRange`, `NoShorter`). The allocator's own
`len_for_value` is the same count for small atoms.

`^` means nothing to the provers; `EncodingAssumption` and `PowersOfTwo` say
what it is up to the length of a small atom, and TLC evaluates them;
`NumbersReadBack` has the same, up to its longest number, as the hypothesis
`PowersGrow`.

For the refinement, from `IInv`, a call that adds a node adds exactly one to the
store and leaves the others; bytes that a concatenation has appended belong to
no node until it finishes; and a restore gives the store of `saved[i].was`.

### Interpreter

`StackProofs`, for every program, environment, dialect, limit and set of
operators' results:

* `StacksStayInStep`: `StacksInStep`;
* `NoInternalError`: the "stack empty" errors are never returned.

The inductive invariant `StacksOK` gives each pending operation its slot: with
g guards entered by the first i operations, the value of operation i is at
i - g; there are as many environments as `Apply`s and as many guards as
`ExitGuard`s, a `SwapEval` has an `Apply` below it, the slot of an `Apply` holds
an atom, and there is one value above all slots, or none while operands are
being pushed. The first part of `StackProofs` shows what pushing and popping do
to that shape, without a word of the interpreter, and the second that every
turn is such a push or pop.

### Object cache

The first part of `ReadingProofs`, for every graph, finite or not, whose nodes
are numbered children first, every function and every set of stop tokens:
`CacheStaysSound`. The invariant `CacheInv` adds `RootWaits`: while a call has a
list its root is cached or on the list, at the bottom.

### How recursive functions are reasoned about

Loops over bytes or arguments are recursive functions here. The library's
induction theorems take an operator, which the provers cannot instantiate; the
lemmas `StrongInduction`, `TypedByInduction`, `PrimitiveRecursion` and
`StepInduction` say the same of a set, from the library's theorem that the
natural numbers are well founded.

### Only model-checked

* Liveness (`Terminates`, `CallsReturn`): out of the prover's reach.
* Agreement with recursive operators (`MatchesReference`,
  `PathsMatchReference`, and the properties of `Serializer`, `Streams` and
  `PyProgram`): no theorem may be stated where those are in scope.
* What the operators and guards do to memory (`OnlyAdds`, `NeverFaults`,
  `NoDanglingNodes`, `CallerCanRestore`), and that the limits of guards nest
  (in `ContextIsSound`): the argument has a case for each operator.
* The laws of the operators (`NumberLaws`, `StringLaws`, `PointLaws`), and what
  compares two calls of one (`OnlyBytesMatter`, `BudgetOnlyRejects`): each is a
  separate argument for each operator. Of `OnlyBytesMatter`, `OnlyBytesAreRead`
  shows the part about reading the arguments; of `NumberLaws`,
  `NumbersReadBack` shows the part about encoding the result.
* `StricterOnlyRejects`, which compares two runs turn by turn.

## What is not modelled

* The curves and hashes themselves: arithmetic of external libraries, which
  appear as small groups and as parameters.
* An allocator that is restored under a serializer: its caches of hashes and
  lengths are keyed by node and survive. The code has no guard against it, and
  the model takes trees as values; it is listed among the hazards.
* Writers that fail in the middle of a compressed serialization.
* The feature `pre-eval` (callbacks of a debugger) and the counters.
* `bytes32.rs`, `identity_hash.rs`, `err_utils.rs`, `reduction.rs`: wrappers
  and records without state. `test_ops.rs`: tables of expected results.
* The JavaScript bindings and the conversions of Python values in `api.rs`.
* In the Python package the text forms, comparison, iteration and the table of
  constants.
* Benchmarks, fuzz targets and the tools that generate test data.
