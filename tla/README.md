# pytecode in TLA+

pytecode reads, analyses, edits and writes Java class files and JAR archives. It
is a Rust engine (`crates/pytecode-engine`), a JAR layer on top of it
(`crates/pytecode-archive`), a Python extension module (`crates/pytecode-python`)
with a thin Python package (`pytecode/`), and a command line
(`crates/pytecode-cli`). This directory models the parts of it that keep state
over several calls, iterate to a fixed point, or say the same thing in two places
that must agree; checks them with TLC; and proves theorems about the builder, the
archive, the Python models, the code of a method, the layout, the frames and the
cleanup of methods with TLAPS. Paths below are relative to the repository (`src/` in `PROJECT.json`).

- [The system](#the-system)
- [Modules](#modules)
- [Runs](#runs), with their bounds
- [Fairness](#fairness)
- [Findings](#findings)
- [What is proved](#what-is-proved)
- [Only model-checked, and not modelled](#only-model-checked-and-not-modelled)
- [Plan](#plan)
- [Running it](#running-it)

## The system

| Component | Source | State | Operations | What makes it correct |
|---|---|---|---|---|
| constant-pool builder | `pytecode-engine/src/model/constant_pool_builder.rs` | a vector of slots, a map from keys to indices | `from_pool`, `add_*`, `find_*`, `resolve_*`, `count`, `len`, `truncate` | one index per constant, an index keeps its constant, the writer accepts the pool at every size, `truncate` takes back exactly what came after |
| archive | `pytecode-archive/src/lib.rs` | entries in memory with their index in the file, the file, a temporary file | `open`, `read`, `add_file`, `add_directory`, `remove_file`, `rewrite` | what is published is what is in memory, all at once, through errors and crashes |
| Python class models | `pytecode-python/src/model.rs`, `transforms.rs` | shared class contents, generations of lists, refs with an index; the stack of running applies and a slot for errors | list and item access, assignment, `Pipeline.apply` with callbacks | a ref answers for its own member or not at all; contents and errors survive callbacks |
| code layout | `pytecode-engine/src/model/mod.rs`, `model/labels.rs` | encodings of branches, offsets of labels | `compute_code_layout`, writing of branches and switches | every branch of the bytes goes where its label is |
| frame analysis | `pytecode-engine/src/analysis/mod.rs` | a frame per instruction, a worklist, limits | `simulate`, `recompute_frames`, `lower_stack_map_table` | it ends, and its frames describe every run of the method |
| class hierarchy | `pytecode-engine/src/analysis/hierarchy.rs` | none (a resolver is asked) | superclass chains, common superclass | ends on cycles, answers a class above both |
| class-file reader and writer | `reader.rs`, `writer.rs`, `bytes.rs`, `raw/`, `modified_utf8.rs` | a cursor | `parse_class`, `write_class` | the two are inverse |
| descriptors and signatures | `descriptors.rs`, `signatures.rs` | none | parsers of types | both accept the same types |
| lifting and lowering | `model/mod.rs`, `model/operands.rs`, `model/debug_info.rs` | the shape of the code as read | `from_classfile`, `to_classfile_with_options` | what is lowered says what the model says, indices in raw attributes included |
| verifier | `analysis/verify.rs` | diagnostics | `verify_classfile`, `verify_classmodel` | the two agree, and what they find no fault with is lifted, lowered and written |
| transforms | `transform/` | none | matchers, transforms, `Pipeline::apply` | a condition means the same interpreted and compiled, steps run in order |
| archive binding | `pytecode-python/src/archive.rs` | a borrowed `JarFile`, the first error of a callback | `rewrite` with callbacks | an error of a callback is the error of the call, and nothing was written |
| command line | `pytecode-cli/src/` | counters of a report | `patch-jar`, `deobfuscate rewrite` | the report agrees with the output; the cleanup ends and keeps every run |

How they interact. The archive opens a JAR, and a rewrite hands each class to the
model layer, which lifts it, lets a pipeline of transforms edit it, and lowers it
again; lowering asks the layout for offsets, the analysis for frames and the
hierarchy for common superclasses, and interns every name in the constant-pool
builder, which the class-file writer writes last. Python holds class models by
shared reference and sees them through views; a pipeline with Python callbacks
moves the contents out of one shared cell into another and back.

The verifiers look at a class before it is lifted (`verify_classfile`) or while it is
a model (`verify_classmodel`). The command line and the archive binding drive
rewrites: they turn a plan, a pipeline or a callback into a transform and hand it to
the archive.

What is hard. The engine has no threads. Its difficult behaviours are fixed
points (the worklist of `simulate`, the rounds of the layout), index bookkeeping
over long sequences of calls (slots, generations, positions in an archive),
errors between two steps (a compound `add`, a rewrite, a callback), and
re-entrance (Python calling back into Rust while Rust is borrowed), and pairs of
programs that restate each other: reader and writer, two verifiers, two parsers of
types, interpreted and compiled matchers, rules of a plan and transforms of a
pipeline, a count and the edit it counts. Processes that share a JAR interleave, and may die. `PROJECT.json` lists each hazard at its
line, with the properties that would catch it.

## Modules

| Module | Models | Size |
|---|---|---|
| `ConstantPool` | the builder | one action per family of `add_*`, `NoteCount`, `Truncate` |
| `Interning` | what a pool promises: a table in which an index stays with its constant | abstract |
| `PyConstantPool` | the builder as Python holds it, with `checkpoint` and `rollback` | extends `MCConstantPool` |
| `ConstantPoolProofs` | what the builder promises, the refinement of `Interning`, and that no duplicate is added, proved of `ConstantPool` | |
| `JarArchive` | `JarFile` in several processes, and the disk | |
| `AtomicReplace` | what rewriting a file promises its readers | abstract |
| `JarArchiveProofs` | exact and atomic rewrites, proved of `JarArchive` | |
| `LiveModel` | class models, views and pipelines in Python | |
| `LiveModelProofs` | which models live, whose error a slot holds, where the contents are and what refs follow, proved of `LiveModel` | |
| `CodeModel` | a method's code: read, edited, written | |
| `CodeEdits` | where a code transform finds its matches, and splicing | operators |
| `CodeModelProofs` | exact edits, places that follow, attributes and frames that are kept, round trips, proved of `CodeModel` and `CodeEdits` | |
| `CodeLayout` | the rounds of the layout and the bytes that come out | |
| `CodeLayoutProofs` | settled layouts, proved of `CodeLayout` | |
| `ByteFormat` | layouts of bytes: numbers, lists, choices, sized parts | operators |
| `ModifiedUtf8` | the encoding of names | operators |
| `ClassReader`, `ClassWriter` | `parse_class` and `write_class`, byte by byte | operators |
| `Descriptors` | which texts are types | operators |
| `FileVerifier`, `ModelVerifier` | `verify_classfile`, `verify_classmodel` | operators |
| `ClassLift` | a `ClassFile` lifted to a `ClassModel` and lowered | operators |
| `ClassFile` | a class file read, edited, lifted, lowered, verified, written | composes the seven above |
| `Trees` | trees of conditions and transforms, and a fold over them | operators |
| `Matchers` | conditions on classes, members and instructions | extends `Trees` |
| `Transforms` | what a transform does to a class | extends `Matchers`, `CodeEdits` |
| `Subsequences` | what is left of a sequence when elements are dropped | operators |
| `JarPatcher` | the rules of a plan, compiled, applied and counted | extends `Transforms` |
| `Deobfuscator` | the cleanup of a method | operators |
| `RewriteJob` | a rewrite of a JAR, class by class and step by step | extends the last two |
| `RewriteJobProofs` | the cleanup keeps what methods do and comes to rest, compiled conditions say what interpreted ones say, rules do what transforms do, errors keep the file, proved of `RewriteJob` | |
| `Hierarchy` | superclass chains over a resolver | operators |
| `FrameSim` | the analysis, and beside it the machine whose runs it describes | extends `Hierarchy` |
| `FrameSimProofs` | frames only grow and the limits hold, proved of `FrameSim` | |
| `Induction` | lemmas: induction over a finite stretch of numbers, functions defined by recursion, what is kept of a sequence | no state |
| `MC...` | small instances of these | |

### ConstantPool

`pool` is the builder: `len` is the length of the vector, `entries` its slots,
`index` the map. A `PoolKey` has the fields of the entry it is made from, so keys
and entries are the same records. The `add_*` and `find_*` methods are operators
that thread the pool through the parts of a compound constant in the order of the
code; `Add(v)` is one call, which may fail at any part and keeps the parts it has
added. Strings are model values, `LongStrings` those that exceed
`UTF8_MAX_BYTES`. `MaxIndex` stands for `CP_MAX_SINGLE_INDEX`. `mark` and `saved`
are what a caller noted (`NoteCount`), to go back to (`Truncate`). `FromPool`
follows the two passes of `from_pool`. The initial states are a new builder and
the pools in `RawPools`; that the reader also accepts a pool which ends in the
first half of a Long, and which the writer then refuses with or without further
adds, is excluded by the assumption `PoolsRead`.

`WriterAccepts`, `FindResolves`, `RollbackRestores` and `AddsNoDuplicate` are the promises of the builder one by one. `Interns` says them
all at once in another form: the table of constants found in the pool behaves as
`Interning`.

### JarArchive

`disk` holds an archive per path, `jars` each holder's memory, `runs` the rewrite
each holder is in. A rewrite is as many steps as it has moments where it can fail
or be interrupted: `Begin` (the source is opened), `WriteNext` per entry, `Rename`,
`Refresh` (`read` of the output). `Fail`, `RefreshFails` and `Crash` may come at
each. An entry is a name, bytes and `plain` (no comment, no extra data), which
decides with the options whether it is copied raw *by its index in the source*.
`stale` is history: the file was replaced behind the holder. `Contents` are the
bytes an entry may have, closed under what a rewrite with transforms makes of a class
(`ContentsClosed`). No archive in `Start` has a name twice (`StartArchives`): the
library `read` goes through lists the last entry of a name only, and two names that
`normalize_filename` makes equal are left out. ZIP encoding,
compression levels and timestamps are left out.

### LiveModel

`states` are the shared cells behind class models, `handles` Python variables
that hold list views, refs or owned members, `applies` the stack of running
`Pipeline.apply` calls. `Call` moves the contents into a fresh cell (`Lent`) and leaves
those of the default class behind (`Emptied`), `Return` moves them back (`Returned`); while a
callback runs, Python may do everything it can do outside, apply pipelines included, except
use a borrowed cell. `slot` is the error slot a pipeline shares among its callbacks.

A touch of a borrowed cell, or of a member past the end of its list, panics and changes
nothing; if Python catches the `PanicException` inside the callback, the callback goes on.
If it leaves the callback, `call1` resumes the unwinding (`Unwind`): the
contents stay in the callback's cell, which is not emptied, the slot is not read, and the
apply ends as `"panic"`, borrows released. An apply further out goes on from there, as the
callback that called the inner one may catch the panic in turn, or let it go. The part of a
class that is not its lists is one value, the class that was `"read"` or the `"default"` one.

Three variables or fields are history. `bypassed`: the list was changed without a new
generation. `unwound`: the applies that a panic ended, with their pipelines and callbacks'
models. `leftover` of an apply: its slot was set when it began. A member has
an identity, the list, generation and place it came from, which is what a ref is
judged by (`Truthful`).

- `RefsTrue`: a ref that answers answers for its own member, unless the list was `bypassed`.
- `ContentsInOnePlace`: the class that was read is in exactly one model, after panics too; and
  before the first panic no model that has the default class in its place can be used. After
  one, the outer model can be used and has the default class: see the [findings](#findings).
- `CallbackModelsDie`: a callback's model answers nothing after the callback, unless a panic ended it.
- `ErrorsReachTheCaller`: an apply that comes to its end fails if and only if one of its callbacks
  raised or the slot was set when it began, which only a panic of the same pipeline leaves behind.

### CodeModel

`file` is the Code attribute in the class file, `code` the `CodeModel` it was
lifted to, `origin` (history) the attribute it was lifted from. An instruction is
an operation, its length and the offsets it jumps to; an attribute is its kind and
the offsets it names. `Read` lifts: every offset that code or a debug table names
gets a label among the items, a `StackMapTable` and attributes of unknown kind stay
as they are, and `layout` remembers the order of kinds. The edits are the code
transforms of `CodeTransformSpec` and the public fields. `WritePreserving` and
`WriteRecomputing` are `lower_code_model` in its two frame modes, with and without
stripping of debug information; a label that is gone makes them refuse, that is,
the action is not enabled.

Instructions carry an id that is not in the class file, so that properties can say
which instruction an offset stood before. Branches are short here; when they are
not, `CodeLayout` says what comes out. Which blocks get a recomputed frame is left
open (any subset of the places where one may stand), as `FrameSim` is about that.
Only the offsets of frames are kept, not their types.

The assumptions say what a parser and a caller hand over: every operation has a length
(`OpsHaveLengths`), patterns and snippets are not empty, as the transforms do nothing for
those (`PatternsMatchSomething`, `SnippetsAreCode`), and a parsed `Code` attribute is a list of
instructions, handlers and attributes (`CodesAreParsed`, `IsCode`). Nothing says that an
offset of it is the start of an instruction: where that matters, the property says so.

- `EditsAreExact`: each edit against a rewriting of the items in one pass.
- `PlacesFollow`: an offset of a written file divides the instructions that were read as
  it did in the file they were read from.
- `FramesOfShortFormsHold`: a `StackMapTable` is only preserved for code that does the
  same, instruction for instruction (`SameCode`), and stands at the same instructions.
- `AttributesKept`: attributes that are no debug table come out as they are and in order, and a
  debug table that was the only one of its kind comes out once, unless it is empty, stripped
  or stale. Where several of a kind were read, it says nothing of that kind: all but the last
  are lost (see the [findings](#findings)).
- `RoundTripIsExact`, `WrittenCodeIsWritable`: what was written comes back from reading and
  writing as it was, and is never refused.

### CodeLayout

`program` is a list of items (labels, plain instructions by length, `goto`,
conditional branches, switches with their padding). One `Round` computes the
offsets of the labels from the encodings of the round before and chooses each
branch's encoding anew; after `MaxRounds` or when nothing changed, `Emit`
produces what is written. A branch is short, wide (`goto_w`), or inverted around
a wide one. `Reach` stands for the 32767 of an `i16`. The properties compare the
emitted jumps with where the labeled instructions are in the emitted bytes.

### FrameSim

An item is described by what it takes and gives, so that the two hundred opcodes
are about a dozen shapes. `Visit` is the beginning of a turn of the loop of
`simulate` (the entry frame is run through the item), `Propagate` one call of
`propagate` per outgoing edge, handlers first. The empty set stands for the error
of an operator. Types have the two-slot values of the code: a Long is followed by
a Top. Beside the analysis there is the machine of the JVM specification, which
runs the code after the analysis is done: `Execute` one instruction, with the
types the JVM gives it, `Throw` an exception. `Legal` is what the verifier lets
it do.

Three kinds of code are excluded from `FramesDescribeRuns`, because on them the
analysis is known to say something else than the JVM. Each has been seen to
produce a counterexample when the exclusion is lifted:

- `CallsSuper`: after `super.<init>` the type of `this` is that of the superclass;
- `SplitsLong`: a store into the second half of a long leaves the long in the first;
- `MixesNull`: Null merged with an object under construction gives that object.

`Classes` are the names a code or a hierarchy may use. The assumptions say what a parsed
method and a resolver are: `CodeShapes` (codes of any length, over `Ops`), `ClassNames`,
and `ResolverShapes`: a resolver knows finitely many classes, and no array is a
superclass. The last matters: a class joined with an array is `Object`, so with an
array in its chain, joining a class with the common superclass a second time would not
give that again.

### ClassFile: reading, writing, verifying, lifting

`ByteFormat` is a small language of layouts (a number of n bytes, a list with its
count, a choice by a tag, a part with its length before it, a switch table with its
padding). `ClassReader` gives the layout of every structure that `reader.rs` reads,
with one interpreter that stands for the reading code; a value is a record with the
field names of `raw/`. `ClassWriter` does not reuse these layouts: it is what
`writer.rs` writes for a value, structure by structure, with the checks the writer
makes (list sizes, frame types against their tags, target types, gaps of the pool).
That the two agree is what the run is about. The name of an attribute is one byte,
an error is a refusal without its message, and the first slot of a pool is slot 1.

`Descriptors` says where a type that begins at a place of a text ends. A recursive
descent is a function over places, so that the two hand-written parsers (of
`descriptors.rs` and of `signatures.rs`) stay apart as they are in the code.

`FileVerifier` and `ModelVerifier` return the set of diagnostics, each a place and a
rule; wording and category are dropped. `ClassLift` has the pool operations a lifted
class needs in their own small form (`SlotOf`, `Find`, `add_entry`); `ConstantPool` is
about the same code at its limits. Attributes stay raw, as in the code. A body is
lifted only if it is plain (instructions without operands, no handlers, no nested
attributes), in which case `CodeModel` says that it comes back as it was.

In `ClassFile` a file is damaged (`Damage`), read (`ReadClass`), edited
(`EditAttribute`, `EditPool`), lifted (`LiftClass`), edited as a model (`EditModel`),
lowered (`LowerClass`) and written (`WriteClass`). What the verifiers say is computed
by the properties.

- `ReadIsWrittenBack`, `WrittenReadsBack`: reader and writer are inverse, for
  damaged files and after raw edits too.
- `PoolVerdictsAgree`: writer and verifier, which follow the wide constants each in
  its own loop, refuse the same pools.
- `NamesHaveOneForm`: a name has one encoding.
- `DescriptorsAreSignatures`: the two parsers of types agree where both apply. The
  exception (`BracketInName`) is real: a descriptor may have a `[` inside a class name.
- `VerifiersAgree`: the two verifiers, on the rules they share.
- `CleanClassesPass`: a class without complaints is lifted; a model without
  complaints is lowered, to a class without complaints. Modules and
  `java/lang/Object`, of which `verify_classmodel` knows no special rules, are
  excepted once edited.
- `LoweredSaysTheSame`: lifted again, the lowered class gives the same names, types,
  bodies and attributes in the same order, and the old slots of the pool are
  untouched, so that indices inside raw attributes keep their meaning.

### RewriteJob: matchers, transforms, plans, cleanup

`Matchers` has a condition as a tree, in the form in which it is written
(`matcher_spec.rs`, `Matches`), in the form it is compiled to (`CompiledMatches`) and
as the closures of `transform/mod.rs`. A regular expression is known by what it is
alone and wrapped in `^(?:...)$`: whether it is valid, and what it then matches.
A tree is folded from its leaves (`FoldTree` in `Trees`), and a transform within
transforms is the sequence of its leaves (`Flat`).
`Transforms` has every class, field, method and code transform of
`transform_spec.rs`, except those of debug tables and of single attributes.
`JarPatcher` checks a plan, compiles it (`RuleRefused`, `RulePanics`) and applies its
rules, counting matches and changes beside the edit as the code does. `Deobfuscator`
removes nops, shortens chains of gotos and removes gotos to what follows them. Its walk
along a chain remembers the labels it has seen; here it is the number of hops that
counts (`AfterHops`): a walk that has made as many hops as there are items and could go
on is on a cycle.

`RewriteJob` runs a job over the classes of a JAR: `Load`, `TakeClass`, one action per
step (`PatchStep`, `PipelineStep`, `ClosureStep`, `CallbackStep`; for a cleanup
`RemoveNops` and `Round`), `FinishClass`, which lowers the class, and `Write`. A step
that refuses or panics ends the job with the file as it was. The archive's own steps
(temporary file, rename, crashes) are in `JarArchive`, and `Write` stands for them. The
assumption `JarsAreLifted` says what the classes of a JAR are: methods with no code, or with
a list of items in which each label is placed once, as lifting places them, and fields and
methods that are lists of records. `PlansAreTyped` says what the enums of a plan can hold
(`IsRule`): actions that its kind of rule has, and flags that exist. Two more say
what the conditions of a pipeline are: trees of the nodes that the enums of `matcher_spec.rs`
have (`PipelinesAreTyped`, with `IsMatcher`), nested no deeper than `Deepest`. The enums own
their parts, so that every tree ends, and the trees that are given have a deepest one.

- `TraceKept`: at every step of the cleanup, the instructions that are no nops or
  gotos are there, lead to the same instructions and have the same handlers. Where
  something leads is followed hop by hop over labels, nops and gotos (`Hops`,
  `Arrivals`).
- `RoundsShrink`: the measure by which the loop over a method ends.
- `CompiledSaysTheSame`: a condition interpreted and compiled.
- `RulesAndSpecsAgree`: a rule of a plan and the declarative transform of the same name, for
  rules on classes and those on members chosen by name without code actions. They differ in
  one thing, which `AsDeclared` states: `remove_access_flags` of the transform also clears the
  undeclared bits of a class.
- `CountsAreEdits`: what a code action of a rule counts is what it edits, of the methods that
  match *after* the rule's own action, which may have renamed them or changed their flags.
- `ReportSaysWhatChanged`: a class that a rule changed is counted. The converse only holds of
  rules without code: an edit that puts in what was there is counted too.
- `ErrorsKeepTheFile`: an error of a callback, or a panic, ends the job and leaves the file.

## Runs

Every run finishes in two minutes with two workers.

| Run | Checks | Shows |
|---|---|---|
| `constant_pool` | `TypeOK` `WriterAccepts` `FindResolves` `RollbackRestores` `AddsNoDuplicate` `Interns` | the promises of the builder, on a new pool and on three read pools |
| `python_checkpoint` | `RollbackKeepsConstants`, violated | finding 1 |
| `jar_archive` | `IndexesAgree` `FreshRewriteIsExact` `RewritesAreAtomic` | two holders of a JAR, errors and crashes anywhere |
| `jar_archive_retry` | `ResourcesPreserved`, violated | finding 2 |
| `live_model` | `RefsTrue` `ContentsInOnePlace` `CallbackModelsDie` `ErrorsReachTheCaller` | views, assignments, nested applies, errors and panics of callbacks |
| `code_model` | `WrittenCodeIsWritable` `EditsAreExact` `PlacesFollow` `FramesOfShortFormsHold` `AttributesKept` `RoundTripIsExact` | reads, edits and writes of four methods: offsets follow their instructions, attributes keep their order, unedited code comes back |
| `code_layout` | `SettledLayoutIsReal` | a layout that settled within the rounds is right |
| `frames` | `FramesAreJoins` `FramesDescribeRuns` `LimitsHold` `FramesOnlyGrow` `Terminates` | the analysis ends, is independent of the order of the worklist, and describes every run |
| `frames_long` | `WrittenFramesHold`, violated | finding 3 |
| `class_file` | `ReadIsWrittenBack` `PoolVerdictsAgree` `WrittenReadsBack` `NamesHaveOneForm` `DescriptorsAreSignatures` `VerifiersAgree` `CleanClassesPass` `LoweredSaysTheSame` | every structure of a class file, whole, damaged or edited, through reader, verifiers, model and writer |
| `rewrite_job` | `TraceKept` `CompiledSaysTheSame` `RulesAndSpecsAgree` `ErrorsKeepTheFile` `ReportSaysWhatChanged` `CountsAreEdits` `RoundsShrink` | plans, pipelines, closures, a failing callback, and the cleanup of 1331 methods |
| `patch_labels` | `LabelsPlacedOnce`, violated | finding 4 |

Bounds, and why they are enough:

- **Pools.** `MaxIndex = 6`: one member constant needs six slots, so that the
  limit is met in the middle of every compound constant, by a Long one slot
  before it, and after a truncation. Five kinds of constant stand for the
  families that share their code: `Long` (wide leaves), `Class` (one name),
  `MethodRef` (class and name-and-type), `Dynamic` (number and name-and-type),
  `MethodHandle` (an index the caller gives). Of three strings one is too long.
  `FlatPools` are read pools with parts after the whole, a Long in the middle,
  and duplicates with users of the copy.
- **Archives.** Two holders, two paths, a class, a plain resource and one with a
  comment, `MaxEdits = 2`, `MaxRewrites = 2`: enough for a second rewrite after a
  failed or interrupted first, by the same or another holder, with an edit before
  each. The holders are symmetric.
- **Class models.** Two methods, two variables, three cells (the outer and two
  callbacks'), two applies of at most two steps (`MaxApplies`, `MaxSteps`), one assignment
  per list (`MaxGeneration`) of up to one member (`MaxMembers`): a ref
  before and after an assignment, a callback inside a callback, an error before
  and after a success, a panic of the inner or of both applies, an apply after a panic with
  an error left over. `methods` stands for both lists, which share their code; of longer
  assignments the proofs speak.
- **Code.** A loop with a way out, a handler and every kind of table among other
  attributes; three loads in a row, with lines in two tables, an empty table and a
  handler whose range ends with the code; instructions in longer forms than they
  need; a table that ends between two instructions. `MaxEdits = 2` and
  `MaxChanges = 3` (edits and writes): two edits and a write, a write between two
  edits, an edit between two writes. The matchers select labels too, and neighbours.
- **Layouts.** Every code of up to five items over two labels with `Reach = 7`,
  and loops of nine items in which the padding of a switch moves: the limit is
  met from below and above by jumps in both directions. `MaxRounds = 8` is the
  constant of the code. The violating chains have the real reach of 32767.
- **Methods.** About two thousand: a diamond, a loop, a try with a handler, a
  subroutine with two callers, and constructors, filled with pieces that store,
  load, create and shuffle; with no resolver, a tree, and a cycle. The shapes are
  the ones that make a node's frame change after it was visited.

- **Class files.** One file for each payload that the layout of each attribute
  allows with lists of none, one and two elements, each field at its extremes,
  layouts that contain themselves unfolded once (`Nesting = 1`); pools of up to two
  constants; names of up to two bytes from the edges of modified UTF-8, and its
  three- and six-byte forms (`NameLength = 2`); texts of up to four characters that
  may be types (`TypeLength = 4`), and longer ones made of types. `Fragile` files are
  damaged at every byte, with 0 and 255, and edited; lists are lengthened to 255 and
  256 (`ListLengths`), where a one-byte count ends. The linked classes, in which each
  index names what it should, are verified and lifted: one with every byte set to
  each of twelve values (`LinkBytes`, the slots of interest), and every combination
  of the access flags that a rule looks at.
- **Rewrites.** Thirty-odd plans, each rule alone and all together, over two classes that
  differ in flags, version, superclass, members and code; pipelines and closures that
  use every kind of condition; plans and pipelines that are refused, that panic, and
  that fail in a later class. One class has an access bit that is not declared; two rules
  rename methods, or change their flags, and then edit their code; one edit puts in what was there. The cleaned methods are all choices of three blocks from
  eleven, with a handler: chains and cycles of gotos, gotos to what follows, nops in
  between. `Deepest = 2` is the depth of the conditions that these pipelines have.

Deadlock is checked for pools, archives and class models. Layouts, analyses,
class files and jobs end, and the code module runs out of its bounded edits and
writes; their configurations say so (`CHECK_DEADLOCK FALSE`).

## Fairness

Only `FairSpec` of `FrameSim` has any: weak fairness of `Simulate`, the loop of
`simulate`. It is one sequential loop without waiting, so that it takes its next
turn as long as there is one; that is all weak fairness says. `Terminates` then
rests on the code: on `Merged` going up a finite order and on `Queue` adding a
node only when its frame changed. Nothing is fair in the other modules, where the
steps are calls of a user, errors and crashes. That a cleanup ends follows from
`RoundsShrink`, a property of its steps which is proved, without fairness.

## Findings

Each of the first four is a `violation` run and is described with its lines in
`PROJECT.json`.

1. `checkpoint()` in Python returns the number of entries and `rollback()` takes a
   number of slots: a rollback also drops constants from before the checkpoint.
2. When reading the renamed archive back fails, `rewrite` restores the entries
   *with their old indices*, which belong to the archive that is gone. The next
   rewrite copies by them, and stores one entry's bytes under another's name.
3. `lower_stack_map_table` writes the second slot of a long or double as an entry
   of its own: every local and stack entry behind it is off by one.
4. A replacement block with a label is cloned into every place its rule matches: two
   matches in a method place the label twice, and jumps of the first copy land in the
   second.

Others have no run of their own. Those that are stated as a property (named here, and
not listed under any run, since they do not hold):

- a pipeline that removes members advances no generation: refs taken before it answer
  for other members, or index past the end (`StaleIsReported` in `LiveModel`);
- code that is not edited is still written in the shortest forms, with the
  `StackMapTable` it was read with: behind a `goto_w` or an `ldc_w` that was longer than
  it had to be, the frames stand in the wrong places (`PreservedFramesHold` in
  `CodeModel`);
- the layout stops after eight rounds, settled or not. Eight jumps that widen one after
  another need nine (`EveryLayoutIsReal` in `CodeLayout`);
- `docs/` promise that an unmodified class is written byte for byte, and that what is
  written can be parsed: switch padding and bytes after the class are dropped
  (`UnmodifiedIsIdentical`), and with 256 `MethodParameters` the count wraps to 0
  (`WrittenIsParseable`, both in `ClassFile`).

Those that the passing runs leave out, by the condition named:

- `from_pool` canonicalises the parts of an entry but not the parts of its parts: a
  member over a name-and-type that is stored twice, over two copies of a name, is
  not found again, and adding it appends a duplicate (no such pool in `FlatPools`);
- a callback that applies its own pipeline takes the error of an earlier callback
  out of the shared slot; if it handles it, the outer apply succeeds
  (`Top.reentered` in `ErrorsReachTheCaller`);
- of several `LineNumberTable` attributes of one Code, which the JVM allows, the
  last replaces the others when the code is read, although
  `docs/design/validation-framework.md:217` says that "roundtrip flows should preserve them
  when present unless callers explicitly choose a stripping policy". The code `Row` of
  `MCCodeModel` has two (`Settled` in `RoundTripIsExact`, one table of a kind in
  `AttributesKept`); `verify_classfile` calls several of them an error;
- a panic that leaves a callback ends `apply` before the contents are moved back
  (`transforms.rs:1189`): the model that the caller holds is then the default class, the
  class itself is in the callback's model, which stays alive, and is lost unless Python has kept
  that; and an error that an earlier callback stored stays in the slot and fails the next
  apply of that pipeline, whose callbacks need not raise (`unwound` and `leftover` in the
  properties of `LiveModel`);
- `ClassTransformSpec::RemoveAccessFlags` says "bitwise AND NOT" (`transform_spec.rs:250`) and
  clears undeclared bits as well, as the complement of bitflags is truncated
  (`transform_spec.rs:300`); the rule of the same name keeps them (`jar_patcher.rs:1172`;
  `AsDeclared` in `RulesAndSpecsAgree`);
- a descriptor may have a `[` inside a class name, although `is_valid_internal_name`
  and the signature parser refuse it (`BracketInName` in `DescriptorsAreSignatures`);
- `verify_classmodel` asks for a superclass and for access flags without looking at
  what is special about modules and `java/lang/Object`, and lets a model pass whose
  class `verify_classfile` complains of (`special` in `CleanClassesPass`).

And those met while reading, which no property is about: `verify_classfile` takes
`fail_fast` and ignores it; `verify_classmodel` returns from an empty body before it
checks the labels of handlers; `docs/design/validation-framework.md:95` to 100 names checks
(indices in instructions, bounds of the code, branch targets, versions of type
annotations) that `verify_classfile` does not make; of two Code attributes of a method,
lifting keeps the last while `verify_classfile` looks at the first; an expression of a
plan that is valid alone but not when wrapped panics at the first match (`RulePanics`);
`deobfuscate rewrite` leaves gotos that nothing reaches, and handler ranges that have
become empty; `recompute_frames` writes no frame for the first instruction, though a loop
may jump back to it (`analysis/mod.rs:547`).

## What is proved

The bounds that keep runs finite (`MaxEdits`, `MaxApplies` and so on) only stand in guards of
actions, and no proof uses their values.

### The pool

`ConstantPoolProofs` proves, for every set of strings, owners, signatures, numbers
and kinds of constant, every `MaxIndex` and every set of read pools, under the
assumptions that `ConstantPool` names (`MaxIndexPositive`, `SentinelsApart`,
`CallersInput`, `PoolsRead`):

| Theorem | Statement |
|---|---|
| `Invariance` | `Spec => []IInv` |
| `TypeCorrect` | `Spec => []TypeOK` |
| `WriterAlwaysAccepts` | `Spec => []WriterAccepts` |
| `RollbackAlwaysRestores` | `Spec => []RollbackRestores` |
| `FindAlwaysResolves` | `Spec => []FindResolves` |

The argument. None of the properties is inductive. `WriterAccepts` needs to know
that slots past the end are empty, `FindResolves` that the parts of a key lie in
slots that hold what they held when the key was made, `RollbackRestores` that a
pool only ever grew since it was noted. `IInv` therefore says three things:

- `IsPool(pool)` and `IsPool(saved)`: the vector and the map belong together, the
  writer would accept the slots, and `Links`: the entry at a key's index reads as
  the key does, part by part;
- `mark` is the length of `saved`;
- truncating `pool` to `mark` gives `saved`.

A relation `Continues(p, q)` (q is a pool, at least as long as p, and truncating q
to any length that p has gives what truncating p gives) is what an add
establishes. `AddEntryOutcome` proves it for one entry, and because it is
reflexive and transitive, each compound add follows by composing the adds of its
parts, in the lemmas `AddUtf8Outcome` up to `AddDynamicOutcome`; `AddValueOutcome`
puts the kinds together. `FromPoolIsPool` does the two passes of `from_pool`.
Truncation goes back inside the relation. With that, `InitIInv` and `NextIInv`
are short, and each theorem is a consequence of `IInv`; for `FindResolves` a chain
of lemmas follows the path of a lookup from `LookupFinds` upward.

Beyond these:

| Theorem | Statement |
|---|---|
| `PoolAlwaysInterns` | `Spec => Interns`, which is `Interning!Spec` under the mapping of `ConstantPool` |
| `NoDuplicateIsAdded` | `(\A r \in RawPools : Flat(r)) => (Spec => AddsNoDuplicate)` |

The first: `FindResolves` makes the table one to one, `Continues` makes it grow, and a
truncation gives back the noted table because it gives back the noted pool.

The second is not a consequence of `IInv`, which allows a pool whose map leads two
keys to two slots of one constant. `Good` excludes that. What a slot holds has a
canonical slot (`Rep`), found by the stored entry and by the key an `add_*` method would
ask for (`Stored`, `Normal`), and the part of a constant is found under its canonical slot
(`Reached`). An add takes a good pool to a good one in which every new slot is
`Settled`: an add of the same constant returns it (`Grows`, lemmas `AddEntryAdds` to
`AddValueAdds`). If a new slot meant what another slot means (`SameMeaning`), the two would have one
canonical slot and the add would have returned it. A good pool comes out of `from_pool`
if the read pool is `Flat`: the constants that others refer to, handles excepted, have
their own parts stored once or canonically. Every pool without duplicates is, and so
are pools with duplicates of what nothing refers to. The hypothesis is
needed: a pool outside it is the counterexample among the [Findings](#findings), and
within it nothing else can go wrong.

### Archives

`JarArchiveProofs` proves, for every set of holders, paths, names and contents and
archives of any length, from `NameKinds`, `ContentsClosed` and `StartArchives`:

| Theorem | Statement |
|---|---|
| `Invariance` | `Spec => []IInv` |
| `IndexesAlwaysAgree` | `Spec => []IndexesAgree` |
| `FreshRewritesAreExact` | `Spec => FreshRewriteIsExact` |
| `RewritesAreAlwaysAtomic` | `Spec => RewritesAreAtomic`, which is `AtomicReplace!Spec` under the mapping of `JarArchive` |

The argument. `IndexesAgree` alone says nothing of the archives on disk, so it does
not survive a rewrite, which puts a new one there and has it read. `IInv` adds that a name is in an archive once, on
disk and in memory (`IsArchive`, `IsMemory`); that the entries of a holder who is not
stale lead to the entries on disk they were read as (`LeadsTo`); and that a temporary
file holds the first entries of the memory, each `Written` from the source as it
was when it was opened (`WritingOK`), with `LeadsTo` for that source if the rewrite
is `sure`. Edits keep memory in order if they keep names apart and lose the index of an
entry they change (`Keeps`: `ReplaceKeeps`, `AppendKeeps`, `RemoveKeeps`); a rename
of one holder makes the others on that path stale, and needs nothing else of them.
When a rewrite has written its last entry, the temporary file is by `WritingOK` the
whole output, which is what the rename promises: that gives exactness and
the refinement. Every other step of a rewrite stutters there, or is the end of a
rewrite that published nothing.

### Live models

`LiveModelProofs` proves, for any number of models, handles and pipelines, lists of any length,
and applies nested to any depth and ended by panics, from `OuterModel`, `MemberBound`,
`PlaceholdersApart` and `CallBounds` (numbers are numbers, and the marks `Unused` and `Gone`
are no contents):

| Theorem | Statement |
|---|---|
| `Invariance` | `Spec => []IInv` |
| `CallbackModelsAlwaysDie` | `Spec => []CallbackModelsDie` |
| `ContentsAlwaysInOnePlace` | `Spec => []ContentsInOnePlace` |
| `ErrorsAlwaysReachTheCaller` | `Spec => ErrorsReachTheCaller` |
| `RefsInvariance` | `Spec => []RInv` |
| `RefsAreAlwaysTrue` | `Spec => []RefsTrue` |

The argument. What survives a callback depends on the applies further out, so
`IInv` is about the whole stack:

- `Loans`: no model is borrowed by two applies or lent to two callbacks, a callback's model
  is borrowed only by applies further in, and only the innermost apply may be without a callback. So
  when the innermost one returns or unwinds, the model it takes back, or leaves behind, is
  borrowed by nobody else.
- `OnlyKnownLive`: a live model is the outer one, was handed to a callback that still runs, or
  to one that a panic ended. That is `CallbackModelsDie`.
- `Holdings`: a model that is lent out does not have the class that was read, exactly one model
  has it, and before the first panic every live model that is not lent out does. After one it
  need not: the stack above an unwound apply goes on with the default class, and
  what is lent then is that.
- `SlotsOwned`: a slot that is set belongs to an apply that runs or to one that a panic ended, and for
  an apply that was not re-entered it is set exactly if one of its callbacks raised or it was set
  when the apply began. That is why the theorem about errors excepts applies that were
  re-entered, which share their slot with the inner one.

A ref remembers a model, a list, a generation and an index, but its model may have lent
its contents several callbacks deep, where lists change under another model's
generations. `RInv` therefore does not look at the ref's own model alone: it says that there
is, for every model, a view of its lists (`Sees`) which refs follow (`Follows`), which
is the lists themselves while the model is not lent out (`Shown`), and which has the same
members at the same places as the view of the callback's model it lent its contents to,
for each list that has not been assigned or changed there since (`Lends`, `Untouched`). `Return`
restores what `RefsTrue` says because `bypassed` takes note of the lists that have; a panic marks
every list of the model that lost its contents.

### The code of a method

The first part of `CodeModelProofs` is about sequences. `Kept` is what a set of positions
leaves of one (its lemmas are in `Induction`), and `Thins(t, s, Z, f)` says how an edited sequence t came from s: each element of t is one of s,
and f is its place there, or is one of Z and was put in; places do not change
order (`SpliceThins`). The other lemmas about splices are exact: those of an edit, each of which
moves the items behind it, are equal to one pass over the items that were there
(`SpliceIsSpread`, `ScanIsPass`), as the places found lie apart (`Spaced`), which is what `Positions` and
`NonOverlapping` see to.

The module proves, for any code, matchers, patterns, snippets and redirects, from the assumptions
of `CodeModel`:

| Theorem | Statement |
|---|---|
| `CodeIsTyped` | `Spec => []WritingInvariant` |
| `WrittenCodeStaysWritable` | `Spec => []WrittenCodeIsWritable` |
| `EditsStayExact` | `Spec => []EditsAreExact` |
| `AttributesStayKept` | `Spec => AttributesKept` |
| `RoundTripStaysExact` | `Spec => RoundTripIsExact` |
| `PreservedFramesStand` | `Spec => FramesOfShortFormsHold` |
| `PlacesAlwaysFollow` | `Spec => PlacesFollow` |

The argument. `WritingInvariant` is the types of file and model, and that every place a written
file names is one of its offsets: writing turns labels into offsets of items (`LabelsAreOffsets`),
and reading gives every offset of an instruction, and the end, its label if it is named
(`PlacesAreLabelled`). `WrittenCodeIsWritable` follows, and so does `EditsAreExact` from the
lemmas about splices.

`AttributesInvariant` adds that the debug tables of the model are those of the file it was
read from. What `lower_nested_attributes` does with them is a loop over the layout that takes from
three places. One invariant of that loop is about the attributes of other kinds: what it has put
out, followed by what it has left, is what it began with (`PlaceKeepsOthers`, `MoveHead`); another
is about each kind of table (`PlaceKeepsOwn`). Reading followed by writing is the
same loop, and its invariant is that the attributes put out are the first ones read
(`BackStep`).

For `RoundTripIsExact` the items of a lifted code are laid out anew. `Stands` says of a beginning of
the items that it ends at the offset where that part of the code ended, and that each of its labels is at
the offset it is named by. It grows by a label or an instruction (`StandsWithLabel`,
`StandsWithMore`), so that each label is placed where it was read (`LabelsStay`).

`FramesInvariant` adds to `WritingInvariant` that the shape kept by the model is the lifted
file (`OriginalIsRead`), and that its `StackMapTable`s were read. An edit that leaves the shape alone
leaves every instruction its length, hence every offset (`AlikeStands`): the code written does the same,
and if its instructions were in shortest forms, begins them at the same offsets (`SameShapeLowersSame`).

`PlacesInvariant` is about what edits leave alone. Of the instructions that were read, the model
has some, each once, with the targets it was read with, and each label has those before it
that its offset had before it (`Ordered`). Edits only thin the items and put in instructions
that were not read, so that it survives them (`ThinningFollows`). The items written rise from
offset to offset (`ItemsRise`), so that a label's new offset has those instructions before it that
the label had.

`PreservedFramesHold` is not among these: it is the second of the [findings](#findings) without a run,
and `ShortestForms` in `FramesOfShortFormsHold` is what it lacks.

### Layouts

`CodeLayoutProofs` proves, for codes of any length, any reach of a short branch and any
number of rounds, from `LayoutLimits`, `ItemShapes` and `LabelsOnce`:

| Theorem | Statement |
|---|---|
| `LayoutInvariance` | `Spec => []LInv` |
| `SettledLayoutIsAlwaysReal` | `Spec => []SettledLayoutIsReal` |
| `SettledIsAlwaysWritten` | `Spec => [][Emit /\ ~changed => phase' = "emitted"]_vars` |

The argument. `LInv` says what a round without a change leaves behind: labels computed
from the very encodings that are then written, and encodings that are what these labels
ask for. What remains is that three walks over the code, each recursive, agree at
every item: `Starts` (offsets of labels in a round), `item_offsets` (from which
distances are taken) and `Positions` (lengths of the instructions written). They
are shown equal by induction over the place in the code (`OffsetsAreStarts`,
`PositionsAreStarts`); the step needs `BytesAreSize`, that what an item was sized at is what
it comes out as, padding and inverted branches included. For `SettledIsAlwaysWritten` the
walk that chooses encodings joins them (`WalkIsStarts`): a short branch was chosen because
that very distance fits, and so it is not refused.

### Frames

`FrameSimProofs` proves, for codes of any length and any handlers, any number of classes
and resolvers, cyclic and incomplete hierarchies included, from `CodeShapes`,
`ResolverShapes` and `ClassNames`:

| Theorem | Statement |
|---|---|
| `FramesAlwaysOnlyGrow` | `Spec => FramesOnlyGrow` |
| `LimitsAlwaysHold` | `Spec => []LimitsHold` |

The first rests on the algebra of joining. What is above a class on a superclass chain is
what remains of the chain (`UpsFrom`), so the common superclass of two classes joined with
either of them is the common superclass again; where a chain is cyclic or leaves the known
classes, the join is `Object`, for good (`JoinedFacts`). Hence merging is idempotent, for
types (`MergeFacts`) and for frames (`MergedFrameFacts`), and a frame that `propagate`
replaces is below the one it puts there.

The second needs the analysis to be finished, so `IInv` says what is outstanding: a
node with a frame waits in the worklist or is `Settled`, that is, the limits cover it and
what it sends along each edge is `Absorbed` by the frame at the other end or still among
`edges` (`Accounted`). At the end nothing is outstanding. `VisitSteps` and
`PropagateSteps` show that a turn of the loop keeps the account; a frame that grows
keeps what it has absorbed because growing is transitive.

It then takes a relation between a frame and the machine. The order by which frames
grow is too fine: the effect of an instruction is not monotone in it (below). `FrameFits`
says only that the stacks are equally deep, with longs at the same places, and that
return addresses are the same ones. Merging preserves that, and so does every instruction
the machine may execute (`ExecuteFits`), with the same successors (`SuccessorsFollow`:
a `ret` goes where the analysis sends it). `MachineFits` is the invariant, that the
machine is at a node with a frame it fits, from which `FittingLimits` follows without the
three exclusions `FramesDescribeRuns` needs.

### Rewrites

`RewriteJobProofs` proves, for any jobs, edits of callbacks and JARs, from `JarsAreLifted`,
`CompiledAlwaysSaysTheSame` from `PipelinesAreTyped` and `DeepestIsNumber`, and
`RulesAndSpecsAlwaysAgree` from these and `PlansAreTyped`:

| Theorem | Statement |
|---|---|
| `TraceStaysKept` | `Spec => []TraceKept` |
| `RoundsAlwaysShrink` | `Spec => RoundsShrink` |
| `CompiledAlwaysSaysTheSame` | `Spec => []CompiledSaysTheSame` |
| `RulesAndSpecsAlwaysAgree` | `Spec => []RulesAndSpecsAgree` |
| `ErrorsAlwaysKeepTheFile` | `Spec => []ErrorsKeepTheFile` |

The argument. The cleanup replaces a list of items by another, and a chain of gotos may
be of any length, lead past the end, to a label that is not placed, or into a
cycle. So what a run gets to is put without counting hops: `Leads(h, i, p)` says that every set that has p
and, with a place, what is one hop before it, has i. Where a run comes to
rest is then one place at most (`LeadsToOne`), and as many hops as there are items
suffice to get there (`ShortPath`), which is what ties `Leads` to the operators of the model
(`HopsArrive`, `OnwardsArrive`).

Two lists have the same trace (`SameTrace`) if some function takes the places of
one to those of the other, the real instructions one to one, in order with the labels
(`Takes`), and runs come to rest in places it relates (`KeepsRuns`). There are two
such changes. Items are dropped that only hop to what follows them (`Drops`): nops
(`NopsDrop`), and gotos to a label with nothing but labels before it (`NoopGotosDrop`). The
function takes what is dropped to the next item that is kept, and a run may climb over
several of those at once (`DropsKeepRuns`). Or gotos are redirected: no item moves, and each
hop goes further along the way it was on (`RedirectHops`), which leaves runs where they came to rest
(`Shortcut`). A goto whose chain ends nowhere is not redirected, nor dropped if it does not
lead to what follows it.

`CleanupInvariant` carries this through a class: the methods in `work` are lifted and have the
traces of those in the JAR. `TraceKept` alone is not inductive because a list in which a
label is placed twice has no such function. That both changes leave each label placed once is
`DroppedIsLifted` and `RedirectedItems`.

For `RoundsShrink`, no goto can be cut short after all have been (`RedirectedWhole`): the ends of
chains stay ends. A turn that is followed by another either drops a goto, or redirects one and
leaves none to redirect. So with cycles of gotos too the loop turns finitely often. For
`ErrorsKeepTheFile`, a job with an error has failed, one that panicked runs no more, and nothing but `Write` touches the file.

For `CompiledSaysTheSame`, places in a tree are the ways to them, and what holds at each
is shown by induction over the lengths of ways: from the root (`FromTheRoot`), or, as no
way is longer than `Deepest`, from the leaves (`FromTheLeaves`). In the same manner the function that
`FoldTree` chooses exists (`FoldsExist`), so that what a condition says is that
function at the root (`MatchesIs`, `CompiledMatchesIs`). The tree that is compiled has the ways
of the one it is made of, with a compiled node at each (`CompiledTree`). In a condition that
compiles every expression does (`CompilesThroughout`), and then a node says the same compiled as
interpreted if its parts do (`NodesAgree`, with one lemma for the leaves of each enum).
`PipelineInvariant` adds that the conditions of a pipeline that runs have compiled: `Load`
sees to it before the first class. Those for instructions are compiled later, and the property is about the ones
that compile.

For `RulesAndSpecsAgree`, a rule and the transform of its name are compared action by action
(`ClassRulesAgree`) and, where members are chosen by name, list by list (`MembersAgree`):
the condition of the rule is a tree of one leaf (`AllOfOne`, `NameMatches`), the transform a
tree of one step (`LeafIsFlat`). They are not the same text. A rule skips a member that
has the new name or flags already, and the transform sets them again, which changes
nothing only if the member is a record; the transform also drops flags that do not exist, which a
plan cannot name (`IsRule`). In one action they disagree, and the theorem says how: after
`remove_access_flags` of the transform no undeclared bit is left (`AsDeclared`). So `PlanInvariant` keeps that the class in work has lists of
records (`Stands`) through everything a rule may do, the code actions after it included
(`RuleStands`, `MethodActionsStand`).

### Induction

The provers cannot apply an induction theorem to a formula. `Induction` states
induction over sets: a set with 0 that has i + 1 whenever it has i has all numbers
(`UpTo`, from `LeastNumber`), and a function defined by recursion exists
(`Recursion`), so that a proof can name the set of places at which a fact holds. What is kept
of a sequence (`Subsequences`) is such a function.

## Only model-checked, and not modelled

Only model-checked: the properties of class files; of rewrites
`CountsAreEdits`, which compares one walk over items with another, and
`ReportSaysWhatChanged`, which goes through every action and what its report says; and of the frames
`FramesAreJoins` and `FramesDescribeRuns`. These last two do not hold for every code, so a theorem would need to say which codes verify. The
counterexample is a method, which no verifier accepts, that reaches `A.<init>` on one path
with an object under construction on the stack and on another with an integer. The call
initialises the copies of the object in the locals if it is on the stack, and nothing if
Top is, so its effect on the merged frame is not above its effect on the first. If it is
visited after the first path alone, what it sent on then stays (`FramesAreJoins`
fails); if it is visited only after both have come together, the locals still hold
the object under construction when the machine has constructed it (`FramesDescribeRuns`
fails). In the codes of the run, what a constructor is called on is under construction
on every path.

Out of the prover's reach, and left to TLC for good: `Terminates` (liveness under
fairness) and statements about recursive operators (`ReadPool` in `MCConstantPool`, which
is why proofs are about `ConstantPool`; the interpreters of layouts in `ClassReader` and
`ClassWriter`), with every module that extends theirs.

Not modelled, and why:

- what a parsed descriptor or signature is, beyond where it ends;
- `verify_code_model`: labels in the stream, then the analysis that `FrameSim` is about;
- transforms of debug tables and of single attributes, which assign what they are given;
- parsing of rules and arguments on the command line, summaries and printed reports;
- the field-by-field conversions of the Python bindings, and the Python package,
  which re-exports them;
- in the modelled parts: ZIP encoding; two rewrites that choose the same temporary
  name in one nanosecond; the wrapping of handler and debug offsets beyond 65535
  bytes of code; limits of the stack and the locals beyond 65535, which the code casts to
  `u16`; prebuilt code bytes; raw switch items in a `CodeModel`; the text of
  error messages and diagnostics.

The components in `PROJECT.json` marked `partly` say which operations are missing.

## Plan

Done, in this order: the pool (most callers depend on it, and it is the easiest
to prove about), the archive, the Python models, the layout, the frames, the code
of a method between reading and writing; then the class file with its reader, writer,
verifiers, parsers of types, lifting and lowering, and rewrites with their matchers,
transforms, plans and cleanup.

Left, to extend the model:

1. `Hierarchy`: interfaces, subtypes and overridden methods, against reachability
   in the graph of supertypes.
2. `verify_code_model`, against the machine of `FrameSim`.
3. Prebuilt code bytes beside `set_raw_code` in Python, and offsets of limited width.
4. Transforms of debug tables and attributes, in `Transforms`.

Then, to prove more:

1. `FrameSim`: `FramesDescribeRuns` for codes that verify, with an order of frames in
   which instructions are monotone on such codes.
2. `RewriteJob`: `CountsAreEdits`, from the lemmas about splices that `CodeModelProofs` has.

## Running it

```
tlc -workers 2 -config MCConstantPool.cfg MCConstantPool.tla
tlapm ConstantPoolProofs.tla
tlapm JarArchiveProofs.tla
tlapm LiveModelProofs.tla
tlapm CodeModelProofs.tla
tlapm CodeLayoutProofs.tla
tlapm FrameSimProofs.tla
tlapm RewriteJobProofs.tla
tlapm Induction.tla
```

and likewise for the other configurations; `PyConstantPool.cfg` belongs to
`PyConstantPool.tla`, every other configuration to the `MC` module whose name it
begins with.
