# A verification development for mfpp

`mfpp` generates C++ programs that test a library metamorphically. This
directory holds TLA+ models of it, the TLC configurations that check them on
small instances, and proofs checked by TLAPS. Paths below are written with the
repository checked out in `src/`.

## 1. The system

### Components

| Component | Source | State it keeps | Operations |
|---|---|---|---|
| Tool driver | `src/src/fuzzMetaTest.cpp`, `src/include/globals.hpp` | options; `rewritten_input_file`, `files_to_clean`, `output_file` | `main`: three passes over the input file, then four over temporary files; `exit(1)` when one fails |
| Library specification reader | `libSpecReader.cpp` | the set of exposed functions, ordered by `ExposedFuncDecl::compare`; helper functions | matchers and loggers of passes 1 and 2 |
| Template duplicator | `parseFuzzSpec.cpp` | template blocks between `fuzz::start` and `fuzz::end`, variable declarations per block, `curr_input_count` | logs, duplicates and renames the blocks, one copy per input variable (pass 3) |
| Metamorphic test generator | `generateMetaTests.cpp`, `metaSpecReader.cpp` | `meta_rel_decls`, `meta_check_decls`, `mr_input_vars`, `mrGenInfo`, the C++ call stack | `expandMetaTests`, `generateMetaTests`, `generateSingleMetaTest`, `concretizeMetaRelation`, `makeMRFuncCall`, `makeRecursiveFunctionCalls` (pass 4) |
| Fuzz construct expansion | `parseFuzzSpec.cpp` | logged `fuzz_new` constructs with the declarations visible at each | `expandLoggedNewVars`, `expandLoggedNewMRVars` (pass 5) |
| Helper function stitcher | `helperFuncStitch.cpp` | helper bodies split at their parameters | `makeReplace` (pass 6) |
| `fuzz_rand` replacement | `parseFuzzerCalls.cpp` | logged calls | `makeReplace`, writing the output file (pass 7) |
| Batch runner | `src/scripts/run_experiments.py`, `compile.sh` | `test_count`, `terminate`, `stats`; the generated source, the program beside it, the saved tests | the loop: generate, compile, execute; the SIGTERM handler; the report |
| Fuzzer interface library | submodule, absent from the tree | the random generator | `generateRand`, `getRandElem`, object generation |
| Build files, `run_and_log.sh` | | none | |

### How they interact

The passes of `mtFuzzer` run one after the other in one thread. They talk
through static variables, which live as long as the process, and through files:
each pass but the last writes a new temporary file, which the next one parses.
The batch runner starts `mtFuzzer`, `compile.sh` and the compiled test as child
processes, one at a time. They share two files that are never removed between
tests, and the runner knows no more of a child than its exit status and whether
its time was up. The only concurrency is that of the runner with its children,
its clock and SIGTERM.

### What is hard, and what makes each part correct

* **Generator.** State outlives the activation it was made for: the arguments
  that the first variant draws are stored in a static map and reused by other
  relations for other variants. Recursion is mutual between relation bodies and
  ends by a random or a counted choice. Correct means: variants of a family get
  the same inputs and chain through their own variable; all but the first are
  compared with it; every function generated is defined once and before its
  use; recursion is bounded and ends.
* **Runner.** A test can fail in three stages, each with its own way out; a
  child can end while it is being timed out; a signal can arrive at any time;
  stale files remain. Correct means: the statistics add up and match what is
  saved, what is saved belongs to the test it is saved for, limits and
  `--stop-on-fail` hold, and the script ends when it should.
* **Duplicator, construct expansion, stitcher.** Text is moved and renamed by
  lists of places that were collected while walking the tree. Correct means that
  statements keep their order, that each copy refers to its own declarations,
  that every name is declared once and before its use, and that generated code
  is offered exactly the variables it may use.
* **Reading of relations.** What a function is for is told by the number and the
  names of the namespaces around it. Correct means that each is listed where the
  generator looks for it, and that what is listed to end a recursion does end it,
  whatever the order of declarations.
* **`fuzz_rand`.** A bound goes through several types. Correct means that what
  is drawn lies between the bounds that the source states.
* **Specification reader.** Functions are made unique by a hand-written order.
  Correct means that it loses none and keeps none twice.
* **Driver.** State between passes is in global variables and files, and a run
  may end anywhere. Correct means that each pass reads what the one before
  wrote, that status zero means a whole output, and that temporary files of this
  run, and no others, are removed.

The full list of hazards, each at its line, is in `PROJECT.json`.

## 2. Modules

| Module | What it is |
|---|---|
| `Variants` | abstract: what one `fuzz::meta_test()` call promises |
| `MetaTests` | the metamorphic test generator |
| `MCMetaTests` | metamorphic specifications for its model checking |
| `MetaTestsProofs`, `VariantsProofs` | theorems about `MetaTests`: types, inputs and depth, names, calls and checks; the chain of variants and the refinement of `Variants` |
| `Experiment` | the batch runner with its children, files and signal |
| `MCExperiment` | command lines for its model checking |
| `ExperimentProofs` | theorems about `Experiment` |
| `TestFile` | the output file as seen from outside, and what a generation may do to it |
| `Generation` | abstract: what the runner relies on when it runs the tool |
| `FuzzTool` | the driver and the ends of the passes, run after run |
| `MCFuzzTool`, `FuzzToolProofs` | its symmetry for TLC; theorems about it |
| `TemplateDup` | pass 3, the template duplicator |
| `FuzzNew` | extends `TemplateDup` with pass 5, which expands what pass 3 wrote |
| `MCTemplates` | bodies of `main` for both |
| `SequenceProofs` | lemmas about `Append`, `FlattenSeq` and least members |
| `TemplateProofs` | theorems about `TemplateDup` and `FuzzNew` |
| `ExposedFuncs` | passes 1 and 2 |
| `MRReader` | what pass 4 reads before it generates |
| `HelperStitch` | pass 6 |
| `FuzzRand` | pass 7 |
| `Passes`, `MCPasses` | a run of the tool through these four in the order of `main`; their inputs |
| `Pipeline`, `MCPipeline` | `Passes` and `FuzzNew` together: the seven passes in the order of `main`; the inputs of a run |
| `PassesProofs`, `StitchProofs` | theorems about `Passes`; those about what pass 6 writes |

Five things compose. `FuzzTool` implements `Generation`; `Experiment` takes the
same `MayLeave` of `TestFile` for its generation stage. `FuzzNew` runs on the
output of `TemplateDup`. `Passes` is the sequence of `ExposedFuncs`, `MRReader`,
`HelperStitch` and `FuzzRand` in one run, which a failing pass ends, and
`Pipeline` puts the two passes of `FuzzNew` where they belong in it. `MRReader`
ends with the tables from which `MetaTests` starts: an entry for each declaration
of a relation or generator, under its own kind and family (`EachWhereItBelongs`),
and at least one relation (`AcceptedInAnyOrder`).

### MetaTests

One action per step of the generator:

| Action | Code in `generateMetaTests.cpp` |
|---|---|
| `GenerateMetaTests`, `AllExpanded` | the loop over `meta_test_calls` (739-750), drawing a chain (124-130) |
| `StartTest`, `FamilyComplete` | the loop over tests (135-141) |
| `ConcretizeMetaRelation` | one turn of the loop over the chain, up to the first activation of `makeRecursiveFunctionCalls` (154-212) |
| `TooFewStored` | the assertion at 267 |
| `ExpandPlaceholder` | one turn of the loop over `recursive_calls`, up to the nested activation (357-443) |
| `NoMatchingDecl` | `CHECK_CONDITION` in `retrieveRandMrDecl` (586, 597) |
| `ReturnNested`, `ReturnToChain` | the end of an activation (444-453), of a turn of the chain (164-168) |
| `ConcretizeCheck`, `FinishTest` | the loop over the checks (174-189) |

`stack` is the call stack of `makeRecursiveFunctionCalls`, `mgi` the record
`mrGenInfo`, `mr_input_vars` the static map, `funcs` what has been inserted
before `main`, in order. What the tool reads from the AST is constant: `MRInfo`
gives each relation or generator its type, family, name, parameters and
placeholders. `recursive_calls` is a set of pointers in the code, whose order is
not that of the source; the sequence in `MRInfo` may be in any order. A random
choice is an existential quantifier over the values the generator can draw. The
pruning option of a run is in the variable `prune_option`, which no step changes.

Text is abstracted: a statement is a record of what it declares, calls and
passes. The arguments of *recursive* calls are left out, since no property
speaks of them. Every parameter type is either the metamorphic type or one for
which there is a value; a parameter without any candidate, which fails the
assertion at 321, is not modelled.

`Variants` is the abstract specification. It forgets stacks, names and stored
arguments: a chain is fixed when no variant is unfinished, a variant begins when
the previous is complete, and a variant applies the next relation to *arguments
that agree with those every earlier variant used there*. `ImplementsVariants`
says that `MetaTests` implements it under a refinement mapping that reads the
family and the arguments off the statements, with the variant's own variable
abstracted.

### Experiment

`pc` follows the script; `source`, `binary` and `saved` are the files. A file is
abstracted to the test that wrote it and whether it is whole. A child ends with
an `Outcome`: `ok`, `fail`, `timeout` (killed), or `late`, when
`communicate` raises `TimeoutExpired` but the child has ended with status zero
before it is killed. A child that ends with another status at that moment is
recorded as `timeout`, as in the code. `Signal` can be taken between any two
steps from the end of `CreateLogger` to the report, `SignalTooEarly` before.
`TimePasses` says that `--mode-val` seconds have gone by. The generator writes
the source only in its last pass, so a failed generation leaves the old source
or its own; a killed one may also leave a part of it. `Compile` has two
independent choices, whether the program was built and what `compile.sh`
reports, because the script's status is that of its last command.

### TestFile, Generation, FuzzTool

`FuzzTool` models any number of runs over one output. `step` is the pass, `pc`
where it is: `ReadOnly` is passes 1 and 2, `CreateTemp` and `WriteTemp` the two
halves of `END_PASS_WRITE_TEMP` for passes 3 to 6, `OpenOutput` and
`WriteOutput` the end of pass 7 (the file is empty in between), `RemoveOne` one
turn of the loop over `files_to_clean`. `Die` ends a run at any point: `exit(1)`,
a failed assertion, a disk error or a kill. A file's content is the run it
belongs to, the passes that have been over it, and whether it is whole. Names of
temporary files are never those of existing files, as `createTemporaryFile`
guarantees. The code ignores the status of `fs::remove`
(`src/src/fuzzMetaTest.cpp:159`), and the model lets a removal succeed: that it
does is an assumption about the file system.

`Generation` has the runner's view: a generation begins, and ends with a status
and a file that `MayLeave` allows. The refinement mapping shows the output as it
was before the run until the run has ended (`before` is a history variable).

### TemplateDup and FuzzNew

A statement of `main` is the variables it declares and uses, whether it names
`fuzz::output_var`, and how many `fuzz_new` and `output_var_get` it contains. A
name of the rewritten program is a name and a suffix. `text` is what stands in
the place of each statement; `Output` reads it from the start. One action per
turn of each loop of `HandleTranslationUnit`: `LogChild` (697-727), `VisitChild`
(the visitor over one statement), `DuplicateStmt` (732-766), then `InsertCopies`
and `ReplaceGets`. `DupAbort` is its five assertions. `FuzzNew` goes on with
`LogMatch` (`templateVarLogger`), the three branches of `expandLoggedNewVars`
(`ExpandStart`, `ExpandEnd`, `ExpandNew`) and `ExpandMR`. Its result is what is
offered to the generator for each call; the instructions generated are the
library's.

The visitor meets the declaration of a variable before the expression that
initialises it, so a use within the declaring statement is renamed as well
(`DeclsWith`). An `output_var_get` inside a block is replaced at a place of the
original text that has been removed; the model has these calls outside of blocks
only (`WithGets`).

`CopiesResolve` and `CopiesFaithful` speak of the finished text and do not
mention the lists of renames by which it was made.

### MRReader

One declaration per step, `SkipPlaceholder` or `logMetaRelDecl` with the
constructor of `mrInfo` and `MRTraverser`. A declaration is its qualified name,
its return type as written, whether it is the definition, and what the body has.
The same function may be declared and defined; only at the definition does the
traversal find calls.
`Abort` is the assertions of the constructor, the exceptions of
`mr_type_map.at`, the missing body, and the assertion at 732.

### HelperStitch

An expression is the sequence of its tokens in the order of the AST. Helpers are
located, calls logged and replaced in the order in which the matcher meets them.
`Result` is the text of a function after the pass. `SameBody` compares each
replacement with substitution as a textbook defines it; `NamesResolve` and
`NoCallLeft` speak of `Result`, in which a row of statements stands for each
statement of the function (`ResultAt`): the bodies of its calls, and then the
statement with what they return.

### FuzzRand

The largest integer is `MaxInt` and the largest byte `MaxByte`, and conversion to
an integer wraps modulo twice `MaxInt + 1`; a double is a multiple of the least
difference of two literals, `Fractions` to the unit, of which `Printed` are one
step of what is printed. An argument is a literal or a constant expression below at most a
minus and a cast, as the two readers of arguments accept or refuse it. A
conversion to a byte that does not fit is undefined behaviour and gives any
byte.

### ExposedFuncs

Names are numbers, whose order stands for that of strings. Declarations are
reported in any order. An entry has the parameters of the declaration it was made
of, so that two declarations of one function make two entries. `Emplaced` is
`std::set::emplace` with the code's `compare`: an element is refused when an
equivalent one is found, and when `compare` is not a strict weak order on the
set, the search may miss it.

### Passes

One instance of each module, with variables of its own. A pass begins when the
one before has succeeded, as the `exit(1)` of `main` says. What one pass hands to
the next is text that Clang parses again; each module has its own view of a
program, so the program of each pass is an input. The properties are those of
the modules, under the same names.

### Pipeline

`LibraryRead`, `RelationsRead`, `HelpersStitched` and `CallsReplaced` are the
steps of `Passes`, and `MainRewritten` is those of `FuzzNew`: pass 3 once the
library is read, pass 5 once the relations are. Each step is one of `Passes` that
leaves the variables of `FuzzNew` alone, or the other way round, so a run of
`PipelineSpec` is one of `Spec` and of `TemplateSpec` (`PipelineRunsBoth`), and
what is proved of these holds of it. A pass that aborts ends the run, and no later pass
starts.

## 3. Runs

| Run | Instance | Question |
|---|---|---|
| `family` | 3 tests of 2 relations, depth 0, five relations in two families, `--trivial-check` | all safety properties of one family |
| `calls` | 2 calls, 2 tests of 2 relations, relations of arity one and two, a placeholder, a family without a base relation, all three pruning options, two checks | the inductive invariant; refinement of `Variants`; every variant but the first checked; recursion ends although nothing may fit |
| `depth_doc`, `two_calls_names`, `two_calls_inputs` | | three disagreements, below |
| `runner` | 8 command lines, up to 3 tests | the runner's statistics, files and limits; it ends |
| `runner_signal`, `runner_culprit` | | two disagreements, below |
| `tool_runs` | 3 runs, 6 names, symmetric | files of passes and runs, and the refinement of `Generation` |
| `pipeline` | every `main` of up to 6 statements that compiles, without a second block after a closed one, with 0 to 2 inputs; every library of up to 4 of 11 declarations, with and without helpers; every sequence of up to 4 of 13 metamorphic declarations; two functions with up to three statements and two calls in one, four or five helpers; all pairs of 85 bounds of five types, with 3 as the largest integer and byte | copies, names, refusals, objects offered; functions handed over once; tables and refusals whatever the order; substitution; numbers between their bounds |
| `declared_relation`, `two_blocks` | the metamorphic declarations of `pipeline`; every `main` of up to 6 statements with two blocks | two disagreements, below |

Why the bounds are enough. Three variants are the least in which a stored
argument list is used by one that did not draw it, twice; two positions
distinguish the first relation, which declares the variable, from a later one,
which reads it. Depth 0 already nests two placeholders, one in the body of the
other, and depth 2 nests four. Two input variables distinguish two choices.
`B_step` has two placeholders, one for a generator. Two `fuzz::meta_test()`
calls show what the static state carries over. For the runner, three tests
allow a stale source or program to survive a test that failed; count limits are
met exactly (2) or not at all (-1). `MaxTests` bounds only runs without a limit
that are not asked to stop: the loop is not followed further.

For the tool, six names are enough for a run that succeeds (four files) after one
that died with two left; with all names taken a run can only die, as with a full
disk. Three runs allow what one left to meet a run that is killed and one that
succeeds. Six statements hold a block with a declaration, a use and the output
variable, and one statement on a side of it, and every way of nesting, not
opening and not closing blocks. Two inputs have two orders. For `fuzz_rand`,
3 as the largest integer and the largest byte puts values below, at and above each
limit within reach. Two exposed
functions are compared directly, three are needed for an order that is not
transitive, and the same function is declared twice beside others. Four
declarations are enough for a relation that is declared, defined and beside
others of its family, and for a check in a family. In a run of `pipeline` one of
the five inputs is any of its set and the others are the simplest: the passes
share no variable, so nothing is lost by not combining them.

Deadlock is not checked (`CHECK_DEADLOCK FALSE`): the tool and the script end.

### Fairness

`MetaTests`: weak fairness of the whole next-state relation. The tool is a
sequential program that never waits, so this is that it keeps running.
It does *not* assume that random choices are fair: `Terminates` holds because a
relation with placeholders cannot be chosen beyond the depth limit, and the
relations of `calls` recurse for as long as they are allowed.

`Experiment`: weak fairness of the script's own steps and of the clock. Both
generation and execution are killed when their time is up. A compilation has no
timeout (line 290), so that it ends is an assumption. The signal is not fair: it
may never come.

### Disagreements between the code and what is said of it

* `depth_doc`: `--test-depth` is "Number of maximum recursive calls"
  (`src/src/fuzzMetaTest.cpp:60`), yet calls nest two deeper. What does hold is
  `DepthBound`, and it is proved.
* `two_calls_names`, `two_calls_inputs`: all `fuzz::meta_test()` calls of a
  template are expanded, but names restart, and the static map of arguments is
  not cleared, so the second call may define a function again or fail an
  assertion. `SameInputs` and the refinement still hold with two calls.
* `runner_signal`: a SIGTERM during set-up is announced and then forgotten.
* `runner_culprit`: a failed build goes unnoticed, the program of an earlier
  test is executed, and its failure is saved with the source of this one.
  `KeptUnderOwnTest` holds: the file saved is that of the test it is named
  after. It is the *program* that is not.

* `declared_relation`: a relation that is declared before it is defined is listed
  twice, and the traversal of the declaration finds no call
  (`src/src/generateMetaTests.cpp:697`). That entry is a base relation, by which
  a recursion may end: it is called by its own name, and its body calls a
  placeholder, which nobody defines. `EachWhereItBelongs` holds for it: both
  entries are where the name says.
* `two_blocks`: with two blocks the copies of both are put where the last one
  ends (`src/src/parseFuzzSpec.cpp:783`), after the statements between the
  blocks. A `fuzz::output_var_get` between them becomes the name of an output
  variable that is declared only later.

Otherwise the run `pipeline` stays within programs that the passes handle.
Section 5 lists the programs beyond.

## 4. Proofs

Theorems hold for every value of the constants that satisfies the named
assumptions of the modules:

* `SpecAssumption`, `OptionAssumption` (`MetaTests`): the specification has at
  least one family, and options have the ranges the tool gives them.
* `RunnerAssumption`, and `ToolAssumption`: `"none"` is no file name.
* `TemplateAssumption`, `FuzzNewAssumption`: the bodies of `main` and the
  relations are what their types say, `fuzz::start()` and `fuzz::end()` are
  statements of their own, and no variable has the names the tool makes up.
* `PassesAssumption`: the inputs of the passes are well typed, a byte fits an
  integer, and only a constant expression has a sign of its own; a constructor is
  named like its class, and only helpers are marked as constructors by name. Of
  programs with helpers (`ProgramsAssumption`) it says what the compiler checks:
  no two helpers, and no two parameters of one, have the same declaration, and a
  call names a helper and has an argument for each of its parameters.

Where a property fails for programs that the tool takes and goes wrong on, the
theorem names the condition under which it holds, in its statement. Each of these
conditions is met by the inputs of a passing run, and each is needed: section 5
and the runs that expect a violation show a program without it for which the
property fails.

| Condition | In | What it says | Without it |
|---|---|---|---|
| `MetaCalls <= 1` | `MetaTests` | the template has one `fuzz::meta_test()` | `two_calls_names` |
| `SameParams` | `VariantsProofs` | the relations of a family have the same parameters | `two_calls_inputs`; `src/src/generateMetaTests.cpp:267` |
| `OneBlock` | `TemplateProofs` | no `fuzz::start()` after a `fuzz::end()` | `two_blocks` |
| `NoneLeftOpen` | `TemplateProofs` | a block begun after another was closed is closed | the last `fuzz::end()` precedes the last `fuzz::start()`, and copies are put before it |
| `WellNamed` | `TemplateProofs` | `main` has been compiled: names are declared once and before their use | the compiler refuses the program |
| `OneVar` | `TemplateProofs` | a statement declares at most one variable, counting the one for the output | the matcher of pass 5 binds one |
| `OneNew` | `TemplateProofs` | a statement of `main` calls `fuzz::fuzz_new` at most once | two calls in a statement, section 5 |
| `MarkedAlike`, `ToldApart` | `PassesProofs` | a function declared again has the same marks, and is static again or not; classes have different names, no free function is written like a method, no helper is exposed | `src/src/libSpecReader.cpp:57` and `:59`, section 5 |
| `OrderedIfRepeated` | `PassesProofs` | `compare` is a strict weak order on what a pass reads, if a function is declared there twice | section 5 |

| `SingleArgs` | `StitchProofs` | an argument of a helper call is one name or literal | `src/src/helperFuncStitch.cpp:122`, section 5 |
| `NoGlobals` | `StitchProofs` | helpers name no global variable | `src/src/helperFuncStitch.cpp:142`, section 5 |
| `NoBareReturn` | `StitchProofs` | no helper returns just one of its variables | `src/src/helperFuncStitch.cpp:165`, section 5 |
| `NoNestedCalls` | `StitchProofs` | helpers do not call helpers | `src/src/helperFuncStitch.cpp:196`, section 5 |
| `KnownHelpers` | `StitchProofs` | a helper that is called, or returns twice, has a parameter or a variable or names something | `src/src/helperFuncStitch.cpp:180`, section 5 |
| `HelpersDeclareFirst` | `StitchProofs` | a helper declares a variable once, in a statement of its body before those that name it | the compiler refuses the program, or a scope within a helper's body, which the model does not have |
| `FunctionsDeclareFirst` | `StitchProofs` | the same of functions, and an argument of a call names nothing that is declared within the statement | the compiler refuses the program, or a call within a loop, section 5 |

**MetaTestsProofs.** `InductiveInvariant` proves `Spec => []IInv`, and
`TypeCorrect`, `DepthBounded` and `InputsShared` follow. Neither `SameInputs`
nor `DepthBound` is inductive:

* `SameInputs` relates two finished tests, but a new one never looks at them,
  only at `mr_input_vars`. `StoredInv` therefore says that every test of the
  family passes, up to its own variable, a prefix of what is stored for that
  position. Two prefixes of one list agree. It is preserved because a stored
  list that is not empty is never changed, and one that is empty has been used
  only by relations without parameters.
* `DepthBound` speaks of a counter. `DepthInv` says that the counter is the
  number of activations below the first, that an activation that waits for
  another has a placeholder, and that one with a placeholder was drawn while
  `base_chance` could be false, which by all three pruning options means a depth
  of at most `meta_test_depth`.
* `ControlInv` says where the chain, the current test and the stack are at each
  `pc`, so that the positions above are defined.

There is one lemma per action or group of actions, each split by the parts of
`IInv` the action disturbs, and lemmas about `Append`, prefixes and record sets.

Three theorems of the same module add one invariant each to `IInv`.

* `EveryCallResolves`: a function is written when its activation returns, but the
  calls in it were made before. `CallsInv` says that what an activation on the
  stack has called is written, but for the last call, which may be of the
  activation above it; that one is written before the one below returns.
* `EachDefinedOnce`: names are made of a test's number, a family and a counter.
  `NamesInv` says that the counter `recursive_idx` exceeds every index used in
  this test once the stack is empty, that indices rise along the stack, and that
  functions of earlier tests have smaller test numbers.
* `VariantsChecked`: `CheckedInv` says which checks the current variant has.

**VariantsProofs.** `CountInv` says how many variants there are at each point, and
that each finished one applies every relation of the chain. `ChainInv` says of
every test that each of its relations takes the variable of the variant where it
belongs, and in no other place anything that could be taken for it, and the same
of the stored arguments, for every relation of the family.
`StoredArgumentsAlwaysSuffice` is the assertion of
`src/src/generateMetaTests.cpp:267`. `GeneratorImplementsVariants` maps the
initial state to one of `Variants`, drawing a chain to drawing it there, the end
of a relation's activation to applying it, and everything else to stuttering. The
arguments that a step applies agree with those of earlier variants by
`StoredInv`; this holds also when there are several calls.

**ExperimentProofs.** `RunnerInvariant` proves `Spec => []RunnerInv`, from which
`RunnerTypeCorrect`, `TotalsAddUp`, `KeptTextsAreOwn`, `LimitKept` and
`NoTestAfterFailure` follow.
`KeptUnderOwnTest` needs that the source is this test's while it is compiled and
executed: only a generation that succeeded leads there, and it has written it.
`StopsOnFirstFail` needs that a counted failure leaves the loop for good.
`CountedIsKept` compares cardinalities of sets of copies with counters; that a
copy adds one to its set needs that no copy of this test is there yet
(`KeptInv`).

**FuzzToolProofs.** `ToolInvariant` proves `Spec => []ToolInv`. All properties of
the run `tool_runs` follow, the refinement of `Generation` included: together
with `Experiment` taking `MayLeave` from the same module this joins the two
programs. None of the properties is inductive:

* `InputOfPreviousPass` speaks of the file that a pass reads; that it has been
  through all earlier passes must be known while it is written. `FilesInv` gives
  the content of the current file for each `pc`, and says that no file belongs to
  a run that is still to come.
* `CleanedOnSuccess` needs that every existing file of this run is listed, or is
  the one being written (`CleanInv`), and that the list has only files of this
  run, which also gives `OthersUntouched`.
* `OutputComplete` needs what the output is between its opening and the end
  (`ControlInv` says at which `pc` that is).

The refinement has one lemma for the initial state and one for steps: `Start`
maps to `Begin`, `Exit` and `Die` to `End`, all others to stuttering.

**SequenceProofs.** The output of passes 3 and 5 is a concatenation of sequences
(`FlattenSeq`), which the library defines by recursion. What it computes is shown
without an induction theorem, from the smallest length at which it could go wrong
(`SmallestMember`). `FlattenSeqLaidOut` says that there are offsets at which the
parts lie one after the other; `LaidOutPlace` and `LaidOutOrder` find the part of
a place and compare places.

**TemplateProofs.** Six theorems, in the order of the passes.

* `RefusesTheMalformed` (`AbortsJustified`, under `NoneLeftOpen`): `DupInv` gives
  the flag and the lists of the two loops as what they stand for in `main`, the
  blocks open after so many statements (`OpenAfter`) and the names declared
  inside.
* `CopiesAreFaithful` (under `OneBlock`): `CopyInv` follows the copies statement
  by statement and gives what stands in the place of each statement of `main`
  once copies are inserted (`FinalText`). With one block that is the statement
  itself, nothing, or all the copies (`OutputShape`), and the statement of the
  copies of each input come in the order of the list, which is that of `main`.
* `RewrittenNamesResolve` (`CopiesResolve`, also under `WellNamed`): a name of the rewritten text
  is traced to the statement of `main` it comes from, and the order of the two
  back to that of the copies.
* `ObjectsOfOwnInput` (under `OneBlock` and `OneVar`): pass 5 never looks at
  which copy it is in; it counts `fuzz::start()`s. `LoggedInv` says what is
  logged and where the search for the statement stands, `ExpandInv` that the
  count is the number of the copy the next call is in, and the flag whether it is
  in one.
* `TemplateTypes` (`TemplateTypeOK`, no condition): `TypedInv` bounds the count and the place of
  the search by the length of the rewritten text.
* `NewsExpanded` (`EachNewExpanded`, under `OneNew`, for any number of blocks):
  `AnswerInv` says that up to the statement expanded last each call has been
  answered once and those after it not at all, and that the answers for relations
  follow those for `main`, in the order of `mr_fuzz_calls`. The calls of one
  relation are an interval of that list (`CallsOfRelation`), which counts them.

**PassesProofs.** The passes have variables of their own, so an invariant of one
has to be shown for its steps only.

* `ReplacedWithinBounds`, for all sizes of integer and byte: what is read of a
  bound is what the source means, or wraps to it (`WrapTwice`), and rounding to
  what is printed does not move a number past a bound that is itself printed
  exactly (`Rounding`).
* `FunctionsHandedOverOnce` (under `MarkedAlike`, `ToldApart` and
  `OrderedIfRepeated`): `Collected` says that the set holds one entry of each
  function seen, `HandedInv` what the passes have handed over.
  `EquivalentWhenAlike` says what `compare` does tell apart.
* `OrderDoesNotMatter`: `ReadInv` says that of the declarations read so far none
  is malformed, and that all relations among them have the type recorded.
* `EachListedAsDeclared` (`EachWhereItBelongs`, no condition): `PlacedInv` says
  from which declaration each entry of the tables comes, and that a list has as
  many entries of a name as there are declarations of it among those read
  (`RelationsCounted`, `ChecksCounted`). A set of declarations or of positions
  gets one more member with each step (`OneMoreRead`, `OneMoreListed`).
* `PassesTyped` (no condition): the types of these passes.

**StitchProofs.** What pass 6 has done at each point is a function of the program
and of how far it has come. `ProgressInv` says so: the helpers located are those
seen among the first (`Seen`), what is logged for call `k` of `AllCalls` is
`LoggedFor(k)`, with the index `k - 1`, what is written for it is `Written(k)`, and a
run that gave up has met a helper that explains it. None of the properties is
inductive without it, since each speaks of the whole list of calls.

* `GivesUpForHelpers` (`ProperHelpersAccepted`, under `KnownHelpers`): a run that
  is done has passed each of the three places where it could give up, for each
  helper and each call.
* `CallsReplacedByBody` (`SameBody`, under `SingleArgs`, `NoGlobals` and
  `NoBareReturn`): token by token. That a parameter finds its argument needs that
  parameters are distinct and that there is one argument for each
  (`ArgumentOf`); a token becomes one token, so that the concatenation of what
  they become is a sequence of the same length (`FlattenSingles`).
* `NoCallSurvives` (`NoCallLeft`, under `NoNestedCalls`): `AllCalls` has every
  call of every statement (`AllCallsFacts`), so each is in the row of its
  statement (`StitchedAtFacts`) and is replaced there; what replaces it consists
  of tokens of a helper and of arguments, none of which is a call.
* `RewrittenNamesResolve` (`NamesResolve`, under the conditions of the table): a
  place in the result is a row and a column, in that order (`FlattenPlaced`), and
  a place in what is inserted a call and a statement of its helper. Two places
  that declare the same name have the same suffix, so they belong to one call, so
  to one row, and to one statement of the helper (`RowsDeclareApart`,
  `RowDeclaresOnce`). A variable that is named comes from the function, from an
  argument or from the helper; its declaration is in an earlier row in the first
  two cases, and earlier in the same row in the third (`InsertedResolves`,
  `LastResolves`).

`PipelineRunsBoth` joins this module, `PassesProofs` and `TemplateProofs`: a run
of `Pipeline` is a run of `Passes` and of `FuzzNew`, by cases over its actions.

The seven conditions and `ProgressInv` have been checked with TLC on the programs
of the run `pipeline`, all of which satisfy them.

**Only model-checked.** Liveness: `Terminates`, `TerminateHonoured` and
`LimitReached` depend on fairness, which is out of the prover's reach. Every other
property of a passing run is also a theorem, where needed under one of the
conditions above.

## 5. Not modelled, and what comes next

Programs that no passing run contains, since the properties do not hold for them.
Each follows from the definitions named, and from the code they translate:

* Two blocks, for which the run `two_blocks` shows that `CopiesResolve` fails.
  `CopiesFaithful` fails as well, since all copies are put where the last block
  ended (`InsertionPoint`, `src/src/parseFuzzSpec.cpp:783`), and so does
  `OfferedOwn`, since the number of the current input is wrong in the second
  (`ResetCountAt`, 312).
* Two `fuzz_new` in a statement of `main`: one stays (`NewCalls`, 522), and
  `EachNewExpanded` fails.
* A relation that is declared before it is defined is logged twice, once as a
  base (`src/src/generateMetaTests.cpp:697`): `BasesHaveNoPlaceholder` fails, as
  the run `declared_relation` shows. A check in a family, or a relation in none,
  is in the run `pipeline`, and it is where `EachWhereItBelongs` says. But as
  that follows the code in telling by the family alone (711), such a check is
  never run, and such a relation is run as a check: no property says otherwise.
* Arguments of helper calls that are expressions (`parseConcreteVar`,
  `src/src/helperFuncStitch.cpp:122`): `SameBody` fails. Helpers that call helpers
  (196): `NoCallLeft`. Helpers that name a global variable (`Replaced`, 142) or
  return one variable (`ReplacedReturn`, the TODO at 165), calls within a loop
  (38), and a helper's variable of the same name as a template's, as both get
  numbers from 0 (151): `NamesResolve`. Helpers without parameters, variables or
  calls, which no matcher sees (`IsSeen`, 180): `ProperHelpersAccepted`.
* Classes of one name in two namespaces (`compare`, `src/src/libSpecReader.cpp:59`)
  and a global function that is like a method (57): one of the two is dropped,
  and `EachHandedOverOnce` fails. A function that is declared twice beside methods
  of two classes and a free function whose names contradict the order of the
  classes: `compare` is not transitive, so the set may keep both declarations.
* `fuzz_rand` with one bound is in the run: it ends in an assertion
  (`src/src/parseFuzzerCalls.cpp:139`), although the test at 133 makes the second
  bound optional.

Not modelled:

* The text of the arguments of recursive calls (`retrieveMRDeclVar`) and the
  types of `main`'s variables (`testMainLogger`): the generator is "partly".
* Calls within arguments of helper calls, recursive helpers, return statements
  nested in a helper's body, and the ranges of the rewriter other than the one
  its TODO names: the stitcher is "partly".
* Code that no pass uses: `ExposedTemplateType`, `fuzzConfigParser`,
  `templateVariableDuplicatorVisitor`, `newVariableStatementRemover` (its matcher
  is commented out), `mrDRELogger`, `mrRecursiveLogger`.
* Reading C++ with Clang (the AST is input data), formatting and indentation,
  logging, the fuzzer interface library (not in the tree), the build files.
