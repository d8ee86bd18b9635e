# Verification of the Nous language implementation

TLA+ specifications of the Nous toolchain (`crates/`), the TLC configurations
that model-check them on small instances, and theorems about them that TLAPS
proves for every value of the constants.  Every definition is translated from
the Rust code; `PROJECT.json` maps each one to the lines it stands for, lists
the runs, the mutants that show what each property can detect, the hazards of
the code and the theorems.

1. [The system](#the-system): components, state, operations, interactions
2. [What is hard](#what-is-hard)
3. [Modules](#modules): which models what, and how
4. [Runs](#runs): what each checks and shows, bounds, fairness
5. [Disagreements found](#disagreements-found)
6. [Theorems](#theorems): what is proved, from what, and how
7. [Only model-checked, and not modelled](#only-model-checked-and-not-modelled)
8. [Plan](#plan)

## The system

A Nous program goes through these parts, in this order.  Except for the HTTP
server, the REPL and the language server, each part is a sequential
computation, called by the next with the other's result.

| part | source | state it keeps | operations | what makes it correct |
|---|---|---|---|---|
| loader | `nous-parser/src/loader.rs` | files loaded, namespace registry, declarations collected, the recursion | `load_program`, `resolve_use` | each file once, after what it uses; everything needed is loaded; cycles end |
| indentation | `nous-parser/src/indent.rs` | stack of columns, text emitted | `preprocess_indentation` | INDENT/DEDENT balance; blocks follow the off-side rule; only misfits are refused |
| parser | `nous-parser/src/{builder,lib}.rs`, `nous.pest` | none | `parse` | the tree is that of the text |
| type and effect checker | `nous-types/src/{checker,env}.rs` | environment of names and types, errors | `TypeChecker::check` | effects of whole chains of calls are declared; exactly the unreachable states of a machine are reported; accepted bodies have their type |
| verifier, synthesis | `nous-verify/src/{verifier,smt,synthesize}.rs` | counters, findings, the queue of a search, solver assertions | `Verifier::verify`, `synthesize_from_contract` | each clause enters one count, "verified" is said of what cannot fail, unreachable and stuck states are reported exactly |
| trust | `nous-verify/src/trust.rs` | effective levels, witnesses | `analyze` | a function is as trustworthy as the weakest it depends on, in any order of visits |
| bytecode compiler | `nous-runtime/src/{compiler,bytecode}.rs` | chunk under construction, one flat scope per function, patch list | `Compiler::compile`, `compile_flow`, `compile_match` | balanced code that means what the program says |
| JavaScript backend | `nous-runtime/src/codegen_js.rs` | text | `generate` | the same meaning as the VM's |
| virtual machine | `nous-runtime/src/{vm,value}.rs` | one value stack, call frames | `execute`, `step`, `invoke_fn` | frames do not disturb each other; no structural error |
| builtins, HTTP server | `nous-runtime/src/{builtins,io}.rs` | files, SQLite tables, sockets | `call_builtin`, `http_serve*`, `POST /api/proposals`, `POST /api/chat`, generic `POST`, `PUT`, `DELETE`, login | tables agree with each other and with what clients were told |
| Agora library | `agora-server/src/{store,pipeline}.rs`, `agora/*.ns` | blobs, proposals, constraints, graph heads | `submit_proposal`, pipeline, merge | only verified proposals are merged |
| command line, REPL, language server | `nous-cli/src/{main,repl,lsp}.rs` | session source; open documents | commands; LSP messages | a rejected definition leaves no trace; diagnostics are those of the current text |

How they interact: the command line calls loader → checker → verifier (and
trust) → compiler → VM, and stops at the first error.  The VM calls builtins,
which return a value or raise an error; some builtins re-enter a VM with
functions of the running module (`set_current_module`, a process-wide mutex).
The server reads one request at a time from a socket, and `POST /api/proposals`
calls parser, checker and verifier on the source it was sent and talks to SQLite
in statements that are each committed by themselves.  Other requests write the same
tables directly, and `agora/serve.ns` seeds them before it serves.

## What is hard

The hazards are listed with their lines in `PROJECT.json`.  In short:

* **Flows** (sagas): which rollbacks run, in which order and with which values,
  when a step fails as a value, through `?`, or by raising; when a rollback itself
  fails.  The protocol is spread over the compiler's jumps and slots and the VM's
  handling of errors, and a unit test sees one path of it.
* **The stack machine**: one flat stack for all frames, with nothing at run time
  that separates them.
* **Fixed points and recursion over graphs with cycles**: trust propagation in
  the order of a `HashMap`; loading files that use each other; the search of a
  state machine; aliases of aliases.
* **Several writes that belong together, without a transaction**: the statements
  of a proposal, each with its error dropped, a server that may end between two,
  clients that repeat requests within the clock's second, or write the tables of
  the proposals themselves through the generic endpoints.
* **Boundaries**: columns between blocks, several levels closed by one line, the
  end of the file inside a block; the machine's integers, where all but `%` are
  checked.
* **Stale state**: names that outlive their scope in the flat `Scope`; answers and
  diagnostics of a text that the editor has changed since; an alias that means
  nothing before its own declaration.
* **Two semantics of one clause**: the solver's, over mathematical integers and
  names, and the machine's, over checked integers and slots, after a body that may
  have bound the names again.
* **Long sequences of legal commands**: definitions accepted on top of what a
  refused one left behind in a session.

## Modules

### The machine and flows: `Bytecode`, `Vm`, `Activations`, `Isolation`, `Compiler`, `Saga`, `FlowLayout`, `MCFlow`, `VmProofs`

* `Bytecode` — values and instructions: what each instruction takes, leaves,
  computes, and when it faults (`vm.rs` `step` and the arithmetic helpers).
  Integers are `IntMin..IntMax` with checked arithmetic; texts are atoms.
* `Vm` — `Vm::execute`.  State: `module` (the program), `stack`, `frames`,
  `outcome` (running, or what `execute` returned), and a history `effects` of
  builtin calls.  One action per group of instructions of `Vm::step`
  (`LoadConst`, `LoadLocal`, `StoreLocal`, `Compute`, `Peek`, `Check`, `Jump`,
  `Call`, `Return`, `Halt`, `CallBuiltin`), `BuiltinFails` for a builtin that
  raises and `Fails` for an instruction that does.  A builtin answers with any of
  `BuiltinResults`.  Chunks, instructions and stack positions count from 1.
* `Activations` — the abstract specification of the machine: every call has a sequence
  of locals and a stack of operands of its own, an instruction reaches only those of
  the active call, a value returned is pushed for the caller, and there are no
  structural errors: no underflow, no local or jump out of range.
* `Isolation` — how `Vm` implements it.  `Activation(i)` cuts the part of frame `i` out of
  the flat stack: its locals from its base on, its operands from there to the base of
  the next frame.  `CallsKeepApart` is the refinement
  (`Own == INSTANCE Activations WITH calls <- [i \in 1..Len(frames) |-> Activation(i)]`),
  `LocalsApart` (the locals of a frame end before the next frame begins) what it rests on.
* `Compiler` — `compiler.rs` as an operator from programs (records of the shape
  of the syntax tree) to sequences of chunks: expressions, patterns, contracts,
  functions, flows, the main body.  `Depths` computes for each
  instruction how many operands are surely there, the `StackMap` of `Vm`.
* `Saga` — the abstract specification: what a flow does, seen only from the
  calls it makes and the answer it gives.  Its state is the `flow`, the `log` of
  calls and the `status`; everything else (who failed, what a step left, which
  rollback is next) is a function of the log.  `Compensated` and `AllDone` say what
  an answer means for the caller.
* `FlowLayout` — joins the two.  `LaidOut` is `compile_flow` as a condition on code
  instead of a compiler: which instructions stand where, for any number of steps,
  each calling a builtin or a function of the program that does, with or without `?`.
  `ImplementsSaga` says that `Vm` on such code implements `Saga`
  (`Abstract == INSTANCE Saga WITH flow <- module, log <- effects, status <- outcome`).
* `MCFlow` — compiles every flow of a family and runs it in `Vm` from
  `let out = pay(arg); out`.  TLC evaluates the assumptions of `Vm` and `FlowLayout`
  on everything that `Compiler` emits for them.

### Trust: `Trust`, `MCTrust`, `TrustProofs`

`trust::analyze`.  The call graph and declared levels are chosen in `Init`.
`BeginSweep` starts a pass of the `while changed` loop, `Visit(f)` is its body
for one caller (in any order: it iterates over a `HashMap`), `Report` builds the
result.  The witness of a downgrade is some callee at the level reached (callees
are a `HashSet`).  The cap of 100 sweeps is `MaxSweeps`.

### Loading: `Loader`, `MCLoader`, `LoaderProofs`, and `Indent`, `MCIndent`, `IndentProofs`

`Loader` is `load_program`: the recursion of `Loader::load` as the stack
`frames`, `loaded` (marked before the file is read), the namespace `registry`,
the `declarations` in order.  `UseNewFile`, `UseLoadedFile`, `UseUnresolved` are
the three ways a `use` goes, `Finish` the end of a file; `Resolve` is
`resolve_use` with its strategies in order.  `deps` is a history variable.

`Indent` is `preprocess_indentation`, a step per line: `SkipLine`,
`RejectOddLine`, `IndentLine`, `DedentLine`, `SameLevelLine`, and `CloseAll` at
the end.  A line is its number of leading spaces, or `Skipped`; the output is a
sequence of `INDENT`, `DEDENT` and lines.

### Checking: `Checker`, `MCChecker`, `CheckerProofs`

`TypeChecker::check`: three passes over the declarations (`phase`, `at`), with the
environment (`known`, `aliases`, `functions`) and the `errors` collected.
`PrescanFn` and `PrescanType` register names; `CheckAlias`, `CheckFn`, `CheckFlow`
and `RefuseFlow` (a flow that does not return a Result is left before its signature
is recorded again) are the detailed pass; `StartSearch`, `Expand` and
`ReportUnreachable` are `check_state` with its breadth-first search; `CheckEffects`
is the pass over effects.  A type is a name, `Normalized` follows aliases; the
inference of expressions is the type `gives` that a body is found to have.

### Proposals: `Agora`, `MCAgora`, `AgoraProofs`

`POST /api/proposals` of the HTTP server in `io.rs`, one action per SQL
statement in the handler's order: `InsertPending`, `Decide` (the verdict and the
UPDATE), `StoreBlob`, `StoreConstraint` (repeated) and `ConstraintsStored`,
`PostChat`, `Answer`.  `StatementFails` is a statement whose error is dropped
(`.ok()`), `Crash` the process ending anywhere, `Tick` the clock's second.  The
server handles one request at a time, so there is one `request`.  The verifier
is the set `Verified`: a function of the source.  The hash is injective: an id
is the text hashed.

The four tables are written by others too.  `Init` has the rows that `agora/serve.ns`
seeds: proposals, merged or "verified", without blobs or messages, and clauses and
messages that are about no proposal.  It runs at every start, so that `Crash` adds the
clauses and messages once more.  `PostMessage` is `POST /api/chat`; `InsertProposal`
(`POST /api/Proposals`: SQLite finds a table in any case, the handler's own endpoint is
only found in one), `InsertBlob`, `WriteConstraint`, `WriteMessage`, `DeleteConstraint`,
`DeleteMessage`, `ChangeProposal` and `DeleteProposal` are the generic POST, PUT and
DELETE, one statement each.  PUT and DELETE look for an integer id: any row of
`constraints` and `chat` has one (`AUTOINCREMENT`: `[rows, last]`), of `proposals` only
rows a client has written (`NumberIds`), of `blobs` none.

`answers` (what clients were told), `spoiled` (the ids a fault has touched) and `direct`
(for each table, the keys and the proposals' ids that were written otherwise than by
`POST /api/proposals`, seeds included) are history variables.  The properties leave out
what is `direct`, table by table, and no more: without any of these exemptions TLC finds
them violated.

### Contracts: `Verifier`, `Smt`, `Synthesis`, `Meaning`, `MCContracts`, `VerifierProofs`

* `Verifier` — `Verifier::verify`.  State: the declaration visited (`at`), `phase`
  (walking, or in the forward or the backward search of a state machine) with the
  search's `queue` and `visited`, the two counts, and `errors`, `warnings` and
  `diagnostics` as sets of records.  One action per kind of declaration
  (`VisitSynthesized` and `VisitFn` are the two ways of `visit_fn_decl`; each stands
  for the whole `check_contract`), one per turn of a search (`ExpandForward`,
  `ExpandBackward`), one per report, `Finish` for the trust warnings.  What the
  solver answers is a parameter.
* `Smt` — which clauses are translated (`IsBool`, `IsInt`) and what is asked:
  whether a `require` can be false, whether an `ensure` can be false under the
  requires that translate.  Z3 is taken to decide it; here by trying `Sample`.
* `Synthesis` — the body made from the ensures.
* `Meaning` — what an expression means, evaluated over the tree with an environment
  of names; of `return` and `?`, what the documents say of them.  It is what compiled programs are compared with; operators are those of
  `Bytecode`, so that it is about control, names and order, not arithmetic.
* `MCContracts` — verifies a program of the family (`Verifier` with the answers of
  `Smt`), compiles it (`Compiler`, with the bodies of `Synthesis`), and runs it in
  `Vm` on every input.

### Language server: `Lsp`, `MCLsp`, `CliProofs`

`run_lsp`: one action per kind of message, with the table `docs` and the two pipes
`toServer` and `toClient`.  `OnShutdown` is `Connection::handle_shutdown`, which then
waits for `exit` (`ExitInTime`) or, after half a minute, gives up (`ExitTimeout`:
`unwrap_or(false)` makes the error into "no shutdown", the request is answered again
and the loop goes on).  `HoverCrash` is the panic of slicing a line inside a
character.  The editor (`Open`, `Edit`, `Close`, `Point`, `Pull`, ...) keeps to the
protocol; `asked` and `answers` are histories.

### REPL: `Repl`, `MCRepl`, `CliProofs`

`ReplSession`: `source` as its lines, `def_count`, and an action per command;
`add_definition` is `Define` or `Reject`, by what parser and checker say of the
whole source with the new lines.  The two are parameters; `MCRepl` gives them the
syntax of state machines over lines and the check that all states can be reached.

## Runs

| run | instance | states | what it shows |
|---|---|---|---|
| `flow` | all flows of 0–2 steps over four kinds of step, with and without rollbacks, and 34 of three steps; arguments that pass and fail `require`; every outcome of every call | 12 893 | stack discipline; the one flat stack does what a stack for every call would; what completed is compensated, once, in reverse, with its own value; success means all done; the flow implements `Saga`; it ends; what the compiler emits is balanced and laid out as `FlowLayout` says |
| `flow_completed_only` | the same | | a comment on `compile_flow` that the code does not keep |
| `flow_try` | the same | | a promise of SPEC.md and README.md that the code does not keep |
| `trust` | all call graphs of three functions with self-calls, and a builtin; three declared levels; every order of visits | 575 232 | the result is the weakest level among all dependencies, its witnesses explain it, N sweeps are enough for N functions |
| `loader` | all projects of four files in two directories: two uses of the entry, one of each other file, one file possibly broken | 53 319 | each file once, after what it uses, all that is needed; loading ends |
| `indent` | all sources of at most 5 lines over 6 kinds of line | 41 085 | tokens balance, blocks follow the off-side rule, exactly misfits are refused |
| `checker` | three functions or flows with every choice of calls and of two effects, two of them under one name or not; state machines of up to three transitions between three states; three aliases, functions or flows in any order | 349 060 | undeclared effects and unreachable states are reported exactly, accepted bodies have their type, checking ends |
| `agora` | three requests, two namespaces, a source with two clauses that passes and one that does not, two of the four proposals of a second under one id; two clock seconds, two faults; a seeded row; rows, a blob, clauses and messages that clients write, change and delete | 2 046 284 | see below |
| `contracts` | functions of 7 requires, 7 ensures and 20 bodies or none (every contract with four of them, every body with some contracts), called with -2..2; all machines of up to three transitions between three states and pairs of machines; flows, entities, capabilities | 28 003 | diagnostics of state machines are exact; each clause enters one count; programs come to what their trees mean, but where the code departs from the documents; what the solver proved does not fail |
| `contracts_synth` | the same | | ensures "verified by construction" that fail |
| `lsp` | two documents, three texts, three messages of the editor | 88 154 | answers are about the text they were asked of; what is shown catches up; the server ends |
| `repl_undo` | sources of up to six lines typed as six kinds of definition | | a refused definition leaves lines behind |

**Why the bounds are enough.**  A flow's rollback protocol is decided by the
failing step, the steps before and the steps after it: three steps have all three
at once, and two steps of every kind have every pair of neighbours.  The rollback
chain of a longer flow repeats the middle.  Trust: three functions make a
cycle, a cycle entered from outside, and a chain that needs a second sweep; the
theorem covers the rest.  Loader: the entry uses two files that can use a common
one (diamond), each other (cycle) or themselves; `lib/` is there so that
resolution relative to the using file matters; the registry is reached by a name
that only it knows.  Indent: three depths and an odd column let a line close two
blocks at once and fall between two; five lines let the indentation grow, fall
and grow again.  Checker: three functions make a chain, a cycle and a shared name
called from a third; three transitions make a cycle with an island or a tail, three
declarations a chain of two aliases and its use, in every order.  Agora: three requests are two of one client within a second and
another between or after them; two faults are a failing statement and a crash, on
one request or on two.  Two proposals share an id, two have one of
their own, one with each verdict.  Of the three requests any may be a direct write, between
or after proposals: a merged row under the id that a proposal which does not pass will
have, a number's row that is changed and deleted, another content under a hash, a clause
and a message about one proposal or about none, under any id or over and instead of any row.  Contracts: each body shows one form of control (branch,
match, early return, call, rebinding, a raise), each contract one way a clause can
go; three transitions make a cycle with an exit, an island, or a dead end.  Lsp:
three messages are an open, a change and a request of one document, or a close and
a request after it; a second document must not be disturbed.

**Bounds in the guards.**  `MaxTime`, `MaxRequests` and `MaxFaults` in `Agora`;
`MaxMessages` in `Lsp`; `MaxLines` in `Repl`;
`MaxSweeps` in `Trust` is the code's own.  Everything else is bounded by the
choice in `Init`.

**Deadlock** is checked in every run; a computation that has ended stutters in an
action of its own (`Returned`, `Reported`, `Ended`, `Wait`).

**Fairness.**  `WF_vars(Next)` in `Vm`, `Saga`, `Loader`, `Checker` and
`Verifier` (in `MCContracts` its steps): each is a sequential loop that does nothing but take its next step, so that "the process
keeps running" is all that is assumed.  `Lsp`: the server takes the next message
(`WF_vars(Serve)`) and the editor reads what comes (`WF_vars(Receive)`); nothing is
assumed of the user.  `Trust`, `Indent` and `Agora` state safety only: that the
sweeps of `Trust` end is the cap's doing, that they need no cap is `ConvergesWithinCap`;
the server promises nothing about when, and a crash may leave a row pending for
ever.

**Mutants.**  Each property of a passing run has a mutant in `PROJECT.json`: a
definition of the model changed as a plausible bug would change the code (a
dropped reset, a test against the wrong bound, `INSERT OR REPLACE`), under which
TLC finds the property violated.  Those of `flow` are changes to the machine: a
change to `compile_flow` makes the assumption `FlowsLaidOut` false before anything
runs, which TLC reports as well.

### The properties

* `flow` — `OperandsThere`: every active frame finds the operands its code counts
  on, though nothing separates frames on the stack; `NoStructuralFault`: no
  underflow, no local out of range, no jump out of a chunk; `CallsKeepApart`: each call
  computes as if it had locals and operands to itself, whatever it calls and whatever
  calls it; `CompletedStepsCompensated`,
  `SuccessMeansAllDone`: what a caller of a flow relies on;
  `ImplementsSaga`; `Terminates`.
* `trust` — `WeakestLink`, `NeverStrengthened`,
  `WitnessesLeadToTheSource` (the chain of blame ends at a function that declares
  the level, around cycles too), `ConvergesWithinCap`: the sweeps come to an end without
  the cap's help.
* `loader` — `LoadedOnce`, `DependenciesFirst`, `LoadedAllNeeded`, `Terminates`.
* `indent` — `Nested`, `Bracketed`, `OffSide` (the stack kept incrementally holds
  exactly the columns that a definition over the whole source gives),
  `OnlyMisfitsRefused`.
* `checker` — `EffectsExact`: comparing each function with the functions it calls
  is exact for everything it can reach, around cycles and past shared names;
  `UnreachableExact`: the states reported are those outside every closed set that
  has the first; `AcceptedAgree`: aliases, whatever their order, let no wrong type
  through; `Terminates`.
* `agora` — `DecidedForGood`: a repeated request runs all statements again on the
  decided row and must not change it, and no proposal turns into another, not even into
  one of the same id; `PendingOnlyUnderWay`: only faults leave a row undecided;
  `AnswersHold`: what a client was told stays true of four tables at once, whatever
  clients write about other proposals;
  `MergedIsBacked`: what the handler has merged is a verified source proposed under that
  id, which is stored with its clauses; `ChatAgrees`: the last word of the chat on an id
  is the status of its row; `MergedWasVerified`.  They confine what a fault leaves behind
  to the ids it has touched, and what a direct write changes to the proposals it is about;
  of these they promise nothing.  Two proposals that read the same when their
  parts are written one after the other have one id, and then a merged row may be that
  of the other source: what a row says of its own source is claimed for the ids that
  one proposal only can have (`UnambiguousIds`), the rest for all.
* `contracts` — `UnreachableExact` and `StuckExact`: the states reported are those
  that a definition by closed sets gives, whatever cycles there are and whatever was
  found before; `EveryClauseCounted`: each clause of a declaration enters exactly
  one of the counts verified, unverified and refuted (a `require` that is literally false
  is counted as verified, and reported); `RunsAsMeant`: compiled code and
  the tree agree on value and error, contracts included, but for the bodies in `Odd` and
  the inputs for which the code departs from the documents (`Departs`); `VerifiedHolds`: a
  clause the solver proved from the requires never fails in the machine, if the body binds
  no name of it again and it does not divide; `Terminates`.
* `lsp` — `AnswersFit`: every answer is that of the text its request was about, and
  none is answered twice but shutdown; `CatchesUp`: in the end open documents show
  the diagnostics of their text and every request is answered; `EndsOnExit`.

## Disagreements found

* `flow_completed_only` — the rollback chain also runs the rollbacks of the
  failing step and of steps never reached (given Void), while the comment on
  `compile_flow` and SPEC.md speak of the completed steps.
* `flow_try` — a step that fails through `?` ends the program with nothing rolled
  back; SPEC.md and README.md promise the rollback, in an example with `?`.
* `contracts_synth` — the ensures of a function without a body are all counted as
  "verified by construction", but the body satisfies only the one it was made from.
* `repl_undo` — "Undo the definition" takes back one line: of a refused definition of
  several lines the others stay.  The remains can make all later definitions fail, or
  become part of one.

Met while modelling, and not the subject of a run:

* `resolve_use` (loader.rs:113) lists the parent directory among the places searched;
  the path it tries is the one tried before.
* The comment on `check` (checker.rs:59-60) promises that forward references are
  valid; a function that uses an alias declared after it is refused.
* An alias may bear the name of a built-in number (`type Int = Text`): before its
  declaration the name is the number, after it the alias, and a body accepted with one
  meaning is one of the other type (`AliasesSound` leaves it out).
* The id of a proposal (io.rs:987) hashes namespace, source and second without
  separators: for two proposals that read the same when so written the verdict on
  one is recorded on the row of the other.
* A pattern inside a constructor or a tuple pattern is not tested, and its names are
  bound from the value around it (compiler.rs:930-985, 1013-1105); an `if` without
  an else whose value is used gives Void; a `let` in a branch lasts after it.
  `MCContracts` names these bodies in `Odd`, which `RunsAsMeant` leaves out.
* SPEC.md:215-218 says that ensures are enforced at run time; they are emitted after the
  body, and a `return` in it leaves before them (compiler.rs:193-198, 659-666): a function
  may return what its ensure forbids.
* bytecode.rs:87-88 and SPEC.md:344-350 say that `?` returns an Err from the current
  function; it ends the whole program with an error (vm.rs:573-580), in functions as in
  flows.  `MCContracts` names the inputs of both in `Departs`, which `RunsAsMeant` leaves
  out.
* A pipe into a builtin does not compile (compiler.rs:763), although `x |> f` is `f(x)`
  and the call does.
* `agora/serve.ns` seeds with `INSERT OR IGNORE` at every start: constraints and chat have
  no key but the number given, so that their seeds are there once more after each.
* A body that binds a parameter again changes what the ensures check (`Rebinding`).
  Z3 divides the Euclidean way and the machine truncates: `x / 2 * 2 <= x` is
  verified and fails for -1.
* error.rs:18-19 and smt.rs:20-23 speak of requires that can never hold; contradictory
  requires are not reported and make every ensure hold.  An ensure on `result` of a
  function with a body is about a free variable of the solver: it is never proved
  unless it holds of every value, since the body is not looked at.
* The documented `ensure result.0 == ...` has no syntax, so that no tuple is ever made.
* The JavaScript backend makes a body from the first `result ==` clause where the VM
  takes the last, and its flows take an Err of a step for success.
* Diagnostics shown for a document are not taken back when it is closed; `run_lsp`
  joins the threads of the connection while the connection is still alive.

## Theorems

All proofs are checked by TLAPS, down to the last leaf.  Each safety theorem goes
through an inductive invariant `IInv` of its module: `Init => IInv`,
`IInv /\ [Next]_vars => IInv'`, `IInv => Inv`.

* `VmProofs`, first part — for every code that is `Balanced` (assumption
  `CodeBalanced`: a static check on the code and its stack map, which TLC evaluates for
  all code the compiler emits in `flow`) and whatever builtins return: `TypeCorrect`,
  `OperandsAlwaysThere`, `NeverStructuralFault`, `FramesIsolated`.  `OperandsThere`
  itself carries the induction: each frame's guaranteed operands end below the
  next frame's base, give or take the returned value that is still to come.
* `VmProofs`, third part — `LocalsStayApart` and `MachineKeepsCallsApart`: for all balanced
  code the flat stack implements `Activations`, initial states to initial states and every
  step of `Vm` to a step of `Activations` of the same kind, or a stutter.
  `OperandsThere` is not enough for this: it leaves a waiting caller one place more than
  there is, for the value that is to come, which could be its last local;
  `LocalsApart` is added to the invariant (`ApartInv == IInv /\ LocalsApart`), and is kept
  because a call takes no more operands than the stack map guarantees, so that the new
  base is above its caller's locals.  The lemmas on `SubSeq` (`SliceOfAppend`, `SameSlice`, ...) say what appending
  to the stack, or taking from its end, does to the parts below; `Waiting` and
  `CallersAre` that the parts of waiting frames are untouched; then there is a lemma
  for each kind of instruction (`WorkMoves`, `CallMoves`, `ReturnMoves`, `HaltMoves`,
  `BuiltinMoves`).  `HaltsOnAValue` (the stack map has an operand at every `Halt`, so
  that the value of the program is one of the halting frame's operands) is an assumption
  on code like `CodeBalanced`: the compiler emits `Halt` only after an expression,
  and TLC evaluates it for everything emitted in `flow`.
* `VmProofs`, second part — for flows of any number of steps, laid out as the compiler
  lays them out (assumption `FlowsLaidOut`, evaluated by TLC for every flow of
  `MCFlow`): `FlowsAreSagas`, that the initial states of the machine are initial states
  of `Saga` and every step of it is a step of `Saga` or a stutter, and from it
  `FlowsAreCompensated` and `FlowsSucceedWhole`.  Three invariants go together:
  `IInv` of the first part (no instruction faults for lack of operands, and no frame
  writes below its base, so that the flow's locals outlive the calls it makes);
  `FlowInv`, which says where in the flow the machine can be and what it holds there
  (`Kept`: the input and what each completed step left; the value under test; the
  error in its slot); and `SagaInv`, on the calls alone: the steps' calls in order,
  each given what the one before it left, then, if one failed, the rollbacks in the
  order of `Before`, and in the end the answer that is due.  There is a lemma for each
  kind of instruction (`DoesStore`, `DoesCall`, ...), for each place of the flow
  (`FromEntry`, `FromTest`, `FromUndo`, ...), and one on the order of rollbacks
  (`Order`: `Before` counts the rollbacks of later steps, hence decreases strictly).
* `TrustProofs` — for every call graph, every declaration and order of visits:
  `TrustIsTheWeakestLink`, `LevelsJustified`, `TrustOnlyWeakens`, `TypeCorrect`,
  `WitnessesExplain`, `SweepsSuffice`, and the algebra of `meet`.  The invariant says
  that a caller already visited in a sweep without changes is no stronger than its
  callees; reachability is the least closed set, so that no induction over paths is
  needed.  For the witnesses it adds `Grounded`: every set of functions has one that
  blames nobody in it.  For the sweeps it counts the functions that have come to
  their final level: while one has not, some callee of such a function has
  (`OneIsReady`), so that each sweep adds one.  They rest on a finite number of
  functions (`FnsFinite`) and on "(transitive)" not being the name of one
  (`WitnessNamed`).
* `LoaderProofs` — for every project: `EachFileOnce`, `InDependencyOrder`,
  `WholeProgramLoaded`, `TypeCorrect`.  The invariant links the open files (each
  needs the one above it) and says which uses have been followed.
* `IndentProofs` — for sources of every length and depth: `BlocksNested`,
  `TokensBracketed`, `OffSideRule`, `RefusalsJustified`, `TypeCorrect`.  It rests
  on lemmas on the numbers of INDENT and DEDENT in prefixes of a sequence.
* `AgoraProofs` — for any namespaces, sources, seeded rows, rows that clients write, numbers
  of requests and faults, and without an assumption on the ids of proposals: `TypeCorrect`, `OnlyVerifiedMerged`, `DecisionsStand`,
  `OnlyFaultsLeavePending`, `AnswersAreTrue`, `MergedAreBacked`, `ChatHasTheLastWord`.
  The invariant's part `Progress` says, for each stage of the handler, what its
  statements have done so far unless a fault touched them.  `BackedInv` and `ChatInv`
  say when, during a request, what is so of rows at rest is still so or already so
  again: a row merged before stays backed while a request of its id waits for its
  verdict, is exempt while parts are being stored, and is backed again by `Progress`.  `BlobsTrue`
  (a blob nobody has written directly is what has its hash), `StatusesOK` (only a seed or a
  client writes a status the handler does not know) and `AnswersTold` (an answer is the
  verdict on a source proposed under its id) are what the others rest on.  A direct write
  is a step of four kinds (`DirectIs`), and disturbs only what `direct` has after it
  (`TablesGrow`, `BackedStays`, `LastWordStays`).  Numbers are not ids (`IdsApart`).
* `VerifierProofs` — for every program and every solver: `TypeCorrect`,
  `UnreachableAreExact`, `StuckAreExact`, `ClausesAreCounted`.  The invariant says of
  each search that what it has expanded leads only to what it has found and that all
  it has found is in the closure, and of each machine already left what was found for
  it.  That a search backwards from all terminal states finds what searches forwards
  from each state would is a lemma on closures (`BackwardIsForward`).  The counts
  rest on a partition of the clauses by the solver's answers.
* `CliProofs`, language server — for any client, any texts and any number of messages:
  `EveryAnswerFits`.  The invariant `LspInv` relates the server's table, the messages on
  their way and the editor's documents: reading on from what the table has for a
  document, the messages still in the pipe lead to the text the editor has, and a
  request stands among them where that text is the one it was asked of
  (`TableFollows`, `RequestsFaithful`); a response on its way back fits its request
  (`ResponsesFit`), and a request has not been answered while it or its response is
  under way, which there are not two of (`InOnePlace`; shutdown, which is answered
  twice, is the exception).
* `CliProofs`, REPL — for every parser and checker: `NothingIsLost`, `OneLineUndone`, and,
  for definitions of one line, `OneLinersKeepItSound`: the undo is exact for the
  definitions it was written for.
* `CheckerProofs` — for every program: `UnreachableStatesExact`, `EffectsAreExact`,
  `AcceptedBodiesAgree` and `TypeCorrect`.  The search's invariant is that what it has expanded leads to
  what it has found, and that all it has found is reachable; for effects, that the
  environment holds the signature of the last function of each name, unless a
  flow was refused.  Reachability by transitions or calls is membership in every
  closed set.  For accepted bodies (`AgreeInv`) it is that the aliases recorded so far
  are those declared, so that following them loses nothing: every name along a chain
  denotes what its first does (the least place where one did not would follow one where
  it did), however long the chain and in whatever order its aliases are declared.

Assumptions on constants are named in the modules that declare the constants, and
TLC evaluates them in the passing runs.  Those of `Lsp` say that no text
is called "none" or "closed" (which mark a document without one) and that lines are made
of bytes of the five kinds; `AliasesSound` of the checker, a hypothesis of `AcceptedAgree`, leaves out
aliases in a circle or to nothing, and an alias that bears the name of a built-in
number.  Type correctness (of all but `Vm`, where TLC
checks it too), `LevelsJustified`, `FramesIsolated`, `LocalsStayApart`, `FlowsAreSagas` and
the theorems about the REPL are proved and not run
(the run of `FlowsAreSagas` is `ImplementsSaga`, which adds that the flow goes on;
`FramesIsolated` and `LocalsStayApart` are what `CallsKeepApart`, which is run, rests on).

## Only model-checked, and not modelled

Only checked by TLC: liveness (`Terminates`, `CatchesUp`, `EndsOnExit`, and of
`ImplementsSaga` that the flow goes on), what solver and machine say of one clause and
that programs come to what their trees mean (`VerifiedHolds`, `RunsAsMeant`: `Smt`,
`Meaning` and `Compile` are recursive), and everything about what the compiler emits (a
recursive function over syntax trees, out of the prover's reach), hence also that
emitted code is balanced and that emitted flows are laid out as `FlowLayout` says.

Not modelled, with the reason in `PROJECT.json`: the parser (a pure function, its
result is the input here), the JavaScript backend (a text generator), the Agora
library, the command line, the editor extension, examples and applications.  Within modelled
parts: Nat, Dec and Bytes values and the order of texts in `Bytecode`; lambdas and
primed or `pre` expressions in `Compiler`; re-entry into the VM from a builtin; the
walks that collect calls in `trust.rs` and `checker.rs`; the inference of
expressions, entities, enums, contracts and structured types in the checker; canonicalization of paths in the loader;
the accounts, sessions and other tables of the server; solver
timeouts; the wording of hovers and malformed messages in the language server.

## Plan

Done, in this order: flows (`Bytecode`, `Vm`, `Compiler`, `Saga`), trust, loader,
indentation, proposals, the checker, contracts (`Verifier`, `Smt`, `Synthesis`,
`Meaning`), the language server, the REPL, and the proofs of their safety; then what the
machine promises whatever it runs (`Activations`), the proposals without an
assumption on ids, and what is written to their tables beside them.

Next:

1. **The Agora library**: `ContentStore` and the pipeline that merges a proposal,
   against the table statements of `Agora`.
2. **The JavaScript backend**: the flows of `emit_flow` against `Saga`.
3. **Re-entry**: builtins that call functions of the running module
   (`set_current_module`, `invoke_fn`).
4. **Proofs**: that `LaidOut` code is balanced, so that the theorems on flows need one
   assumption instead of two; the REPL's session against the language server's view of
   the same text.
