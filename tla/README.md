# A verification development for the HULK compiler

This directory holds TLA+ models of the HULK compiler, the TLC configurations
that check them on small instances and TLAPS proofs of what matters most about
them. `src/` is the compiler: a C++ program that translates HULK, a small
object-oriented language with type inference, to QBE intermediate code and links
the result with a runtime written in C.

Contents: [1 the system](#1-the-system) ·
[2 what is modelled](#2-what-is-modelled-and-how-it-corresponds-to-the-code) ·
[3 the runs](#3-the-runs) · [4 fairness](#4-fairness-and-deadlock) ·
[5 the proofs](#5-the-proofs) · [6 disagreements found](#6-where-code-and-documentation-disagree) ·
[7 what is left out](#7-what-is-not-modelled-and-why) · [8 plan](#8-plan)

## 1 The system

```
 file.hulk + builtin.hulk
        |                         .hulk_cache/{parser_tables,lexer_dfa}.cache
        v                                ^ read / rewritten in place
 run_frontend_pipeline --- load_cached_parser, load_cached_lexer
        |   Lexer::tokenize -> remap to grammar symbols -> LALR parser + ASTBuilder
        |   -> SemanticAnalyzer (declarations, call graph, inference)
        v
 LoweringVisitor -> IrGenerator -> file.ssa -> qbe -> cc -> link with runtime.o and Boehm GC
                                                                |
                                       the program: $main registers classes and
                                       methods with the runtime, then runs
```

`main.cpp` calls the stages one after another in one thread. A stage that fails
ends the run with exit code 1 (lexical), 2 (syntactic), 3 (semantic) or 4
(everything after the frontend). Concurrency exists in one place only: compiler
processes started in the same directory share the cache files. The rest is
sequential code whose difficulty lies in order (unordered maps, declaration
order), in loops that must end, and in facts that one stage establishes and a
later one relies on without looking.

| Component | State it keeps | Operations | What makes it correct | Modules |
|---|---|---|---|---|
| Driver and pipeline (`main.cpp`, `compiler/frontend_pipeline.cpp`) | list of errors, AST, the file `output` | the stages in order | the first failing stage decides the exit code; no old executable survives it | `Compiler` |
| Frontend artifact cache (`compiler/frontend_cache.*`) | two files in `.hulk_cache` | load (hit, miss), save | tables in use belong to the current input; files heal | `FrontendCache`, `ArtifactCache` |
| Lexer generator (`lexer/Lexer_Generator`) | tokens of an expression, postfix form, NFAs, DFA | read, shunting yard, Thompson, union, subsets | the DFA accepts the languages written down, with the lowest id | `Automata`, `LexerGenerator` |
| Lexer (`lexer/lexer.cpp`) | position, tokens | `tokenize` | longest match, nothing lost, places as in the text | `Lexer`, `MaximalMunch` |
| Grammar reader (`genparser.hpp`, `parser/utils/Grammar`) | the rule under way, symbols, productions | a line at a time | the grammar as written | `GrammarReader` |
| LALR generator (`parser/Parser_Generator/lalr_*`, `parser_builder.cpp`) | item sets, ACTION and GOTO | FIRST, closure, goto, merge, tables | tables of the grammar | `ParserGenerator` |
| Parser runtime (`parser_runtime.cpp`) | state and value stacks | shift, reduce, accept, error | accepts what the grammar derives; a rightmost derivation in reverse | `Parser`, `Derivation` |
| AST and its builder (`parser/AST_Builder`) | the tree | a node per production | nothing of the source is lost, repeated or out of order | `Ast`, `AstBuilder` |
| Semantic analyzer, dependency graph (`semantic/analyzer.cpp`, `dependency_graph.cpp`) | call graph, order of bodies | collect, order, infer | the result does not depend on the order | `Analysis` |
| Nominal type registry (`semantic/type_registry.hpp`) | types with parents, members, constructor lists | register, resolve parents, cut cycles, inherit | chains end; lookups find the nearest declaration; what is accepted is legal | `TypeHierarchy`, `Hierarchy` |
| Types, protocols, conformance (`semantic/type.hpp`, `type_registry.hpp`) | protocols and their methods | register, resolve, conform, join | conformance is the largest relation closed under its rules; a join is above both | `TypeSystem`, `Protocols` |
| Type inference (`semantic/type_inference_visitor.*`) | types of expressions, scopes | a visit per node | what is inferred follows from the typing rules | `Inference` |
| Symbol table (`semantic/symbol_table.hpp`) | scopes, overloads | define, look up, resolve | – | `Inference` |
| Diagnostics (`semantic/diagnostics.hpp`) | list of messages | append | an error ends the run | – |
| Macro expander (`semantic/macro_expander.cpp`) | – | – | not compiled by the Makefile, called by nobody | – |
| Lowering (`lowering/`) | variables in scope, types made of lambdas | `for` to `while`, operators, calls of values, lambdas to types | same meaning; no name captured | `Lowering` |
| IR generator (`ir_generator/`) | registers in scope, offsets, text | code per node | same meaning; objects laid out consistently | `IrGenerator` |
| Dynamic dispatch (`ir_generator.cpp`, `runtime/runtime.c`) | two maps, the stack | register, look up, call | the nearest implementation runs; no call through NULL | `MethodDispatch` |
| Runtime (`runtime/runtime.c`) | heap, strings | allocate, concatenate, print | – | `Machine` |
| Hash map of the runtime (`runtime/hashmap.h`) | slots, tables while growing | put, get, remove, grow | it is a map; every put returns | `Hashmap`, `Map` |
| QBE, `cc` | – | called | accept what the generator writes | `Machine` (external) |
| Boehm GC, CLI11 | – | called | third-party | – |

`PROJECT.json` names for every component its sources, its modules and, where it
has none, the reason, and lists under `hazards` the places of the code that are
hard to test, each with the properties that speak about it.

How the modules meet:

- The cache decides which automaton and which tables a run works with
  (`FrontendCache`); the lexer's automaton is what its generator builds (`Lexer`
  extends `LexerGenerator`), the parser's tables are what its generator builds
  of the grammar its reader reads (`Parser` extends `ParserGenerator`, which
  extends `GrammarReader`). `MaximalMunch` and `Derivation` are what the lexer
  promises the parser and the parser the builder; `Automata` is what
  `LexerGenerator` and `MaximalMunch` share.
- From the tree on everything is one chain: `Inference` extends `Ast` and
  `TypeSystem`, `Analysis` extends `Inference`, `Lowering`, `IrGenerator` and
  `Machine` extend one another, and `Compiler` composes them with the driver from
  the text to the output of the executable. `Meaning` says independently of them
  what a program prints.
- `TypeHierarchy`, `Protocols` and `MethodDispatch` go deeper where the chain is
  simple: hierarchies with cycles, protocols in any order, lookups step by step.
  `MethodDispatch` starts from exactly the programs the registry accepts.

## 2 What is modelled and how it corresponds to the code

The row of every definition in `map` gives its lines. A step of a module is a
turn of the code's own loop, a system call, or a call that returns; a variable
is a variable or a field of the code and has its name where TLA+ allows it.

### FrontendCache, ArtifactCache

`FrontendCache` is the file-level truth: processes `Procs` run
`load_cached_parser` and then `load_cached_lexer`. Each goes through `LoadInput`
(read the grammar), `TakeSignature` (size and mtime of the source file),
`ReadHeader` and `ReadBody` (flush by flush), and on a miss `OpenForWrite`
(truncation) and `WriteChunk` (one flush of the `ofstream`). `Crash`, `DiskFull`
and `IOFail` may strike a process at each point where the code can be struck;
`Edit` changes `grammar.y` or `tokens.hpp`, `RebuildBinary` the specifications
compiled into the executable. `history` is a history variable: it records
whether runs overlapped, something failed, or a source changed under a run, and
the weaker promises are conditional on it.

Abstractions:
- A table body is the source text it was made from, written in `Chunks` flushes;
  the first one holds the header. The text of the numbers is left out.
- Every edit gives a new signature; an edit that keeps size and mtime is not
  modelled. The two system calls of `file_signature` are one step.
- The FNV fingerprint of the token specifications is injective. The parser's
  fingerprint is what the code compares, two counts, so that two grammars may
  share it.
- Zero bytes in a hole fail the number parser; flushes of another artifact are
  numbers as well and may be taken or refused (both are behaviours).

`ArtifactCache` is the promise to the pipeline: a load hands out tables of the
current input, and only those enter the cache. No file, signature or partial
state occurs in it. `Abstract` in `FrontendCache` is the refinement mapping: a
cache file counts when it is whole, and a process holds the sources its flushes
came from.

### TypeHierarchy, Hierarchy

The declaration phase. `collectDeclarations` registers types, then members in
the order of the source; `registerMethod` walks up the parent *names* for an
inherited method (`BeginMethod`, `SearchInherited`, `EmplaceMethod`: one step
per record looked at). `resolveParentsAndConstructors` then makes four passes
over an `unordered_map`: `ResolveParent`, the cycle detector (`StartWalk`,
`EnterType`, `CloseCycle`, `EndWalk`: one step per recursive call; because a
type has one parent, the recursion's stack is the set `visiting`),
`InheritConstructor` and `CopyMembers`. The order of the map is arbitrary but
the same in the four passes, as nothing is inserted between them.

The program is chosen by `Init`: parents (undeclared, builtin and protocol
parents are one value `Illegal`, since the code treats them alike), attributes,
methods with a signature, constructor lists, and the map order. A signature is
only compared, so it is a value. `Hierarchy` is the vocabulary used to state
what is right: grounded parent functions, subtypes, the nearest declaration.

### MethodDispatch

What the generated program and the runtime do together. `RegisterInheritance`,
`RegisterMethod`, `NextClass` are the calls `$main` makes before its first
statement. `CallMethod` is the code of `object.method()`: it starts a lookup at
the class id of the object. `CallBase` is the code of `base()`: the parent of the
class of *self*. A lookup is the `while (1)` of `_get_virtual_method`:
`EnterFound` or `WalkUp` per turn, and NULL at the end of the chain is called
unchecked (`crashed`). A body is what dispatch sees of it: one base call or none
and any virtual calls between, through any static type the semantic pass would
allow. The open-addressing table of `hashmap.h` is a function; mangled names are
distinct values. `MaxDepth` bounds the stack, `MaxCalls` the virtual calls of a
run.

### Automata, LexerGenerator, Lexer, MaximalMunch

The constructor `Lexer(specs)`, one step per turn: the reader of regular
expressions (`ReadChar`, `OpenClass`, `ReadClassChar`, `CloseClass`), the
insertion of concatenations (`EndRegex`), the shunting yard (`Shunt`,
`EndShunt`), Thompson's construction over the postfix form (`AddLiteral`,
`AddConcat`, `AddUnion`, `AddUnary`, `EndPostfix`), the union of the automata
with their offsets (`Unite`) and the subset construction with its worklist
(`Subset`, `EndSubset`). Then `tokenize`: `Advance` is a turn of the inner loop,
`Emit`, `Reject` and `Finish` end a lexeme or the text. A state of the DFA is the
set it stands for, where the code numbers the sets; so the order in which the
worklist is emptied shows nowhere and is left to a `CHOOSE`. Characters are a short
sequence in the order of their codes. A class that begins with a range after
`[^` calls `back()` on an empty vector, which is undefined; the assumption
`NoLeadingRange` keeps such expressions out (no specification of
`lexer/tokens.hpp` is one). `TextsOfChars` says that texts consist of characters.

`MaximalMunch` is the promise of `tokenize`, a step per lexeme: from where the
last one ended, the nondeterministic automaton is run to the end of the text, the
last place where it accepts is the end of the lexeme, the lowest token it accepts
there is its token, and its lines and columns are counted in the text before it.
There is no deterministic automaton in it, nothing is remembered of what the run
passed, and no line or column is carried along. `Abstract` in `Lexer` is the
refinement mapping: `Emit` is `Cut`, `Advance` is no step at all, and construction
is preparation.

What a regular expression *means* is written down in `MCLexer`, independently of
the code: an ambiguous grammar of expressions, whose derivations give languages
cut off at `MaxWord` letters. It uses recursive operators and is only for TLC.

### GrammarReader, ParserGenerator, Parser, Derivation

`ParserGenerator` is `LALRBuilder::build` for a grammar as
`build_grammar_from_spec` makes it: nullable and FIRST by sweeps over the
productions (`SweepProduction`, `EndSweep`), the canonical collection
(`ExpandState` takes a state from the queue, `FollowSymbol` is `goto_lr1`,
`CloseItem` a turn of `closure_lr1`, `CloseDone` looks the result up by its
items), `Merge`, then the two loops of `build_tables` (`EnterShifts`,
`EnterReductions`). An item has one lookahead here, where the code keeps a set
of them for each core. States are numbered as found; a merged state is called by
the lowest number of its group, the code renumbers. The order of items in a
worklist and of symbols makes no difference to the result and is fixed; the
order in which complete items of a state reach `set_action` decides between
reductions and is free, as in an `unordered_map`.

A production is in the grammar as `GrammarReader` read it: `GetLine` takes a line
out of the file, then `UserCode`, `Separator`, `Declaration`, `Rule`,
`Alternative`, `EndRule` or `PassOver` handles it as `parse_grammar_file` does,
and `BuildGrammar` turns what was found into numbered symbols. A line is a
sequence of words and of the marks the reader looks for. The module shows what
the reader makes of layouts that yacc takes otherwise: a comment ends with its
line; a bar at the end of a line has no alternative after it; a line that goes on
with an alternative of the line before is passed over; `X :` with `| a` on the
next line has an empty alternative besides; a symbol not declared by `%token` is
a nonterminal. `grammar.y` contains none of these.

Every nonterminal of the grammars considered derives a word, as in `grammar.y`.
Otherwise the code has items with an empty lookahead set, which the
representation with one lookahead has not.

`Parser` is `run_parser`: `ShiftToken`, `ReduceProduction`, `AcceptInput`,
`SyntaxError`, and `InternalError` for its two checks. A value is the node that
the builder would make of it, with its production and children. `builder` says
whether there is one: the pipeline sets it, but copied and moved parsers have
none.

`Derivation` is the promise to the builder: a forest that grows by a leaf for each
token read, in order, and by a tree of the left side in place of the trees of a right
side, and an input accepted as one tree of the start symbol when it has all been
read. It knows no state, no table and no lookahead, and has no internal error.
Nothing is promised without a builder, where both of `run_parser`'s checks can
fail. `Abstract` in `Parser` maps the value stack to the forest.
`FilesOfWords` says that a file is a sequence of lines of words and that `S'` and
`$` are not among them.

What a grammar *derives* is written down in `MCParser` as least fixpoints over
words of at most `MaxWord` tokens (sentences, and beginnings of sentences),
independently of items and tables.

### Ast, AstBuilder

`Ast` gives the nodes that the passes share, a constructor for each class of
`ast_node.hpp`. `AstBuilder` is `ASTBuilder::build`: the table `Patterns` holds
the tests on the left side and the symbols of a production, in the sections of the
code, and `Build` makes the value. A production that no pattern matches gets
nullptr. The productions are those of `grammar.y`. `Expand` chooses a derivation
(the environment: what the parser could have been given), `Shift` and `Reduce`
are the value stack of `run_parser`. Texts are positions of tokens, so that the
tree shows which token went where.

### TypeSystem, Protocols

`TypeSystem` has the types, `conformsImpl` with the set of pairs it takes for
granted, protocols structurally, functions contravariantly, vectors and iterables,
`lowestCommonAncestor` and the promotion of kinds of numbers. It has no state;
the recursion is over the goals still to be shown, in the code's order of tests.
`Protocols` registers protocols and their methods in the order of the source and
then makes the three passes of `resolveParentsAndConstructors` over a hash table
in any order: `ResolveParent`, `DetectCycleFrom`, `CheckOverrides`. A signature
may lack a type or name none (`visit(ProtocolDeclNode&)`).

### Inference, Analysis

`Inference` is the visitor in the mode that analyses: `Visit` takes the state of
the visitor and a node, and returns both, with the types written into the tree.
It keeps the double visits of the code, since the first one may refine a name
and the second sees it refined. `AnalyseFunction`, `AnalyseMethod`,
`AnalyseAttribute` and `AnalyseType` are the declarations, with the capture of
parameters and of constructor lists. Messages are a set of kinds.
`Analysis` is `SemanticAnalyzer::analyze`: collection, the call graph, the
depth-first search from roots in any order, the order of the declarations after
a cycle, then functions, types and global expressions. `ResolutionOf` chooses
among overloads by cost as the code does; a second declaration of a name is
refused, so that there is always one candidate.

### Lowering, IrGenerator, Machine, Meaning, Compiler

`Lowering` and `IrGenerator` are functions of the tree, as in the code, which has
no state between programs. `Lowering` carries the visitor's table of scopes and
the types it has made: `LowerLambda` turns a lambda into a new `Delegate_n` type with
an attribute for every variable in scope, a method `invoke` that reads them back
(`ReadBack`) before its body, and an object of the type where the lambda stood;
`LowerProgram` puts each such type in front of the declarations. `IrGenerator` writes instructions instead of text and
keeps the generator's own state: scopes of registers, counters of names, the
string pool, the type register with its offsets, and the two fields that carry
the result of an expression upwards. Comparisons other than `<` and `==`, and
`/`, are generated like `<` and `*` and are left out. `Machine` is external but
for `runtime.c`: the checks of QBE, the assembler and the linker that programs
of this generator can fail, and a processor with frames, heap and output, one
instruction a step. Numbers are small integers.

`Compiler` is `main` with its exits 1 to 4 and the abort by an uncaught exception
(134), and the file `output`, which is removed first. `Meaning` is the reference:
a big-step evaluation of the typed tree, every operand once and from left to
right, attributes of the whole chain, the nearest method.

The chain was compared with the compiler itself on about 6,960 of its programs,
written out as text, compiled with QBE and run: exit status and output agree on
all of them except for programs whose behaviour is undefined in the machine
(cyclic calls that pass a number for a pointer) and for `(x)[1]`, which has no
syntax that the parser accepts. In the text a lambda is `function (x) -> e`.

### Hashmap, Map

`hashmap.h` slot by slot. `Power2` is a function, so that proofs can speak of
capacities. `levels` are the tables in existence: the first is the
map, each further one is being filled from the one before (`Move`), and is itself
replaced by one of twice the capacity when a put finds no slot (`Grow`), until it
takes the place of its predecessor (`Replace`). `Exhausted` is a refused put, when
the hash has no further bit; a key that is NULL or empty (`NoKey`) is refused by
all three calls. The hash is any function. As in the recursive code,
growing may nest; section 5 shows that it never does, so that at most two tables
exist. `Map` is what the callers are promised.

## 3 The runs

| Run | Instance | States | Shows |
|---|---|---|---|
| `cache_all` | 2 processes, 3 texts (two with equal counts), 2 flushes, 3 starts, 1 edit, all faults | 5.7 M | `FingerprintHolds`, `ServedPrefix` |
| `cache_quiet` | 2 processes, 2 texts with equal counts, 3 flushes, 3 starts, 1 edit between runs | 132 k | `QuiescentWhole`, `ServedCurrent`, `RebuildOnlyWhenNeeded`, `BuildSettles`, `ImplementsCache` |
| `hierarchy_all` | 3 types, 1 attribute, 1 method, 2 signatures, 3 constructor lists | 753 k | seven properties, below |
| `dispatch_calls` | 3 classes, 2 methods, 4 frames, 2 virtual calls | 312 k | `VirtualNearest`, `NoNullCall`, `BaseFromOwnClass`, `LookupEnds` |
| `lexer_all` | all expressions up to 4 symbols, nested groups, reduced token lists; words and texts up to 4 | 49 k | five properties, below |
| `parser_all` | 264 grammars in three layouts, all inputs up to 5 tokens, with and without builder | 290 k | six properties, below |
| `ast_all` | derivations that depart twice from the cheapest ones, 12 parts of the grammar deeper | 752 k | `NothingLost` |
| `protocols_all` | up to 3 protocols over 2 types, any order of the hash table | 27 k | `ConformsIsLargest`, `CommonAncestorBounds` |
| `compiler_all` | some 7,200 programs from text to output | 356 k | `PrintsMeaning`, `ObjectsIntact`, `ExecutableIsCurrent`, `OrderDoesNotMatter`, `InferredIsDerivable` |
| `hashmap_all` | 3 keys and no key, 2 values, hashes of 4 bits, windows of 2 slots | 238 k | `TablesOK`, `ImplementsMap`, `PutReturns` |

The other two runs each end in a counterexample; see section 6.

**cache_all** lets everything happen at any moment. `FingerprintHolds`: the flush
that vouches for tables in use always has the fingerprint of the input the
process holds, so the header check made before the body is read still holds when
the tables are used. `ServedPrefix`: unless a source is edited under a run, the
worst that overlap, crashes and full disks do is to cut tables short; two texts
are never mixed. Two processes suffice for every pairwise overlap of readers and
writers; two flushes are the least that separates header from body, so that a
truncation can fall between them; the third start gives a run that reads what two
earlier ones left; one edit separates "before" from "after". The two equal
texts are interchangeable and so are the processes (symmetry; the run has no
liveness property).

**cache_quiet** has no faults, and edits wait until no run is on; runs overlap
freely. `QuiescentWhole`: a file nobody is writing is absent or whole, because
the last writer to truncate comes after every cut. `BuildSettles`: each build is
followed by a whole file. `ServedCurrent` and `RebuildOnlyWhenNeeded` are about
runs one at a time: what is used is whole and current though the parser's
fingerprint cannot tell the two texts apart, and a build is a hit for the next
run. `ImplementsCache` is the refinement to `ArtifactCache`. Three flushes give
two writers room to leave holes in each other's file.

**hierarchy_all** takes every program with three types: all 125 parent functions,
with self-inheritance, 2- and 3-cycles, tails into cycles and illegal parents;
all placements of an attribute, a method with two signatures, or constructor
lists; all six map orders. The order of the source is fixed because the types
are interchangeable. Attributes, methods and constructors do not influence each
other, so each has a family of programs. Three types are the least with a
grandchild, a tail and a 2-cycle at once. `HierarchyGrounded`: after the
detector every chain ends. `CyclesCutOnce`: each cycle loses exactly one parent
and is reported, all else stays as written. `MethodsResolve`: a lookup finds the
nearest declaration while the fourth pass copies in any order. `AttributesNearest`:
what one record holds is the nearest attribute, and one level is always there.
`SignaturesKept`: with parents declared first, an accepted program has one
signature per method and chain. `AcceptedIsLegal`: no error means no cycle, no
illegal parent, and inherited constructor lists come from the nearest ancestor
with one. `Completes`: a hierarchy without cycles gets past this phase.

**dispatch_calls** takes every accepted hierarchy of three classes with two
methods. `VirtualNearest`: the nearest implementation runs, whatever the order of
registration and the static type. `NoNullCall`: no call goes through NULL.
`BaseFromOwnClass`: a base call made by a method of the object's own class runs
the method the semantic pass selected. `LookupEnds`: the loop is left. Two
methods are needed for entries of one method to be mistaken for the other's; two
nested virtual calls with their base calls fit in four frames.

**lexer_all** takes all 1,555 expressions of up to four symbols over
`a b | * ( )`, the 156 of up to three over `a + ? ( |`, groups under operators
that need more symbols, malformed classes and escapes, and four lists reduced
from `lexer/tokens.hpp` (keyword against identifier, numbers with a fraction,
symbols that are prefixes of others, strings). The full stop of a fraction is
escaped in these lists and the character after a backslash in a string is a class:
an unescaped full stop means any character to `AcceptsSpecified`, as REPORT.md:289
has it, and to the code itself (section 6). `FragmentsSealed`: on the stack
of fragments nothing enters a start or leaves an accepting state, on which the
construction relies. `RejectsMalformed`: the constructor throws exactly on texts
that are not regular expressions. `AcceptsSpecified`: the automaton accepts
exactly the languages, with the lowest id. `ImplementsMaximalMunch` is the
refinement to `MaximalMunch`: longest match with its way back (`1.` before a
space), what is skipped, lines and columns over skipped lexemes and line breaks
inside lexemes, and lexical errors. Together with `AcceptsSpecified` it says that
a text is cut into the longest words of the expressions. `Terminates`:
construction and scanning end. Four symbols are enough for every pair of
operators to meet in both orders, with and without parentheses.

**parser_all** takes all grammars of one or two productions for each of two
nonterminals from 7 and 6 right sides (left, right and middle recursion, empty
and unit productions, ambiguity, cycles; unproductive ones and those that do not
use both nonterminals left out), and six known ones: LR(1) but not LALR(1),
LALR(1) but not SLR(1), expressions with two levels, the dangling else, nested
lists, optional parts. Each grammar is written in one of three layouts
(an alternative a line, a rule a line, with comments and user code between), and
the properties speak of the grammar meant. Five tokens let every expression
operator meet the other one, and give every recursion two turns.
`MergeOnlyReduceReduce`: merging adds no conflict between a shift and a
reduction; it may add one between reductions, and on the LR(1) grammar it does,
so that REPORT.md:385 ("any conflicts that might arise are already present in
the original LR(1) automaton") is not true of the latter. `StackSpellsPath`: with a
builder the state stack is the path that the values spell, and the values below
each state end with what its items have read, with conflicts as well.
`ImplementsDerivation` is the refinement to `Derivation`: with a builder the values
are the forest of a rightmost derivation from its end, they cover the tokens
consumed, an accepted input leaves one tree, the recorded reductions are its
postorder, and no internal error ends the parse. `AcceptsLanguage`
and `ErrorAtFirstBadToken`: without contention the language is that of the
grammar, and an error is at the first token that no sentence has there, in spite
of merged lookaheads. `ParsingEnds`: FIRST, closure and collection reach their
fixpoints and, without contention, each parse ends within `MaxReductions`
reductions (a run that reached the bound would count as one that does not end).

**ast_all** derives programs of `grammar.y` and builds them. `NothingLost`: the
significant tokens of a text appear in its tree once and in order, wherever every
production has a pattern. The cheapest derivation of each nonterminal is the base;
a departure is any other production at one place. Two departures in any parts of
the program, and up to six within one part of the grammar, let every production
meet every list and option around it. The property says nothing of a derivation
with a production that no pattern fits (`unhandled` holds them): the arrow of the
lambda without `function` (`grammar.y:272`) is spelt otherwise in the builder
(`ast_builder.cpp:887`), a `return` after an inline condition has no pattern
either, and a list drops the item. The lambda with `function` is built.

**protocols_all** has protocols that extend one another or themselves, types or
nothing; methods that return, take or contain protocols and functions; signatures
without types; names that are taken. `ConformsIsLargest`: with the pairs it
takes for granted the recursive test decides the largest relation closed under
the rules, whatever was cut or left unresolved before, unless two types are
spelled alike: the code compares spellings (`type_registry.hpp:223`), and a
vector of functions and a function that returns a vector are both spelled
`() -> Number[]` and share an entry. `CommonAncestorBounds`: both branches of a conditional
conform to the type it is given, up to the promotion of numbers. Three protocols are
the least with a chain above a cycle.

**compiler_all** takes programs of nine families: pairs, chains and cycles of
functions with every way to use a parameter; hierarchies whose constructors and
attributes are inferred; every expression over a parameter of unknown type;
operators over values and over calls that print; bindings inside one another, the
same name or not, with assignments; branches and loops in a function and at the
top level; functions with parameters of equal names; objects of a three-level
hierarchy whose constructors, attributes and methods print; lambdas that capture
numbers, booleans, texts and other lambdas, are called, passed, returned,
kept in attributes and outlive what they captured. Two declarations in
either order are enough for order to matter, three levels for a chain above a
parent. `OrderDoesNotMatter`: every order with callees first gives the functions
the types that the search's order gives. `InferredIsDerivable`: an accepted
program with a type for everything in it has these types by the typing rules
alone, stated over the finished declarations without any inference (cycles
excepted, where a call seen before its callee is never checked again).
`PrintsMeaning`: an accepted and translated program gets through QBE, assembler
and linker and prints what `Meaning` says. `ObjectsIntact`: no store, not even of
a wrongly translated program, leaves its object or overlaps another attribute.
`ExecutableIsCurrent`: a compilation that fails at any stage leaves no executable,
in particular not an old one. This is for the usual name: with `-o` the driver still
removes `output` only (`frontend_pipeline.cpp:153`).

The generator is known not to translate the following; `Translated` in
`MCCompiler` excludes them by name, and each was confirmed with the compiler itself:

| Name | What happens |
|---|---|
| `Untranslated` | `&`, `is`, `as`, vectors, comprehensions, indexing have no code or an operand's value (`print(false & true)` prints `true`, against REPORT.md:854); code after `return` is refused by QBE |
| `MixedBranches` | branches of different machine classes meet in one register: QBE refuses |
| `ReadsItself` | `let a = a + 1` inside another `a` reads the new register before it is written (`ir_generator.cpp:105`) |
| `CapturesVariable` | a user's `iterable` is captured by the lowered `for` (`lowering.cpp:264`) |
| `ReceiverTwice` | a receiver with effects is evaluated twice (`ir_generator.cpp:256`) |
| `InheritedField` | an attribute of a parent has no offset in the child (`type_register.hpp:46`): QBE refuses |
| `UsesLater` | a type is unknown until its declaration is generated: the run `compiler_order` |
| `ImplicitConstructor` | parameters inherited from the parent are indexed past the end of the own list (`ir_generator.cpp:653`) |
| `BaseOfBase` | `base()` starts above the class of the object (`ir_generator.cpp:231`), so two levels of it call themselves for ever |
| `NameTaken` | functions, methods, types and the runtime share one name space (`ir_generator.cpp:49`); a user's `pow` is defined twice |
| `UnnamedResult` | a lambda whose result is inferred is generated as returning eight bytes of an object, whatever it returns |
| `MakesWithin` | a lambda that makes an object or another lambda is declared before the type it needs (section 6) |
| `UsesSelf` | `self` inside a lambda is the object made for the lambda |
| `LoopVariable` | the variable of a `for` is not in the table of scopes (`lowering.cpp:264`) and is not captured |
| `Parameterized` | neither are the parameters of a type in a lambda that initializes an attribute |
| `HiddenByParameter`, `HiddenByLet` | a parameter with the name of a captured variable reads the variable (section 6); a `let` with a lambda as its initializer and the name of an outer variable likewise |
| `Endless` | the program itself does not end |

**hashmap_all** takes every hash of three keys up to renaming, with equal,
neighbouring and outermost places, and lets put, overwrite, get and remove, of
these keys and of none, follow one another without bound. The tables grow from two
slots to four and to eight, and there to the end of the hash. `TablesOK`: size, places and windows of all tables are right
and no key lies in two slots of one, also with holes from removals.
`ImplementsMap` is the refinement to `Map`: growing and refused puts are
invisible. `PutReturns`: every put ends. Three keys fill a window of two, make one
put grow the table twice in a row and meet the end of the hash. They are too few
to outgrow a table while it is filled, so `MovesFindSlots` is left to the proof.

Every property has a mutant in `PROJECT.json`: a variant of a definition with a
plausible slip (a guard dropped, a reset forgotten, a counter advanced by one
instead of two) under which TLC finds the property violated. The mutants stand
in the modules, each with a comment that begins with "Mutant".

## 4 Fairness and deadlock

- `FairQuietSpec`: weak fairness of `Step(p)` for each process: the operating
  system schedules a process that can run until it ends. Starting a process,
  editing and rebuilding are not fair: nobody has to do them.
- `FairSpec` of `TypeHierarchy`, `Lexer` and `Parser`: weak fairness of
  `Next`; of `Hashmap`: of the steps of a put under way. They are sequential code that goes on while it can; the choices in
  `Next` are between orders of members or inputs, not between going on and
  stopping.
- `FairSpec` of `MethodDispatch`: weak fairness of `Lookup` only. The loop of the
  runtime goes on; the program is free to make no further call.

`CHECK_DEADLOCK FALSE` stands in most configurations because phases and programs
end: the bound on starts is used up, the phase is done, the stack is empty and no
call is left. Deadlock is checked in `compiler_all` (a compilation always reaches
an end, which stutters) and in `hashmap_all`.

## 5 The proofs

TLAPS proves the following for all values of the constants.

| Module | Theorem | States |
|---|---|---|
| `FrontendCacheProofs` | `TypeCorrect` | `Spec => []TypeOK` |
| | `FingerprintsHold` | `Spec => []FingerprintHolds` |
| | `QuiescentFilesWhole` | `QuietSpec => []QuiescentWhole` |
| `FrontendCacheUseProofs` | `ServedPrefixHolds` | `Spec => []ServedPrefix` |
| | `ServedCurrentHolds` | `Spec => []ServedCurrent` |
| | `RebuildsOnlyWhenNeeded` | `Spec => RebuildOnlyWhenNeeded`, an action property |
| | `CacheImplementsArtifactCache` | `QuietSpec => ImplementsCache`, a refinement |
| `TypeHierarchyProofs` | `TypeCorrect` | `Spec => []TypeOK` |
| | `HierarchyIsGrounded` | `Spec => []HierarchyGrounded` |
| | `CyclesAreCutOnce` | `Spec => []CyclesCutOnce` |
| | `MethodsAlwaysResolve` | `Spec => []MethodsResolve` |
| | `AttributesAreNearest` | `Spec => []AttributesNearest` |
| | `SignaturesAreKept` | `Spec => []SignaturesKept` |
| | `AcceptedProgramsAreLegal` | `Spec => []AcceptedIsLegal` |
| `MethodDispatchProofs` | `TypeCorrect` | `Spec => []TypeOK` |
| | `NothingCalledThroughNull` | `Spec => []NoNullCall` |
| | `VirtualCallsNearest` | `Spec => []VirtualNearest` |
| | `BaseCallsFromOwnClass` | `Spec => []BaseFromOwnClass` |
| `HashmapProofs` | `HashmapInvariant` | `Spec => []HashmapInv` |
| | `TablesAlwaysOK` | `Spec => []TablesOK` |
| | `MovingNeverFails` | `Spec => []MovesFindSlots` |
| | `HashmapImplementsMap` | `Spec => ImplementsMap`, a refinement |
| `ParserProofs` | `MergingAddsNoShiftConflict` | `Spec => []MergeOnlyReduceReduce` |
| | `StacksStayAligned` | `Spec => []StackSpellsPath` |
| | `ParserImplementsDerivation` | `Spec => ImplementsDerivation`, a refinement |
| `LexerProofs` | `FragmentsStaySealed` | `Spec => []FragmentsSealed` |
| | `CopiesStayApart` | `Spec => []CopiesApart` |
| | `LexerImplementsMaximalMunch` | `Spec => ImplementsMaximalMunch`, a refinement |

`HierarchyProofs` holds lemmas about `Hierarchy` that the proofs of
`TypeHierarchy` and `MethodDispatch` share: subtyping is a partial order on
grounded parent functions, the nearest declaration is unique and is that of the
parent where a type declares nothing, and the function that walks up the parents
yields exactly the ancestors.

**FingerprintsHold.** The property alone is not inductive: it speaks of tables in
use, and they come out of the buffer of a read under way. `FingerprintInv` adds
that such a buffer begins with a header that matched (`HeaderVouched`), that a
process which has parser tables never changes the grammar it holds (`ParserFirst`:
only `LoadInput` of the parser does, and it comes before), and that nothing but
a read past its header has anything in the buffer (`BufferUse`).
Assumptions: `ChunksAssumption` (at least two flushes), `HoleAssumption`,
`SourcesAssumption`, `BoundsAssumption`.

**QuiescentFilesWhole.** While runs are on the sources do not change, so all
processes that build make the same artifact (`InputsCurrent`). A file is then in
one of three states (`FileRepaired`): whole and current; settled, with nobody
writing; or under repair by a writer behind whose position everything is in place
(`Repairing`). A truncation makes its own process the repairer; another writer's
flush puts down the same bytes and cannot undo it; the repairer's last flush
makes the file whole. The argument needs no bound on the number of processes.

**ServedPrefixHolds.** `UseInv` says what can be in a file while no source has
changed under a run. A file is never a mixture of two artifacts (`Unmixed`):
whoever writes it holds the current input (`InputsCurrent`) and begins by cutting
it. Signatures in a file vouch for the text (`SignaturesVouch`), so that a reader
past the header, and a writer, find nothing but current flushes and holes
(`FilesPure`), and a buffer is made of current flushes only (`BuffersCurrent`).
That the parser's fingerprint may be the same for two grammars is harmless for
this reason alone.

**ServedCurrentHolds, RebuildsOnlyWhenNeeded.** While history records nothing at
all, at most one process is at work (`Alone`); a file is whole, absent or being
written (`SoloFiles`); the writer's flushes lie before its position and nothing
else does (`SoloWriter`); a reader past the header has a whole file before it and
has read it from the beginning (`SoloReader`); a process that builds had a reason
that still stands (`SoloBuilder`), which is the action property.

**CacheImplementsArtifactCache.** Without a race each action maps to a step of
`ArtifactCache` or a stutter. A truncation drops the entry. A flush stores the
entry when it makes the file whole, and drops it otherwise. The last flush of a
build and the last successful read are the load. A header or a partial body maps
to nothing. `Filled` is needed so that a file of holes never counts.

**HierarchyIsGrounded.** `WalkInv`: types the detector is done with are closed
under parents (`VisitedClosed`) and contain no cycle (`VisitedGrounded`); on the
walk each type's parent is on the walk or is the record looked at (`WalkClosed`),
and a set of types on the walk without that record has a way out (`WalkOpen`);
every type before `pos` is covered (`StartsCovered`). When a walk ends in a
finished type or in `Object` its types join the finished ones; when it meets
itself, the cut opens the only cycle. At the end all types are finished, and no
set of types holds the parents of all its members. Groundedness is stated over
sets, not over paths, so that no induction is needed. Assumptions: `SomeTypes`,
`OrderDeclares`, `RootsApart`, `NamesApart`, `ProgramsDeclare`.

**The declaration phase.** Five more invariants carry the other properties.
`CollectedInv`: a type met so far has its own members registered and no others,
until the last pass. `MembersInv`: in the last pass an entry is the nearest
declaration and a type's own declaration is never lost (`Owned`), and the
attributes of the parent of a type already copied have entries; methods and
attributes differ because `findMethod` walks further and an attribute lookup does
not. `ParamsInv`: a constructor list that is not a type's own is that of the
nearest type with one. `ParentsInv`: without an error names, pointers and source
agree. `SignatureInv`: while `findMethod` walks, no declaration has been passed, so
that a method registered without an error agrees with all above it. `CutInv`: of
each cycle at most one type is cut and it is reported; what hangs on a cut cycle is
visited, so that the walk never comes back to it; every other parent is as written
or was refused. That at least one is cut follows from groundedness.

**Dispatch.** `DispatchInv` joins four parts. `TableInv`: the maps hold part of
the program, and all of it for classes `$main` is done with. `LookupInv`: a
lookup under way has passed no implementation and one lies ahead of it. `StackInv`: each
frame runs code its object inherits, and adjacent frames are related as a base
call relates them. `NoNullCall` itself. A lookup starts with an implementation
ahead because the semantic pass accepted the call (for `base`, because the
calling method's class has a declaring ancestor, and the object's class is below
it), and turns of the loop keep it. Assumptions: `RootsApart`, `OrderDeclares`,
`Bounds`.

**Hashmap.** `HashmapInv` says what a table in progress is to the one it is
filled from. At most two tables exist. The first has no element before the
cursor, no key is in both, the new one has twice the capacity, and together they
hold no more elements than the old capacity. Two facts are subtle. The new table
has no gap between an element's place and its slot (`GapFree`), because it is
filled without removals. And of the elements moved, those whose place in the old
table is x or behind it are no more than the slots from x to the cursor. With
doubled places these make every window have room, so that `MovesFindSlots` holds:
a table being filled is never itself outgrown, and a refused put never throws
away a table with elements in it. `Contents` reads a key from whichever table has
it, and all steps of moving leave it alone. This holds for every window length,
width of the hash and hash function. A put may still grow the table several times,
one after the other.

**Parser.** The argument runs along the generator. `CollectionInv`: an item that
has read something came, by its last symbol, from the state before
(`Automaton`), which closure keeps because it adds items at their start only.
`MergeInv`: the merged automaton is one as well, as its states are unions of
groups with equal cores; hence the first theorem, since what a state shifts on
depends on its cores. `TablesInv`: a shift or a goto is a move of the automaton,
and a reduction belongs to a complete item of its state, whatever entry
`set_action` kept. `StackInv`: with a builder the stacks are a path of the
automaton. A reduction therefore finds its right side on the stack
(`ReductionFits`). Nothing is assumed of the grammar file.

**ParserImplementsDerivation.** That a reduction fits is half of it; the other half
is that it finds a goto entry, so that a parser with a builder never ends with
"GOTO table inconsistent". `TextInv`: symbols of the grammar are words of the
file and every left side is a nonterminal, for all that the reader does to a file;
hence `S'` stands on no right side. `SoundInv`: an item at the start of its
production is in a state only because another item there waits for its left side
(`Justified`), no move leads to a state that starts over, and a state that is
done with has a move for every item that waits (`Explored`, then `Total`), as
`expand` and `closure_lr1` leave nothing undone. Both survive `Merge`.
`EntriesInv`: what `set_action` entered shifts terminals, reduces anything but the
augmented production and accepts at `$` where that one is complete, and a goto was
entered for each move on a nonterminal. Taking a complete item back along the
stack, symbol by symbol, ends at the start of its production in the state below
the right side; there an item waits for the left side, so there is a move on it,
hence a goto. An accept takes the augmented item back in the same way, to a state
that starts over, which is the bottom of the stack: so one tree is left, and it
is one of the start symbol. Assumption: `FilesOfWords`.

**Lexer.** `ThompsonInv`: a fragment's ends are states between the lowest number
of its automaton and the counter; new states are above; a gluing edge runs
between ends of fragments that leave the stack. The automata done lie one after
the other, so that offsets which grow keep their copies apart. Nothing is assumed
of the postfix form.

**LexerImplementsMaximalMunch.** `DfaInv`: a subset met is explored or waits, an
explored one leads exactly where the nondeterministic automaton goes, and it
accepts the lowest of its tokens; when the worklist is empty all is explored.
`ScanInv`: the run is where the nondeterministic automaton gets on the same
characters, and what it remembers is the last end of a lexeme up to there, if there
is one (`Following`); line and column are those of `pos` in the text. Where the run
stops no state is left, and none ever comes back (`DeadStays`), so that the end
remembered is the last there is (`AllFound`). The lines of a lexeme's end
are those before it and its own, and its column is counted from its last line
break or goes on (`LinesAdd`). Reading a text is a recursive function over its
places; that the function exists, and that emptiness lasts, follow from the
least place where they would not, so that no induction over data is needed.
Assumption: `TextsOfChars`, and nothing about the expressions.

Each of these invariants also holds in TLC on the instance of its run (`DfaInv` and
`ScanInv`, which are slow to evaluate, on expressions and texts of up to three
characters and two of the token lists; for the parser and the lexer with "is a
sequence", which TLC cannot evaluate over all sets, read as having a length);
where a first version was not inductive it was strengthened.
`TypeOK` of `FrontendCache`, `TypeHierarchy` and `MethodDispatch` is proved and no
longer part of a run.

Only model-checked:

- the liveness properties (`BuildSettles`, `Completes`, `LookupEnds`, `Terminates`,
  `ParsingEnds`, `PutReturns`), which need fairness and ENABLED;
- `RejectsMalformed`, `AcceptsSpecified`, `AcceptsLanguage`, `ErrorAtFirstBadToken`
  and `NothingLost`, which compare the code with recursive definitions of
  languages and trees: that is induction over data, out of the prover's reach.
  Proved is what the lexer does with its automaton and the parser with its
  grammar, step by step; what the automaton has to do with the expressions, and
  which sentences the tables accept, stay with TLC;
- `ConformsIsLargest`, `CommonAncestorBounds` and all properties of `compiler_all`:
  `TypeSystem` and the modules above it use recursive operators, as the code they
  model recurs over trees and types, and tlapm takes no theorem there.

## 6 Where code and documentation disagree

Each run below checks one sentence of the repository and TLC finds a behaviour of
the code that breaks it. The entries under `findings` quote source and sentence.

| Run | Property | What happens |
|---|---|---|
| `cache_torn` | `CorruptIsMiss` | a compiler dies (or the disk fills up) after the first flush; the next run takes the truncated file for whole |
| `compiler_order` | `DeclaredAnywhere` | a function or a method makes an object of a type declared after it: the analysis accepts it and the generator aborts |

The second was reproduced with the compiler itself. Met while modelling, and
for what concerns programs reproduced on some of a few lines, without a run of their
own:

- a type of an inheritance cycle that declares a method: `findMethod` walks the
  cycle for ever before the detector runs (`type_registry.hpp:768`; hence the
  condition in `Completes`), and so does the common ancestor of two types on it
  (`:882`);
- the hash table may yield a grandchild before its parent, and the grandparent's
  attribute then does not arrive (`:512`; `AttributesNearest` promises one level);
- a child declared before its parent overrides with another signature and nothing
  is reported (`:650`; `SignaturesKept` is about parents declared first);
- `base()` in an inherited method (`ir_generator.cpp:231`; `BaseFromOwnClass`);
- `.` in the string pattern is a literal full stop (`preprocessor.cpp:135`), so that
  strings with `\n`, `\"` or `\\` are lexical errors, where REPORT.md:289 has "an
  escape followed by any character";
- a lambda whose parameter has the name of a variable around it reads the variable
  (`lowering.cpp:374`, against docs/lambdas.md:187 and REPORT.md:808): `let y = 1 in
  let f = function (y: Number): Number -> y in print(f(3))` prints 1;
- the type of a lambda inside a lambda is declared behind the type that makes it
  (`lowering.cpp:14`, against docs/lambdas.md:314), and the generator aborts: `let f =
  function (y: Number): Number -> let h = function (z: Number): Number -> z * y in
  h(y) in print(f(3))`;
- calls validated late (`analyzer.cpp:106`, docs/TypeSystem.md:37): after a cycle
  of calls `function f(x: Number) => g("s"); function g(y): String => let z = f(y)
  in z @ y;` is accepted and crashes;
- `set_action` counts no contention with an Accept entry (REPORT.md:415);
- `grammar.y` is edited after it was parsed and before its signature is taken
  (`frontend_cache.cpp:349` and `:356`): old tables are saved as current, and used with
  a new grammar of equal counts, against docs/FrontendCache.md:22-24; `ServedPrefix`
  and `ServedCurrent` except edits under a run;
- REPORT.md:251-255 says that the scanner does not go back; the code does, to the
  last place where it accepted, as REPORT.md:282 and `ImplementsMaximalMunch` say;
- docs/SemanticPipeline.md:56 and `test_semantic.cpp:125-135` give `print` the type
  Void; the visitor and the model give it the type of its argument.

## 7 What is not modelled, and why

- *The macro expander* (1,044 lines) is not compiled and nothing calls it.
  *CLI11* and *Boehm GC* are third-party; memory does not run out, and `calloc`
  in `hashmap.h`, whose failure the code does not look at, does not fail.
- *Diagnostics, printing, spans, `--debug` and `-v`*: they write and decide nothing.
- *Vectors in the lowering*: its visits of them only descend, and the generator has
  no code for them.
- *Ambiguous overloads*: the choice is modelled, but no program gets a second
  overload of a name past the declarations (see section 2).
- *`hashmap_iterate`* and the hash function itself (`crc32`): nothing calls the
  first, and any function will do for the second.
- *Signature collisions* in the cache (same size and mtime; FNV collisions) and
  *`0x7f` as the end of a character range* are outside the abstractions above.
- *Numbers* are small integers: floating point and its printing are not modelled.

## 8 Plan

Done: all components that carry logic of the compiler, composed from the text of
the grammar to the tables, and from the tree to the output.

Proved: every safety property of the cache, the hierarchy, dispatch and the hash
map, and of lexer and parser what does not compare them with recursive
definitions; the refinements of the cache, the hash map, the lexer and the parser.

What is left cannot be stated for this prover: liveness, and what the recursive
passes over the tree compute (section 5). Worth modelling next would be what
section 7 excludes because the generator does not translate it yet, vectors, once
it does.
