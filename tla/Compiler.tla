------------------------------ MODULE Compiler ------------------------------
(***************************************************************************)
(* main (main.cpp) and run_frontend_pipeline (compiler/frontend_pipeline.cpp): *)
(* one compilation from the text to the executable, and the execution of what   *)
(* it made.  Every program comes after builtin.hulk.  A program also has decls,  *)
(* its declarations in the order of the text, each [kind, at], and fault, what   *)
(* is wrong with its text: the lexer, the parser and the builder have their own  *)
(* modules.  With the flags -v and --debug the compiler only writes more.  The   *)
(* executable has its usual name: what main removes first is always `output',   *)
(* so that with -o an old executable survives a compilation that fails.          *)
(***************************************************************************)
EXTENDS Analysis, Machine

VARIABLES
  stage,     \* what main is at
  exit,      \* its status, 0 before the end
  executable, \* "none", "old" or "new": the file `output'
  tree,      \* the lowered program
  image,     \* what the generator has written
  process    \* the program, once it runs
compilerVars == <<stage, exit, executable, tree, image, process>>
allVars == <<vars, compilerVars>>

NoImage == [functions |-> <<>>, data |-> <<>>]
CompilerInit ==
  /\ Init
  /\ stage = "source" /\ exit = 0 /\ executable = "old"
  /\ tree = [globals |-> <<>>] /\ image = NoImage /\ process = Start(NoImage)

(* main returns; exit_code_for gives the kind of the first error.            *)
Lexical == 1
Syntactic == 2
Semantic == 3
Backend == 4
Aborted == 134
Exit(status) == stage' = "failed" /\ exit' = status
From(name, next) == stage = name /\ stage' = next /\ UNCHANGED exit
-----------------------------------------------------------------------------
(* The kind of the first error.  What the lexer refuses and a token that the   *)
(* grammar has not are lexical; what the parser or the builder refuse and an    *)
(* exception of any kind (a file that cannot be read) are syntactic.           *)
ErrorKind(fault) == IF fault = "lexical" THEN Lexical ELSE Syntactic
(* std::remove, then the text is read and parsed.                           *)
(* Mutant: the executable of the last compilation stays.                     *)
ReadSourceKeep ==
  /\ stage = "source"
  /\ IF program.fault = "none" THEN From("source", "analysis") ELSE Exit(ErrorKind(program.fault))
  /\ UNCHANGED <<vars, executable, tree, image, process>>
ReadSource ==
  /\ stage = "source" /\ executable' = "none"
  /\ IF program.fault = "none" THEN From("source", "analysis") ELSE Exit(ErrorKind(program.fault))
  /\ UNCHANGED <<vars, tree, image, process>>

Analyze == stage = "analysis" /\ AnalysisNext /\ UNCHANGED compilerVars

(* The analyzer and its graph are gone; the tree remains.                    *)
EndAnalysis ==
  /\ stage = "analysis" /\ Analyzed
  /\ IF st.errors # {} THEN Exit(Semantic) ELSE From("analysis", "lower")
  /\ order' = <<>> /\ pending' = <<>> /\ graph' = <<>>
  /\ UNCHANGED <<program, phase, at, st, cyclic, code, executable, tree, image, process>>

LowerTree ==
  /\ From("lower", "generate")
  /\ tree' = LowerProgram(code, st)
  /\ UNCHANGED <<vars, executable, image, process>>

GenerateIr ==
  /\ stage = "generate"
  /\ \E g \in {GenProgram(st, tree)} :
         IF g.aborted THEN Exit(Aborted) /\ UNCHANGED image
         ELSE From("generate", "qbe") /\ image' = [functions |-> g.functions, data |-> g.data]
  /\ UNCHANGED <<vars, executable, tree, process>>

(* run_command: a tool that fails ends the compilation.                      *)
Tool(name, next, succeeds) ==
  /\ stage = name
  /\ IF succeeds THEN From(name, next) ELSE Exit(Backend)
  /\ UNCHANGED <<vars, tree, image, process>>
RunQbe == Tool("qbe", "assemble", \A f \in ToSet(image.functions) : QbeAccepts(f)) /\ UNCHANGED executable
RunAssembler == Tool("assemble", "link", Assembles(image)) /\ UNCHANGED executable
RunLinker == Tool("link", "built", Links(image)) /\ executable' = IF Links(image) THEN "new" ELSE executable
-----------------------------------------------------------------------------
Run ==
  /\ From("built", "running")
  /\ process' = Start(image)
  /\ UNCHANGED <<vars, executable, tree, image>>
Execute ==
  /\ stage = "running" /\ process.status = "running"
  /\ process' = Step(image, process)
  /\ UNCHANGED <<vars, stage, exit, executable, tree, image>>

Finished == stage = "failed" \/ process.status # "running"
Ended == Finished /\ UNCHANGED allVars

CompilerNext ==
  \/ ReadSource \/ Analyze \/ EndAnalysis \/ LowerTree \/ GenerateIr
  \/ RunQbe \/ RunAssembler \/ RunLinker
  \/ Run \/ Execute
  \/ Ended
CompilerSpec == CompilerInit /\ [][CompilerNext]_allVars
=============================================================================
