--------------------------- MODULE FrontendCache ---------------------------
(***************************************************************************)
(* The frontend artifact cache: .hulk_cache/parser_tables.cache and        *)
(* .hulk_cache/lexer_dfa.cache, shared by every compiler process started   *)
(* in the directory (compiler/frontend_cache.cpp, called by                *)
(* run_frontend_pipeline).                                                 *)
(*                                                                         *)
(* A cache file is rewritten in place: the ofstream truncates it and then  *)
(* flushes its buffer Chunks times.  The first flush holds the header line *)
(* (and, for the parser, the symbol and production counts); the others     *)
(* hold only body.  Nothing locks the file, nothing renames it into place, *)
(* no write is checked.  A reader goes through the same flushes one at a   *)
(* time and accepts whatever it has when it meets the end of the file.     *)
(*                                                                         *)
(* Abstractions.  A table body is the source text it was generated from.   *)
(* A (size, mtime) signature is a stamp that every edit makes new, so an   *)
(* edit that keeps both is not modelled.  The FNV fingerprint of the token *)
(* specifications is taken to be injective; the parser's fingerprint is a  *)
(* function of two counts only, and is modelled as exactly that.           *)
(***************************************************************************)
EXTENDS Naturals, Sequences

CONSTANTS
    Procs,      \* compiler processes that share the cache directory
    Sources,    \* texts that grammar.y and tokens.hpp can hold
    Count,      \* Count[g]: symbol and production counts of grammar text g
    Chunks,     \* flushes in one complete cache file
    Hole,       \* a flush-sized run of zero bytes
    MaxEdits,   \* bound: edits of the source files
    MaxRuns     \* bound: compiler runs started

VARIABLES
    text,       \* text[k]: what the source file of artifact k holds now
    stamp,      \* stamp[k]: its signature now
    binary,     \* the token specifications compiled into the executable
    file,       \* file[k]: the flushes the cache file of artifact k holds
    pc,         \* pc[p]: where process p is in its frontend
    kind,       \* kind[p]: the artifact p is loading
    force,      \* force[p]: HULK_FORCE_FRONTEND_REBUILD is set
    grammar,    \* grammar[p]: the grammar p parsed from grammar.y
    specs,      \* specs[p]: the token specifications p was compiled with
    sig,        \* sig[p]: the signature p took of the source file
    pos,        \* pos[p]: the next flush p reads or writes
    buf,        \* buf[p]: the flushes p has read
    served,     \* served[p][k]: the artifact p works with, <<>> if none yet
    starts,     \* runs started so far
    history     \* which of the Incidents have happened so far

sourceVars == <<text, stamp, binary, history>>
inputVars  == <<force, grammar, specs, sig>>
vars == <<sourceVars, file, pc, kind, inputVars, pos, buf, served, starts>>

-----------------------------------------------------------------------------
Kinds == {"parser", "lexer"}

\* Mutant: the token specifications are fingerprinted by their number.
FingerprintByCount(k, src) == Count[src]

\* What a header is compared with besides the signature: the parser's
\* fingerprint knows only the two counts, the lexer's all specifications.
Fingerprint(k, src) == IF k = "parser" THEN Count[src] ELSE src

Stamps == 0 .. MaxEdits

\* One generated artifact as it goes to disk; the fingerprint in its header is
\* a function of its source.
Artifacts == [sig : Stamps, src : Sources]
Flushes   == Artifacts \cup {Hole}
Whole(a)  == [i \in 1 .. Chunks |-> a]

ASSUME SourcesAssumption == DOMAIN Count = Sources
ASSUME ChunksAssumption  == Chunks \in Nat /\ Chunks >= 2
ASSUME HoleAssumption    == Hole \notin Artifacts
ASSUME BoundsAssumption  == MaxEdits \in Nat /\ MaxRuns \in Nat

Stages == {"idle", "input", "stat", "read", "build", "write", "done", "failed"}
Active == Stages \ {"idle", "done", "failed"}

InputOf(p, k) == IF k = "parser" THEN grammar[p] ELSE specs[p]

\* The artifact the process generates.
Made(p) == [sig |-> sig[p], src |-> InputOf(p, kind[p])]

\* Mutant: the fingerprint is not compared.
HeaderMatchesSignatureOnly(p, c) == c # Hole /\ c.sig = sig[p]

\* Mutant: the signature is not compared.
HeaderMatchesFingerprintOnly(p, c) ==
    /\ c # Hole
    /\ Fingerprint(kind[p], c.src) = Fingerprint(kind[p], InputOf(p, kind[p]))

HeaderMatches(p, c) ==
    /\ c # Hole
    /\ c.sig = sig[p]
    /\ Fingerprint(kind[p], c.src) = Fingerprint(kind[p], InputOf(p, kind[p]))

\* Mutant: the file is opened with ios::app.
PutAtEnd(f, i, a) == Append(f, a)

\* A write of flush i: a shorter file is first filled up with zero bytes.
Put(f, i, a) ==
    [j \in 1 .. (IF i > Len(f) THEN i ELSE Len(f)) |->
        IF j = i THEN a ELSE IF j <= Len(f) THEN f[j] ELSE Hole]

Nothing == [k \in Kinds |-> <<>>]

AllIdle == \A p \in Procs : pc[p] \notin Active

\* What the weaker promises are conditional on: two runs at a time, a fault in
\* a run, a change of the sources or the executable under a run.
Incidents  == {"overlap", "fault", "race"}
Note(what) == history' = history \cup {what}
NoteUnlessIdle(what) == history' = history \cup (IF AllIdle THEN {} ELSE {what})

-----------------------------------------------------------------------------
Init ==
    \E g, t \in Sources :
        /\ text    = [k \in Kinds |-> IF k = "parser" THEN g ELSE t]
        /\ stamp   = [k \in Kinds |-> 0]
        /\ binary  = t
        /\ file    = Nothing
        /\ pc      = [p \in Procs |-> "idle"]
        /\ kind    = [p \in Procs |-> "parser"]
        /\ force   = [p \in Procs |-> FALSE]
        /\ grammar = [p \in Procs |-> g]
        /\ specs   = [p \in Procs |-> t]
        /\ sig     = [p \in Procs |-> 0]
        /\ pos     = [p \in Procs |-> 1]
        /\ buf     = [p \in Procs |-> <<>>]
        /\ served  = [p \in Procs |-> Nothing]
        /\ starts  = 0
        /\ history = {}

\* A compiler process starts.
Start(p) ==
    /\ pc[p] \in {"idle", "done", "failed"}
    /\ starts < MaxRuns
    /\ pc'     = [pc EXCEPT ![p] = "input"]
    /\ kind'   = [kind EXCEPT ![p] = "parser"]
    /\ \E f \in BOOLEAN : force' = [force EXCEPT ![p] = f]
    /\ specs'  = [specs EXCEPT ![p] = binary]
    /\ served' = [served EXCEPT ![p] = Nothing]
    /\ pos'    = [pos EXCEPT ![p] = 1]
    /\ buf'    = [buf EXCEPT ![p] = <<>>]
    /\ starts' = starts + 1
    /\ NoteUnlessIdle("overlap")
    /\ UNCHANGED <<text, stamp, binary, file, grammar, sig>>

\* ensure_cache_dir, then the input: the grammar is read from disk, the token
\* specifications are the ones in the executable.
LoadInput(p) ==
    /\ pc[p] = "input"
    /\ pc' = [pc EXCEPT ![p] = "stat"]
    /\ grammar' = IF kind[p] = "parser"
                  THEN [grammar EXCEPT ![p] = text["parser"]] ELSE grammar
    /\ UNCHANGED <<sourceVars, file, kind, force, specs, sig, pos, buf, served,
                   starts>>

\* Mutant: the rebuild flag is read the wrong way round.
TakeSignatureInverted(p) ==
    /\ pc[p] = "stat"
    /\ pc'  = [pc EXCEPT ![p] = IF force[p] THEN "read" ELSE "build"]
    /\ sig' = [sig EXCEPT ![p] = stamp[kind[p]]]
    /\ UNCHANGED <<sourceVars, file, kind, force, grammar, specs, pos, buf,
                   served, starts>>

\* file_signature of the source file, after the input was read; a forced
\* rebuild does not look at the cache.
TakeSignature(p) ==
    /\ pc[p] = "stat"
    /\ pc'  = [pc EXCEPT ![p] = IF force[p] THEN "build" ELSE "read"]
    /\ sig' = [sig EXCEPT ![p] = stamp[kind[p]]]
    /\ UNCHANGED <<sourceVars, file, kind, force, grammar, specs, pos, buf,
                   served, starts>>

\* The process has artifact b of its current kind and goes on with the other
\* kind, or with the rest of the pipeline.
Obtain(p, b) ==
    /\ served' = [served EXCEPT ![p][kind[p]] = b]
    /\ pc'     = [pc EXCEPT ![p] = IF kind[p] = "parser" THEN "input"
                                                        ELSE "done"]
    /\ kind'   = [kind EXCEPT ![p] = "lexer"]
    /\ pos'    = [pos EXCEPT ![p] = 1]
    /\ buf'    = [buf EXCEPT ![p] = <<>>]

Miss(p) ==
    /\ pc'  = [pc EXCEPT ![p] = "build"]
    /\ pos' = [pos EXCEPT ![p] = 1]
    /\ buf' = [buf EXCEPT ![p] = <<>>]
    /\ UNCHANGED <<kind, served>>

Advance(p, c) ==
    /\ pos' = [pos EXCEPT ![p] = pos[p] + 1]
    /\ buf' = [buf EXCEPT ![p] = Append(buf[p], c)]
    /\ UNCHANGED <<pc, kind, served>>

\* read_header: a file that cannot be opened, is empty or has another header
\* is a miss.
ReadHeader(p) ==
    LET f == file[kind[p]]
    IN  /\ pc[p] = "read" /\ pos[p] = 1
        /\ IF f # <<>> /\ HeaderMatches(p, f[1]) THEN Advance(p, f[1])
                                                 ELSE Miss(p)
        /\ UNCHANGED <<sourceVars, file, inputVars, starts>>

\* At the end of the file every further number reads as zero and the final
\* test "good or eof" holds: what was read is accepted.
AcceptAtEof(p) ==
    /\ pos[p] > Len(file[kind[p]])
    /\ Obtain(p, buf[p])

\* Zero bytes fail the stream short of its end.  Text of another artifact is
\* numbers too: it may be accepted, or fail to parse.
RejectFlush(p, c) ==
    /\ c = Hole \/ c # buf[p][1]
    /\ Miss(p)

AcceptFlush(p, c) ==
    /\ c # Hole
    /\ IF pos[p] = Chunks THEN Obtain(p, Append(buf[p], c)) ELSE Advance(p, c)

ReadBody(p) ==
    LET f == file[kind[p]]
    IN  /\ pc[p] = "read" /\ pos[p] > 1
        /\ \/ AcceptAtEof(p)
           \/ pos[p] <= Len(f) /\ RejectFlush(p, f[pos[p]])
           \/ pos[p] <= Len(f) /\ AcceptFlush(p, f[pos[p]])
        /\ UNCHANGED <<sourceVars, file, inputVars, starts>>

\* Mutant: the cache file is opened without ios::trunc.
OpenForWriteKeep(p) ==
    /\ pc[p] = "build"
    /\ pc' = [pc EXCEPT ![p] = "write"]
    /\ UNCHANGED <<sourceVars, file, kind, inputVars, pos, buf, served, starts>>

\* The tables are generated and the cache file is opened with ios::trunc.
OpenForWrite(p) ==
    /\ pc[p] = "build"
    /\ file' = [file EXCEPT ![kind[p]] = <<>>]
    /\ pc'   = [pc EXCEPT ![p] = "write"]
    /\ UNCHANGED <<sourceVars, kind, inputVars, pos, buf, served, starts>>

\* Mutant: the last buffer is never flushed.
WriteChunkUnflushed(p) ==
    /\ pc[p] = "write"
    /\ IF pos[p] = Chunks
       THEN /\ Obtain(p, Whole(Made(p)))
            /\ UNCHANGED file
       ELSE /\ file' = [file EXCEPT ![kind[p]] =
                           Put(file[kind[p]], pos[p], Made(p))]
            /\ pos' = [pos EXCEPT ![p] = pos[p] + 1]
            /\ UNCHANGED <<pc, kind, buf, served>>
    /\ UNCHANGED <<sourceVars, inputVars, starts>>

\* One flush of the output stream; after the last one the generated artifact
\* is returned.
WriteChunk(p) ==
    /\ pc[p] = "write"
    /\ file' = [file EXCEPT ![kind[p]] = Put(file[kind[p]], pos[p], Made(p))]
    /\ IF pos[p] = Chunks
       THEN Obtain(p, Whole(Made(p)))
       ELSE /\ pos' = [pos EXCEPT ![p] = pos[p] + 1]
            /\ UNCHANGED <<pc, kind, buf, served>>
    /\ UNCHANGED <<sourceVars, inputVars, starts>>

-----------------------------------------------------------------------------
(* The environment.                                                        *)

\* The process is killed; its stream buffer is lost, its flushes are not.
Crash(p) ==
    /\ pc[p] \in Active
    /\ pc'     = [pc EXCEPT ![p] = "idle"]
    /\ served' = [served EXCEPT ![p] = Nothing]
    /\ pos'    = [pos EXCEPT ![p] = 1]
    /\ buf'    = [buf EXCEPT ![p] = <<>>]
    /\ Note("fault")
    /\ UNCHANGED <<text, stamp, binary, file, kind, inputVars, starts>>

\* The disk fills up: the stream's failure is never looked at, the artifact
\* in memory is returned as if it had been saved.
DiskFull(p) ==
    /\ pc[p] = "write"
    /\ Obtain(p, Whole(Made(p)))
    /\ Note("fault")
    /\ UNCHANGED <<text, stamp, binary, file, inputVars, starts>>

\* The directory cannot be made, a source file is gone or the cache file
\* cannot be opened for writing: the exception ends the run.
IOFail(p) ==
    /\ pc[p] \in {"input", "stat", "build"}
    /\ pc' = [pc EXCEPT ![p] = "failed"]
    /\ Note("fault")
    /\ UNCHANGED <<text, stamp, binary, file, kind, inputVars, pos, buf, served,
                   starts>>

\* Somebody edits grammar.y or tokens.hpp.
Edit(k) ==
    /\ stamp["parser"] + stamp["lexer"] < MaxEdits
    /\ \E s \in Sources \ {text[k]} : text' = [text EXCEPT ![k] = s]
    /\ stamp' = [stamp EXCEPT ![k] = stamp[k] + 1]
    /\ NoteUnlessIdle("race")
    /\ UNCHANGED <<binary, file, pc, kind, inputVars, pos, buf, served, starts>>

\* The compiler is rebuilt from the edited tokens.hpp.
RebuildBinary ==
    /\ binary # text["lexer"]
    /\ binary' = text["lexer"]
    /\ NoteUnlessIdle("race")
    /\ UNCHANGED <<text, stamp, file, pc, kind, inputVars, pos, buf, served,
                   starts>>

-----------------------------------------------------------------------------
Step(p) == \/ LoadInput(p) \/ TakeSignature(p)
           \/ ReadHeader(p) \/ ReadBody(p)
           \/ OpenForWrite(p) \/ WriteChunk(p)

Fault(p)  == Crash(p) \/ DiskFull(p) \/ IOFail(p)
Developer == (\E k \in Kinds : Edit(k)) \/ RebuildBinary

\* Nothing fails and edits wait until no run is on; runs overlap freely.
QuietNext == (\E p \in Procs : Start(p) \/ Step(p)) \/ (AllIdle /\ Developer)
\* Everything, at any moment.
Next == QuietNext \/ (\E p \in Procs : Fault(p)) \/ Developer

Spec      == Init /\ [][Next]_vars
QuietSpec == Init /\ [][QuietNext]_vars

\* A process that was started is scheduled until it ends.
FairQuietSpec == QuietSpec /\ \A p \in Procs : WF_vars(Step(p))

-----------------------------------------------------------------------------
TypeOK ==
    /\ text    \in [Kinds -> Sources]
    /\ stamp   \in [Kinds -> Stamps]
    /\ binary  \in Sources
    /\ file    \in [Kinds -> Seq(Flushes)]
    /\ pc      \in [Procs -> Stages]
    /\ kind    \in [Procs -> Kinds]
    /\ force   \in [Procs -> BOOLEAN]
    /\ grammar \in [Procs -> Sources]
    /\ specs   \in [Procs -> Sources]
    /\ sig     \in [Procs -> Stamps]
    /\ pos     \in [Procs -> 1 .. Chunks]
    /\ buf     \in [Procs -> Seq(Artifacts)]
    /\ served  \in [Procs -> [Kinds -> Seq(Artifacts)]]
    /\ starts  \in 0 .. MaxRuns
    /\ history \subseteq Incidents

IsWhole(b) == b # <<>> /\ b = Whole(b[1])

\* Whatever crashes, overlaps or is edited, the flush that vouches for a served
\* artifact was generated from an input with the fingerprint of the input the
\* process holds: a lexer never runs on tables of other token specifications,
\* and parser tables never have other symbol and production counts than the
\* grammar they index (read_header and the counts check, taken before the body
\* is read, still hold when the artifact is used).
FingerprintHolds ==
    \A p \in Procs, k \in Kinds :
        served[p][k] # <<>> =>
            Fingerprint(k, served[p][k][1].src) = Fingerprint(k, InputOf(p, k))

\* Until the sources are edited under a running compiler, no overlap, crash or
\* full disk makes a process use anything but a prefix of the tables of its
\* own input: rewriting in place can truncate an artifact, never mix two.
ServedPrefix ==
    "race" \notin history =>
    \A p \in Procs, k \in Kinds :
        \A i \in 1 .. Len(served[p][k]) : served[p][k][i].src = InputOf(p, k)

\* With overlapping processes that run to their end, a cache file nobody is
\* writing is absent or complete: however truncations and flushes of several
\* writers interleave, the last writer to truncate repairs what it cut.
QuiescentWhole ==
    \A k \in Kinds :
        (\A p \in Procs : ~(pc[p] = "write" /\ kind[p] = k))
            => file[k] = <<>> \/ IsWhole(file[k])

\* Every process that decides to generate an artifact leaves a complete cache
\* file behind at some later time, whoever else truncates it meanwhile.
BuildSettles ==
    \A p \in Procs, k \in Kinds :
        (pc[p] = "build" /\ kind[p] = k) ~> IsWhole(file[k])

\* While there has been one run at a time and no fault, what a process uses is
\* complete and generated from the very input it holds, though every run takes
\* what an earlier one left after any number of edits.
ServedCurrent ==
    history = {} =>
    \A p \in Procs, k \in Kinds :
        served[p][k] # <<>> =>
            /\ IsWhole(served[p][k])
            /\ served[p][k][1].src = InputOf(p, k)

UsableFor(p, f) ==
    /\ IsWhole(f)
    /\ HeaderMatches(p, f[1])

\* While there has been one run at a time and no fault, tables are generated
\* again only when the run is forced or the cache does not hold complete tables
\* for the signature and input of the process: what a build leaves behind is a
\* hit for the next run.
RebuildOnlyWhenNeeded ==
    [][\A p \in Procs : OpenForWrite(p) =>
           force[p] \/ history # {} \/ ~UsableFor(p, file[kind[p]])]_vars

CachedSources(f) == IF IsWhole(f) THEN {f[1].src} ELSE {}
SourcesIn(b)     == {b[i].src : i \in 1 .. Len(b)}

\* With runs that overlap, the files, signatures and partial states implement
\* the cache the pipeline relies on: a load, by hit or by rebuild, hands out
\* tables of the current input only, and only such tables enter the cache.
Abstract == INSTANCE ArtifactCache WITH
    input <- [k \in Kinds |-> IF k = "parser" THEN text[k] ELSE binary],
    cache <- [k \in Kinds |-> CachedSources(file[k])],
    held  <- [p \in Procs |-> [k \in Kinds |-> SourcesIn(served[p][k])]]

ImplementsCache == Abstract!Spec

-----------------------------------------------------------------------------
(* What docs/FrontendCache.md says of the cache.                           *)

\* "Corrupt cache files are treated as misses": nobody uses part of a file.
CorruptIsMiss ==
    \A p \in Procs, k \in Kinds :
        served[p][k] # <<>> => Len(served[p][k]) = Chunks

=============================================================================
