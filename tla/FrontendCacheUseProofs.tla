----------------------- MODULE FrontendCacheUseProofs -----------------------
(***************************************************************************)
(* Proofs about FrontendCache, continued: what the processes make of the   *)
(* cache files.  UseInv tells what a file under use can hold while no      *)
(* source changes under a run; SoloInv what it holds while runs follow one *)
(* another and nothing fails.  At the end, the refinement of ArtifactCache. *)
(***************************************************************************)
EXTENDS FrontendCacheProofs

-----------------------------------------------------------------------------
(* No race.  All that a writer of the file or a reader past the header can  *)
(* meet in it was made of the current source: a writer cut the file, and    *)
(* the header, by signature or fingerprint, rules out every other file,     *)
(* since a file is never a mixture.                                         *)
NoRace == "race" \notin history

Reading(p, k) == pc[p] = "read" /\ pos[p] > 1 /\ kind[p] = k

Pure(k) == \A i \in 1 .. Len(file[k]) : file[k][i] \in {Current(k), Hole}

Unmixed(k) ==
    \A i, j \in 1 .. Len(file[k]) :
        file[k][i] = Hole \/ file[k][j] = Hole \/ file[k][i] = file[k][j]

\* Signatures are of the past or of the present, and then, for the parser,
\* vouch for the text.
SignaturesVouch(k) ==
    \A i \in 1 .. Len(file[k]) :
        file[k][i] # Hole =>
            /\ file[k][i].sig <= stamp[k]
            /\ k = "parser" /\ file[k][i].sig = stamp[k] => file[k][i].src = text[k]

FilesPure ==
    \A k \in Kinds :
        /\ Unmixed(k) /\ SignaturesVouch(k)
        /\ \A p \in Procs : Writing(p, k) \/ Reading(p, k) => Pure(k)

BuffersCurrent ==
    \A p \in Procs : \A i \in 1 .. Len(buf[p]) : buf[p][i] = Current(kind[p])

UseInv == (NoRace => InputsCurrent /\ FilesPure /\ BuffersCurrent) /\ ServedPrefix

-----------------------------------------------------------------------------
(* One run at a time and no fault.  A file that nobody writes is whole or   *)
(* absent, the writer has written all up to its position, and the reader    *)
(* has read the same artifact up to its own.                                *)
Alone == \A p, q \in Procs : pc[p] \in Active /\ pc[q] \in Active => p = q

SoloFiles ==
    \A k \in Kinds :
        \/ file[k] = <<>> \/ IsWhole(file[k])
        \/ \E p \in Procs : Writing(p, k)

SoloWriter(p) ==
    pc[p] = "write" =>
        /\ Len(file[kind[p]]) = pos[p] - 1
        /\ \A i \in 1 .. Len(file[kind[p]]) : file[kind[p]][i] = Made(p)

SoloReader(p) ==
    pc[p] = "read" /\ pos[p] > 1 =>
        /\ IsWhole(file[kind[p]])
        /\ Len(buf[p]) = pos[p] - 1
        /\ \A i \in 1 .. Len(buf[p]) : buf[p][i] = file[kind[p]][1]

SoloBuilder(p) == pc[p] = "build" => force[p] \/ ~UsableFor(p, file[kind[p]])

ServedWhole == \A p \in Procs, k \in Kinds : served[p][k] # <<>> => IsWhole(served[p][k])

SoloInv ==
    history = {} =>
        /\ Alone /\ SoloFiles /\ ServedWhole
        /\ \A p \in Procs : SoloWriter(p) /\ SoloReader(p) /\ SoloBuilder(p)
-----------------------------------------------------------------------------
(* UseInv.                                                                 *)

LEMMA WholeParts ==
    ASSUME NEW a
    PROVE  /\ Len(Whole(a)) = Chunks /\ Whole(a) # <<>> /\ DOMAIN Whole(a) = 1 .. Chunks
           /\ \A i \in 1 .. Chunks : Whole(a)[i] = a
  <1> DEFINE S == {a}
  <1>1. Whole(a) \in [1 .. Chunks -> S]
    BY DEF Whole
  <1>2. Whole(a) \in Seq(S) /\ Len(Whole(a)) = Chunks
    BY <1>1, ChunksAssumption
  <1>3. Whole(a) # <<>>
    BY <1>2, ChunksAssumption
  <1> QED BY <1>1, <1>2, <1>3 DEF Whole

LEMMA HistoryGrows ==
    ASSUME TypeOK, [Next]_vars
    PROVE  history \subseteq history'
  BY DEF Next, QuietNext, Step, Fault, Developer, Start, LoadInput, TakeSignature,
         ReadHeader, ReadBody, OpenForWrite, WriteChunk, Crash, DiskFull, IOFail,
         Edit, RebuildBinary, Note, NoteUnlessIdle, vars, sourceVars

\* Without a race the sources change between two runs only.
LEMMA NoRaceSteps ==
    ASSUME TypeOK, [Next]_vars, NoRace'
    PROVE  NoRace /\ ([QuietNext]_vars \/ \E p \in Procs : Fault(p))
  <1>1. NoRace
    BY HistoryGrows DEF NoRace
  <1>2. CASE Developer
    <2>1. AllIdle
      BY <1>2 DEF NoRace, Developer, Edit, RebuildBinary, NoteUnlessIdle
    <2> QED BY <1>1, <1>2, <2>1 DEF QuietNext
  <1> QED BY <1>1, <1>2 DEF Next

LEMMA InputsStayCurrent ==
    ASSUME TypeOK, InputsCurrent, [Next]_vars, NoRace'
    PROVE  InputsCurrent'
  <1>1. CASE [QuietNext]_vars
    BY <1>1, InputsNext
  <1>2. ASSUME NEW p \in Procs, Fault(p) PROVE InputsCurrent'
    <2>1. CASE Crash(p) \/ IOFail(p)
      <3>1. /\ UNCHANGED <<text, stamp, binary, kind, grammar, specs, sig>>
            /\ pc'[p] \notin Active /\ \A q \in Procs \ {p} : pc'[q] = pc[q]
        BY <2>1 DEF Crash, IOFail, TypeOK, Active, Stages, inputVars
      <3> QED BY <3>1 DEF InputsCurrent, Active, Stages
    <2>2. CASE DiskFull(p)
      BY <2>2 DEF DiskFull, Obtain, TypeOK, InputsCurrent, Active, Stages, Kinds, inputVars
    <2> QED BY <1>2, <2>1, <2>2 DEF Fault
  <1> QED BY <1>1, <1>2, NoRaceSteps

\* A step that leaves the sources and the files alone and lets nobody begin to
\* write or to read a body keeps the files pure.
LEMMA PureUntouched ==
    ASSUME FilesPure, UNCHANGED <<text, stamp, binary, file>>,
           \A q \in Procs, k \in Kinds :
               Writing(q, k)' \/ Reading(q, k)' => Writing(q, k) \/ Reading(q, k)
    PROVE  FilesPure'
  BY DEF FilesPure, Pure, Current, Unmixed, SignaturesVouch

\* What a process reads of a pure file is the current artifact.
LEMMA FlushRead ==
    ASSUME TypeOK, InputsCurrent, FilesPure, NEW p \in Procs, ReadBody(p),
           pos[p] <= Len(file[kind[p]]), file[kind[p]][pos[p]] # Hole
    PROVE  file[kind[p]][pos[p]] = Current(kind[p]) /\ file[kind[p]][pos[p]] \in Artifacts
  <1>1. Reading(p, kind[p]) /\ kind[p] \in Kinds /\ pos[p] \in 1 .. Len(file[kind[p]])
    BY ChunksAssumption DEF ReadBody, Reading, TypeOK
  <1> QED BY <1>1, CurrentType DEF FilesPure, Pure

\* So is the header that a reader accepts, and then the whole file.
LEMMA HeaderRead ==
    ASSUME TypeOK, InputsCurrent, FilesPure, NEW p \in Procs, ReadHeader(p),
           file[kind[p]] # <<>>, HeaderMatches(p, file[kind[p]][1])
    PROVE  file[kind[p]][1] = Current(kind[p]) /\ Pure(kind[p])
  <1> DEFINE k == kind[p]
             c == file[k][1]
  <1>1. /\ pc[p] = "read" /\ k \in Kinds /\ file[k] \in Seq(Flushes) /\ 1 \in 1 .. Len(file[k])
        /\ c # Hole /\ c \in Artifacts
    BY NonEmptyFile DEF ReadHeader, HeaderMatches, TypeOK, Flushes
  <1>2. sig[p] = stamp[k] /\ specs[p] = binary /\ (k = "parser" => grammar[p] = text["parser"])
    BY <1>1 DEF InputsCurrent, Active, Stages
  <1>3. c.sig = stamp[k] /\ Fingerprint(k, c.src) = Fingerprint(k, InputOf(p, k))
    BY <1>2 DEF HeaderMatches
  <1>4. c.src = IF k = "parser" THEN text["parser"] ELSE binary
    <2>1. CASE k = "parser"
      BY <1>1, <1>3, <2>1 DEF FilesPure, SignaturesVouch
    <2>2. CASE k # "parser"
      BY <1>2, <1>3, <2>2 DEF Fingerprint, InputOf
    <2> QED BY <2>1, <2>2
  <1>5. c = Current(k)
    BY <1>1, <1>3, <1>4 DEF Artifacts, Current
  <1>6. Unmixed(k)
    BY <1>1 DEF FilesPure
  <1> QED BY <1>1, <1>5, <1>6 DEF Pure, Unmixed

LEMMA FilesStayPure ==
    ASSUME TypeOK, BufferUse, InputsCurrent, FilesPure, [Next]_vars, NoRace'
    PROVE  FilesPure'
  <1>1. ASSUME NEW p \in Procs, Start(p) \/ LoadInput(p) \/ TakeSignature(p) \/ Crash(p) \/ IOFail(p)
        PROVE  FilesPure'
    <2>1. UNCHANGED <<text, stamp, binary, file>>
      BY <1>1 DEF Start, LoadInput, TakeSignature, Crash, IOFail, sourceVars
    <2>2. /\ ~(pc'[p] = "write") /\ ~(pc'[p] = "read" /\ pos'[p] > 1)
          /\ \A q \in Procs \ {p} : pc'[q] = pc[q] /\ pos'[q] = pos[q] /\ kind'[q] = kind[q]
      BY <1>1, ChunksAssumption DEF Start, LoadInput, TakeSignature, Crash, IOFail, TypeOK, BufferUse
    <2>3. \A q \in Procs, k \in Kinds :
              Writing(q, k)' \/ Reading(q, k)' => Writing(q, k) \/ Reading(q, k)
      BY <2>2 DEF Writing, Reading
    <2> QED BY <2>1, <2>3, PureUntouched
  <1>2. ASSUME NEW p \in Procs, ReadHeader(p) PROVE FilesPure'
    <2> DEFINE f == file[kind[p]]
    <2>1. /\ UNCHANGED <<text, stamp, binary, file>> /\ pc[p] = "read"
          /\ \A q \in Procs \ {p} : pc'[q] = pc[q] /\ pos'[q] = pos[q] /\ kind'[q] = kind[q]
          /\ kind'[p] = kind[p] /\ pc'[p] # "write"
      BY <1>2 DEF ReadHeader, Miss, Advance, TypeOK, sourceVars
    <2>2. CASE f # <<>> /\ HeaderMatches(p, f[1])
      <3>1. Pure(kind[p])
        BY <1>2, <2>2, HeaderRead
      <3> QED BY <2>1, <3>1 DEF FilesPure, Pure, Current, Unmixed, SignaturesVouch, Writing, Reading
    <2>3. CASE ~(f # <<>> /\ HeaderMatches(p, f[1]))
      <3>1. pc'[p] = "build"
        BY <1>2, <2>3 DEF ReadHeader, Miss, TypeOK
      <3>2. \A q \in Procs, k \in Kinds :
                Writing(q, k)' \/ Reading(q, k)' => Writing(q, k) \/ Reading(q, k)
        BY <2>1, <3>1 DEF Writing, Reading
      <3> QED BY <2>1, <3>2, PureUntouched
    <2> QED BY <2>2, <2>3
  <1>3. ASSUME NEW p \in Procs, ReadBody(p) PROVE FilesPure'
    <2>1. UNCHANGED <<text, stamp, binary, file>> /\ pc[p] = "read" /\ pos[p] > 1
      BY <1>3 DEF ReadBody, sourceVars
    <2>2. /\ pc'[p] # "write" /\ (pc'[p] = "read" => kind'[p] = kind[p])
          /\ \A q \in Procs \ {p} : pc'[q] = pc[q] /\ pos'[q] = pos[q] /\ kind'[q] = kind[q]
      BY <1>3, <2>1 DEF ReadBody, AcceptAtEof, RejectFlush, AcceptFlush, Obtain, Miss, Advance, TypeOK
    <2>3. \A q \in Procs, k \in Kinds :
              Writing(q, k)' \/ Reading(q, k)' => Writing(q, k) \/ Reading(q, k)
      BY <2>1, <2>2 DEF Writing, Reading
    <2> QED BY <2>1, <2>3, PureUntouched
  <1>4. ASSUME NEW p \in Procs, OpenForWrite(p) PROVE FilesPure'
    <2>1. /\ UNCHANGED <<text, stamp, binary, kind, pos>> /\ file'[kind[p]] = <<>>
          /\ pc'[p] = "write" /\ \A q \in Procs \ {p} : pc'[q] = pc[q]
          /\ \A k \in Kinds \ {kind[p]} : file'[k] = file[k]
      BY <1>4 DEF OpenForWrite, TypeOK, sourceVars
    <2> SUFFICES ASSUME NEW k \in Kinds
                 PROVE  /\ Unmixed(k)' /\ SignaturesVouch(k)'
                        /\ \A q \in Procs : Writing(q, k)' \/ Reading(q, k)' => Pure(k)'
      BY DEF FilesPure
    <2>2. CASE k = kind[p]
      BY <2>1, <2>2 DEF Unmixed, SignaturesVouch, Pure
    <2>3. CASE k # kind[p]
      <3>1. \A q \in Procs : Writing(q, k)' \/ Reading(q, k)' => Writing(q, k) \/ Reading(q, k)
        BY <2>1, <2>3 DEF Writing, Reading
      <3> QED BY <2>1, <2>3, <3>1 DEF FilesPure, Unmixed, SignaturesVouch, Pure, Current
    <2> QED BY <2>2, <2>3
  <1>5. ASSUME NEW p \in Procs, WriteChunk(p) PROVE FilesPure'
    <2> DEFINE a == Current(kind[p])
               f == file[kind[p]]
               i == pos[p]
    <2>1. /\ UNCHANGED <<text, stamp, binary>> /\ pc[p] = "write" /\ kind[p] \in Kinds
          /\ file' = [file EXCEPT ![kind[p]] = Put(f, i, a)] /\ a \in Artifacts
          /\ f \in Seq(Flushes) /\ i \in 1 .. Chunks
      BY <1>5, MadeCurrent, CurrentType DEF WriteChunk, TypeOK, sourceVars
    <2>2. /\ pc'[p] = "write" => kind'[p] = kind[p]
          /\ pc'[p] # "read"
          /\ \A q \in Procs \ {p} : pc'[q] = pc[q] /\ pos'[q] = pos[q] /\ kind'[q] = kind[q]
      BY <1>5 DEF WriteChunk, Obtain, TypeOK
    <2>3. \A q \in Procs, k \in Kinds :
              Writing(q, k)' \/ Reading(q, k)' => Writing(q, k) \/ Reading(q, k)
      BY <2>1, <2>2 DEF Writing, Reading
    <2>4. \A j \in 1 .. Len(f) : f[j] \in {a, Hole}
      BY <2>1 DEF FilesPure, Pure, Writing
    <2>5. \A j \in 1 .. Len(Put(f, i, a)) : Put(f, i, a)[j] \in {a, Hole}
      <3>1. Put(f, i, a) = [j \in 1 .. (IF i > Len(f) THEN i ELSE Len(f)) |->
                               IF j = i THEN a ELSE IF j <= Len(f) THEN f[j] ELSE Hole]
        BY DEF Put
      <3>2. Len(Put(f, i, a)) = IF i > Len(f) THEN i ELSE Len(f)
        BY <2>1, PutProperties DEF Flushes
      <3>3. Len(f) \in Nat /\ i \in Nat
        BY <2>1, ChunksAssumption
      <3> QED BY <2>4, <3>1, <3>2, <3>3
    <2> SUFFICES ASSUME NEW k \in Kinds
                 PROVE  /\ Unmixed(k)' /\ SignaturesVouch(k)'
                        /\ \A q \in Procs : Writing(q, k)' \/ Reading(q, k)' => Pure(k)'
      BY DEF FilesPure
    <2>6. CASE k = kind[p]
      <3>1. file'[k] = Put(f, i, a) /\ Current(k)' = a
        BY <2>1, <2>6 DEF TypeOK, Current
      <3>2. Pure(k)'
        BY <2>5, <3>1 DEF Pure
      <3>3. a.sig = stamp[k] /\ a.sig <= stamp[k] /\ (k = "parser" => a.src = text[k])
        BY <2>6, BoundsAssumption DEF Current, TypeOK, Stamps
      <3> QED BY <2>1, <2>5, <3>1, <3>2, <3>3 DEF Unmixed, SignaturesVouch
    <2>7. CASE k # kind[p]
      <3>1. file'[k] = file[k]
        BY <2>1, <2>7 DEF TypeOK
      <3> QED BY <2>1, <2>3, <3>1 DEF FilesPure, Unmixed, SignaturesVouch, Pure, Current
    <2> QED BY <2>6, <2>7
  <1>6. ASSUME NEW p \in Procs, DiskFull(p) PROVE FilesPure'
    <2>1. /\ UNCHANGED <<text, stamp, binary, file>>
          /\ pc'[p] # "write" /\ pc'[p] # "read"
          /\ \A q \in Procs \ {p} : pc'[q] = pc[q] /\ pos'[q] = pos[q] /\ kind'[q] = kind[q]
      BY <1>6 DEF DiskFull, Obtain, TypeOK
    <2>2. \A q \in Procs, k \in Kinds :
              Writing(q, k)' \/ Reading(q, k)' => Writing(q, k) \/ Reading(q, k)
      BY <2>1 DEF Writing, Reading
    <2> QED BY <2>1, <2>2, PureUntouched
  <1>7. CASE AllIdle /\ Developer
    <2>1. file' = file /\ pc' = pc /\ kind' = kind /\ pos' = pos
      BY <1>7 DEF Developer, Edit, RebuildBinary
    <2>2. \A q \in Procs, k \in Kinds : ~(Writing(q, k)' \/ Reading(q, k)')
      BY <1>7, <2>1 DEF AllIdle, Active, Stages, Writing, Reading
    <2>3. \A k \in Kinds : stamp[k] \in Nat
      BY BoundsAssumption DEF TypeOK, Stamps
    <2>4. \A k \in Kinds : (stamp'[k] = stamp[k] /\ text'[k] = text[k]) \/ stamp'[k] = stamp[k] + 1
      BY <1>7 DEF Developer, Edit, RebuildBinary, TypeOK
    <2>5. \A k \in Kinds : \A i \in 1 .. Len(file[k]) : file[k][i] # Hole => file[k][i].sig \in Nat
      <3>1. \A k \in Kinds : file[k] \in Seq(Flushes)
        BY DEF TypeOK
      <3>2. \A k \in Kinds : \A i \in 1 .. Len(file[k]) : file[k][i] \in Flushes
        BY <3>1, FlushInFile
      <3> QED BY <3>2, BoundsAssumption DEF Flushes, Artifacts, Stamps
    <2>6. \A k \in Kinds : SignaturesVouch(k)'
      BY <2>1, <2>3, <2>4, <2>5 DEF FilesPure, SignaturesVouch
    <2> QED BY <2>1, <2>2, <2>6 DEF FilesPure, Unmixed
  <1>8. CASE UNCHANGED vars
    BY <1>8, PureUntouched DEF vars, sourceVars, Writing, Reading
  <1> QED
    BY <1>1, <1>2, <1>3, <1>4, <1>5, <1>6, <1>7, <1>8, NoRaceSteps
       DEF QuietNext, Step, Fault

LEMMA AppendedFlush ==
    ASSUME NEW S, NEW b \in Seq(S), NEW c
    PROVE  /\ Len(Append(b, c)) = Len(b) + 1
           /\ \A i \in 1 .. Len(b) + 1 : Append(b, c)[i] = IF i = Len(b) + 1 THEN c ELSE b[i]
  OBVIOUS

LEMMA BuffersStayCurrent ==
    ASSUME TypeOK, BufferUse, InputsCurrent, FilesPure, BuffersCurrent, [Next]_vars, NoRace'
    PROVE  BuffersCurrent'
  <1>1. ASSUME UNCHANGED <<text, stamp, binary>>,
               \A q \in Procs : buf'[q] = <<>> \/ (buf'[q] = buf[q] /\ kind'[q] = kind[q])
        PROVE  BuffersCurrent'
    BY <1>1 DEF BuffersCurrent, Current
  <1>2. ASSUME NEW p \in Procs, Advance(p, Current(kind[p])), UNCHANGED <<text, stamp, binary>>
        PROVE  BuffersCurrent'
    <2> DEFINE c == Current(kind[p])
    <2>1. /\ kind' = kind /\ buf'[p] = Append(buf[p], c) /\ \A q \in Procs \ {p} : buf'[q] = buf[q]
          /\ buf[p] \in Seq(Artifacts)
      BY <1>2 DEF Advance, TypeOK
    <2>2. \A i \in 1 .. Len(buf[p]) : buf[p][i] = c
      BY DEF BuffersCurrent
    <2>3. \A i \in 1 .. Len(buf'[p]) : buf'[p][i] = c
      BY <2>1, <2>2, AppendedFlush
    <2>4. \A q \in Procs : Current(kind[q])' = Current(kind[q])
      BY <1>2, <2>1 DEF Current
    <2> QED BY <2>1, <2>3, <2>4 DEF BuffersCurrent
  <1>3. ASSUME NEW p \in Procs,
               Start(p) \/ LoadInput(p) \/ TakeSignature(p) \/ OpenForWrite(p) \/ Crash(p) \/ IOFail(p)
        PROVE  BuffersCurrent'
    <2>1. UNCHANGED <<text, stamp, binary>>
      BY <1>3 DEF Start, LoadInput, TakeSignature, OpenForWrite, Crash, IOFail, sourceVars
    <2>2. CASE Start(p) \/ Crash(p)
      BY <1>1, <2>1, <2>2 DEF Start, Crash, TypeOK
    <2>3. CASE LoadInput(p) \/ TakeSignature(p) \/ OpenForWrite(p) \/ IOFail(p)
      <3>1. buf' = buf /\ kind' = kind
        BY <2>3 DEF LoadInput, TakeSignature, OpenForWrite, IOFail
      <3> QED BY <1>1, <2>1, <3>1
    <2> QED BY <1>3, <2>2, <2>3
  <1>4. ASSUME NEW p \in Procs, ReadHeader(p) PROVE BuffersCurrent'
    <2> DEFINE f == file[kind[p]]
    <2>1. UNCHANGED <<text, stamp, binary>>
      BY <1>4 DEF ReadHeader, sourceVars
    <2>2. CASE f # <<>> /\ HeaderMatches(p, f[1])
      <3>1. Advance(p, Current(kind[p]))
        BY <1>4, <2>2, HeaderRead DEF ReadHeader
      <3> QED BY <1>2, <2>1, <3>1
    <2>3. CASE ~(f # <<>> /\ HeaderMatches(p, f[1]))
      <3>1. Miss(p)
        BY <1>4, <2>3 DEF ReadHeader
      <3> QED BY <1>1, <2>1, <3>1 DEF Miss, TypeOK
    <2> QED BY <2>2, <2>3
  <1>5. ASSUME NEW p \in Procs, ReadBody(p) PROVE BuffersCurrent'
    <2> DEFINE f == file[kind[p]]
               c == f[pos[p]]
    <2>1. UNCHANGED <<text, stamp, binary>>
      BY <1>5 DEF ReadBody, sourceVars
    <2>2. ASSUME NEW b, Obtain(p, b) \/ Miss(p) PROVE BuffersCurrent'
      BY <1>1, <2>1, <2>2 DEF Obtain, Miss, TypeOK
    <2>3. CASE pos[p] <= Len(f) /\ AcceptFlush(p, c) /\ pos[p] # Chunks
      <3>1. Advance(p, c) /\ c # Hole
        BY <2>3 DEF AcceptFlush
      <3>2. c = Current(kind[p])
        BY <1>5, <2>3, <3>1, FlushRead
      <3> QED BY <1>2, <2>1, <3>1, <3>2
    <2> QED BY <1>5, <2>2, <2>3 DEF ReadBody, AcceptAtEof, RejectFlush, AcceptFlush
  <1>6. ASSUME NEW p \in Procs, WriteChunk(p) \/ DiskFull(p) PROVE BuffersCurrent'
    BY <1>1, <1>6 DEF WriteChunk, DiskFull, Obtain, TypeOK, sourceVars
  <1>7. CASE AllIdle /\ Developer
    <2>1. \A q \in Procs : buf'[q] = <<>>
      BY <1>7 DEF AllIdle, Developer, Edit, RebuildBinary, BufferUse, Active, Stages
    <2> QED BY <2>1 DEF BuffersCurrent
  <1>8. CASE UNCHANGED vars
    BY <1>1, <1>8 DEF vars, sourceVars
  <1> QED
    BY <1>3, <1>4, <1>5, <1>6, <1>7, <1>8, NoRaceSteps DEF QuietNext, Step, Fault

\* The source of the current artifact is the input of whoever reads or writes it.
LEMMA CurrentInput ==
    ASSUME TypeOK, InputsCurrent, NEW p \in Procs, pc[p] \in {"read", "write"}
    PROVE  Current(kind[p]).src = InputOf(p, kind[p])
  BY DEF TypeOK, InputsCurrent, Current, InputOf, Active, Stages, Kinds

LEMMA ServedStaysPrefix ==
    ASSUME TypeOK, ParserFirst, InputsCurrent, FilesPure, BuffersCurrent, ServedPrefix,
           [Next]_vars, NoRace'
    PROVE  ServedPrefix'
  <1>1. \A q \in Procs, k \in Kinds :
            \A i \in 1 .. Len(served[q][k]) : served[q][k][i].src = InputOf(q, k)
    BY NoRaceSteps DEF ServedPrefix, NoRace
  <1>2. ASSUME UNCHANGED <<grammar, specs>>,
               \A q \in Procs, k \in Kinds : served'[q][k] = <<>> \/ served'[q][k] = served[q][k]
        PROVE  ServedPrefix'
    BY <1>1, <1>2 DEF ServedPrefix, InputOf
  <1>3. ASSUME NEW p \in Procs, NEW b, Obtain(p, b), UNCHANGED <<grammar, specs>>,
               \A i \in 1 .. Len(b) : b[i].src = InputOf(p, kind[p])
        PROVE  ServedPrefix'
    <2> SUFFICES ASSUME NEW q \in Procs, NEW k \in Kinds, NEW i \in 1 .. Len(served'[q][k])
                 PROVE  served'[q][k][i].src = InputOf(q, k)
      BY <1>3 DEF ServedPrefix, InputOf
    <2>1. CASE q = p /\ k = kind[p]
      <3>1. served'[q][k] = b
        BY <1>3, <2>1 DEF Obtain, TypeOK
      <3> QED BY <1>3, <2>1, <3>1
    <2>2. CASE ~(q = p /\ k = kind[p])
      <3>1. served'[q][k] = served[q][k]
        BY <1>3, <2>2 DEF Obtain, TypeOK
      <3> QED BY <1>1, <3>1
    <2> QED BY <2>1, <2>2
  <1>4. ASSUME NEW p \in Procs, pc[p] = "write", Obtain(p, Whole(Made(p))), UNCHANGED <<grammar, specs>>
        PROVE  ServedPrefix'
    <2>1. \A i \in 1 .. Len(Whole(Made(p))) : Whole(Made(p))[i].src = InputOf(p, kind[p])
      BY WholeParts DEF Made
    <2> QED BY <1>3, <1>4, <2>1
  <1>5. ASSUME NEW p \in Procs, Start(p) \/ Crash(p) PROVE ServedPrefix'
    <2> SUFFICES ASSUME NEW q \in Procs, NEW k \in Kinds, NEW i \in 1 .. Len(served'[q][k])
                 PROVE  served'[q][k][i].src = InputOf(q, k)'
      BY DEF ServedPrefix
    <2>1. CASE q = p
      BY <1>5, <2>1 DEF Start, Crash, TypeOK, Nothing
    <2>2. CASE q # p
      <3>1. served'[q] = served[q] /\ grammar'[q] = grammar[q] /\ specs'[q] = specs[q]
        BY <1>5, <2>2 DEF Start, Crash, TypeOK, inputVars
      <3> QED BY <1>1, <3>1 DEF InputOf
    <2> QED BY <2>1, <2>2
  <1>6. ASSUME NEW p \in Procs, LoadInput(p) PROVE ServedPrefix'
    <2> SUFFICES ASSUME NEW q \in Procs, NEW k \in Kinds, NEW i \in 1 .. Len(served[q][k])
                 PROVE  served[q][k][i].src = InputOf(q, k)'
      BY <1>6 DEF LoadInput, ServedPrefix
    <2>1. k = "parser" /\ q = p => kind[p] = "lexer"
      BY DEF ParserFirst, TypeOK
    <2>2. InputOf(q, k)' = InputOf(q, k)
      BY <1>6, <2>1 DEF LoadInput, TypeOK, InputOf, Kinds
    <2> QED BY <1>1, <2>2
  <1>7. ASSUME NEW p \in Procs, TakeSignature(p) \/ ReadHeader(p) \/ OpenForWrite(p) \/ IOFail(p)
        PROVE  ServedPrefix'
    BY <1>2, <1>7 DEF TakeSignature, ReadHeader, Advance, Miss, OpenForWrite, IOFail, inputVars
  <1>8. ASSUME NEW p \in Procs, ReadBody(p) PROVE ServedPrefix'
    <2> DEFINE f == file[kind[p]]
               c == f[pos[p]]
    <2>1. UNCHANGED <<grammar, specs>> /\ pc[p] = "read" /\ buf[p] \in Seq(Artifacts)
      BY <1>8 DEF ReadBody, inputVars, TypeOK
    <2>2. Current(kind[p]).src = InputOf(p, kind[p])
      BY <2>1, CurrentInput
    <2>3. \A i \in 1 .. Len(buf[p]) : buf[p][i].src = InputOf(p, kind[p])
      BY <2>2 DEF BuffersCurrent
    <2>4. CASE AcceptAtEof(p)
      BY <1>3, <2>1, <2>3, <2>4 DEF AcceptAtEof
    <2>5. CASE Miss(p) \/ Advance(p, c)
      BY <1>2, <2>1, <2>5 DEF Miss, Advance
    <2>6. CASE pos[p] <= Len(f) /\ AcceptFlush(p, c) /\ pos[p] = Chunks
      <3>1. c = Current(kind[p]) /\ Obtain(p, Append(buf[p], c))
        BY <1>8, <2>6, FlushRead DEF AcceptFlush
      <3>2. \A i \in 1 .. Len(Append(buf[p], c)) : Append(buf[p], c)[i].src = InputOf(p, kind[p])
        <4> HIDE DEF c
        <4> QED BY <2>1, <2>2, <2>3, <3>1, AppendedFlush
      <3> QED BY <1>3, <2>1, <3>1, <3>2
    <2> QED BY <1>8, <2>4, <2>5, <2>6 DEF ReadBody, RejectFlush, AcceptFlush
  <1>9. ASSUME NEW p \in Procs, WriteChunk(p) \/ DiskFull(p) PROVE ServedPrefix'
    <2>1. pc[p] = "write" /\ UNCHANGED <<grammar, specs>>
      BY <1>9 DEF WriteChunk, DiskFull, inputVars
    <2>2. Obtain(p, Whole(Made(p))) \/ served' = served
      BY <1>9 DEF WriteChunk, DiskFull
    <2> QED BY <1>2, <1>4, <2>1, <2>2
  <1>10. CASE AllIdle /\ Developer
    BY <1>2, <1>10 DEF Developer, Edit, RebuildBinary, inputVars
  <1>11. CASE UNCHANGED vars
    BY <1>2, <1>11 DEF vars, inputVars
  <1> QED
    BY <1>5, <1>6, <1>7, <1>8, <1>9, <1>10, <1>11, NoRaceSteps DEF QuietNext, Step, Fault

LEMMA UseInit == Init => UseInv
  BY DEF Init, UseInv, InputsCurrent, FilesPure, Pure, Unmixed, SignaturesVouch, BuffersCurrent,
         ServedPrefix, Writing, Reading, Nothing, Active, Stages, Kinds

LEMMA UseNext == TypeOK /\ FingerprintInv /\ UseInv /\ [Next]_vars => UseInv'
  <1> SUFFICES ASSUME TypeOK, FingerprintInv, UseInv, [Next]_vars PROVE UseInv'
    OBVIOUS
  <1>1. CASE NoRace'
    <2>1. BufferUse /\ ParserFirst /\ InputsCurrent /\ FilesPure /\ BuffersCurrent /\ ServedPrefix
      BY <1>1, NoRaceSteps DEF FingerprintInv, UseInv
    <2> QED
      BY <1>1, <2>1, InputsStayCurrent, FilesStayPure, BuffersStayCurrent, ServedStaysPrefix DEF UseInv
  <1>2. CASE ~NoRace'
    BY <1>2 DEF UseInv, NoRace, ServedPrefix
  <1> QED BY <1>1, <1>2

\* ServedPrefix: until the sources change under a run, a process uses nothing
\* but the tables of its own input, complete or cut, whatever overlaps,
\* crashes or fills up the disk.
THEOREM ServedPrefixHolds == Spec => []ServedPrefix
  <1>1. UseInv => ServedPrefix
    BY DEF UseInv
  <1> QED
    BY TypeInit, TypeNext, FingerprintInit, FingerprintNext, UseInit, UseNext, <1>1, PTL DEF Spec
-----------------------------------------------------------------------------
(* SoloInv.                                                                *)

LEMMA SoloInit == Init => SoloInv
  BY DEF Init, SoloInv, Alone, SoloFiles, ServedWhole, SoloWriter, SoloReader, SoloBuilder, Nothing,
         Active, Stages, Kinds

LEMMA SoloSteps ==
    ASSUME TypeOK, [Next]_vars, history' = {}
    PROVE  /\ history = {}
           /\ \/ AllIdle /\ (Developer \/ \E p \in Procs : Start(p))
              \/ \E p \in Procs : Step(p)
              \/ UNCHANGED vars
  <1>1. history = {}
    BY HistoryGrows
  <1>2. Developer \/ (\E p \in Procs : Start(p)) => AllIdle
    BY DEF Developer, Edit, RebuildBinary, Start, NoteUnlessIdle
  <1>3. ASSUME NEW p \in Procs PROVE ~Fault(p)
    BY DEF Fault, Crash, DiskFull, IOFail, Note
  <1> QED BY <1>1, <1>2, <1>3 DEF Next, QuietNext

\* A step of the one process that is active needs to be looked at for it alone.
LEMMA SoloStep ==
    ASSUME Alone, NEW p \in Procs, pc[p] \in Active, \A q \in Procs \ {p} : pc'[q] = pc[q],
           SoloFiles', ServedWhole', SoloWriter(p)', SoloReader(p)', SoloBuilder(p)'
    PROVE  SoloInv'
  <1>1. \A q \in Procs \ {p} : pc'[q] \notin Active
    BY DEF Alone
  <1>2. Alone'
    BY <1>1 DEF Alone
  <1>3. \A q \in Procs : SoloWriter(q)' /\ SoloReader(q)' /\ SoloBuilder(q)'
    BY <1>1 DEF SoloWriter, SoloReader, SoloBuilder, Active, Stages
  <1> QED BY <1>2, <1>3 DEF SoloInv

LEMMA ObtainWhole ==
    ASSUME TypeOK, ServedWhole, NEW p \in Procs, NEW a, Obtain(p, Whole(a))
    PROVE  ServedWhole'
  <1>1. IsWhole(Whole(a))
    BY WholeParts, ChunksAssumption DEF IsWhole
  <1> SUFFICES ASSUME NEW q \in Procs, NEW k \in Kinds, served'[q][k] # <<>>
               PROVE  IsWhole(served'[q][k])
    BY DEF ServedWhole, IsWhole, Whole
  <1>2. served'[q][k] = Whole(a) \/ served'[q][k] = served[q][k]
    BY DEF Obtain, TypeOK
  <1> QED BY <1>1, <1>2 DEF ServedWhole

\* A whole file has one flush Chunks times.
LEMMA WholeFlushes ==
    ASSUME NEW f, IsWhole(f)
    PROVE  Len(f) = Chunks /\ \A i \in 1 .. Chunks : f[i] = f[1]
  <1> DEFINE a == f[1]
  <1>1. f = Whole(a)
    BY DEF IsWhole
  <1> HIDE DEF a
  <1>2. Len(f) = Chunks /\ \A i \in 1 .. Chunks : f[i] = a
    BY <1>1, WholeParts
  <1> QED BY <1>2 DEF a

\* What files and served artifacts are carries over when they are not touched.
LEMMA FilesAllSolo ==
    ASSUME \A k \in Kinds : \/ file'[k] = <<>> \/ IsWhole(file'[k])
                          \/ \E p \in Procs : Writing(p, k)'
    PROVE  SoloFiles'
  <1> SUFFICES ASSUME NEW k \in Kinds, file'[k] # <<>>, \A p \in Procs : ~Writing(p, k)'
               PROVE  IsWhole(file'[k])
    BY DEF SoloFiles, IsWhole, Whole
  <1> QED OBVIOUS

LEMMA FilesStaySolo ==
    ASSUME SoloFiles, \A k \in Kinds : file'[k] = file[k] \/ file'[k] = <<>>,
           \A q \in Procs, k \in Kinds : Writing(q, k) => Writing(q, k)'
    PROVE  SoloFiles'
  BY FilesAllSolo DEF SoloFiles

LEMMA ServedStaysWhole ==
    ASSUME ServedWhole,
           \A q \in Procs, k \in Kinds : served'[q][k] = <<>> \/ served'[q][k] = served[q][k]
    PROVE  ServedWhole'
  <1> SUFFICES ASSUME NEW q \in Procs, NEW k \in Kinds, served'[q][k] # <<>>
               PROVE  IsWhole(served'[q][k])
    BY DEF ServedWhole, IsWhole, Whole
  <1> QED BY DEF ServedWhole

LEMMA SoloNext == TypeOK /\ FingerprintInv /\ SoloInv /\ [Next]_vars => SoloInv'
  <1> SUFFICES ASSUME TypeOK, FingerprintInv, SoloInv, [Next]_vars, history' = {} PROVE SoloInv'
    BY DEF SoloInv
  <1>1. /\ BufferUse /\ Alone /\ SoloFiles /\ ServedWhole
        /\ \A p \in Procs : SoloWriter(p) /\ SoloReader(p) /\ SoloBuilder(p)
    BY SoloSteps DEF SoloInv, FingerprintInv
  <1>2. ASSUME AllIdle, NEW p \in Procs, Start(p) PROVE SoloInv'
    <2>1. /\ file' = file /\ pc'[p] = "input"
          /\ \A q \in Procs \ {p} : pc'[q] = pc[q] /\ pc'[q] \notin Active
      BY <1>2 DEF Start, AllIdle, TypeOK
    <2>2. \A q \in Procs, k \in Kinds : served'[q][k] = <<>> \/ served'[q][k] = served[q][k]
      BY <1>2 DEF Start, TypeOK, Nothing
    <2>3. ServedWhole'
      BY <1>1, <2>2, ServedStaysWhole
    <2>4. \A q \in Procs, k \in Kinds : ~Writing(q, k)
      BY <1>2 DEF AllIdle, Writing, Active, Stages
    <2>5. SoloFiles'
      BY <1>1, <2>1, <2>4, FilesStaySolo
    <2>6. Alone'
      BY <2>1 DEF Alone
    <2>7. \A q \in Procs : SoloWriter(q)' /\ SoloReader(q)' /\ SoloBuilder(q)'
      BY <2>1 DEF SoloWriter, SoloReader, SoloBuilder, Active, Stages
    <2> QED BY <2>3, <2>5, <2>6, <2>7 DEF SoloInv
  <1>3. CASE AllIdle /\ Developer
    <2>1. file' = file /\ pc' = pc /\ served' = served /\ \A q \in Procs : pc'[q] \notin Active
      BY <1>3 DEF Developer, Edit, RebuildBinary, AllIdle
    <2>2. \A q \in Procs, k \in Kinds : ~Writing(q, k)
      BY <2>1 DEF Writing, Active, Stages
    <2>3. SoloFiles' /\ ServedWhole'
      BY <1>1, <2>1, <2>2, FilesStaySolo, ServedStaysWhole
    <2>5. Alone'
      BY <2>1 DEF Alone
    <2>4. \A q \in Procs : SoloWriter(q)' /\ SoloReader(q)' /\ SoloBuilder(q)'
      BY <2>1 DEF SoloWriter, SoloReader, SoloBuilder, Active, Stages
    <2> QED BY <2>3, <2>4, <2>5 DEF SoloInv
  <1>4. ASSUME NEW p \in Procs, LoadInput(p) \/ TakeSignature(p) PROVE SoloInv'
    <2>1. /\ file' = file /\ served' = served /\ kind' = kind /\ pos' = pos /\ force' = force
          /\ pc[p] \in Active /\ pc[p] # "write" /\ pc'[p] # "write" /\ pos[p] = 1
          /\ (pc'[p] = "build" => force[p])
          /\ \A q \in Procs \ {p} : pc'[q] = pc[q]
      BY <1>1, <1>4, ChunksAssumption
         DEF LoadInput, TakeSignature, TypeOK, Active, Stages, BufferUse, inputVars
    <2>2. SoloFiles' /\ ServedWhole'
      BY <1>1, <2>1, FilesStaySolo, ServedStaysWhole DEF Writing
    <2>3. SoloWriter(p)' /\ SoloReader(p)' /\ SoloBuilder(p)'
      BY <2>1 DEF SoloWriter, SoloReader, SoloBuilder
    <2> QED BY <1>1, <2>1, <2>2, <2>3, SoloStep
  <1>5. ASSUME NEW p \in Procs, ReadHeader(p) PROVE SoloInv'
    <2> DEFINE k == kind[p]
               f == file[k]
    <2>1. /\ file' = file /\ served' = served /\ kind' = kind
          /\ UNCHANGED <<force, grammar, specs, sig>>
          /\ pc[p] = "read" /\ pc[p] \in Active /\ pos[p] = 1 /\ pc'[p] # "write"
          /\ \A q \in Procs \ {p} : pc'[q] = pc[q]
      BY <1>5 DEF ReadHeader, Advance, Miss, TypeOK, Active, Stages, inputVars
    <2>2. SoloFiles' /\ ServedWhole'
      BY <1>1, <2>1, FilesStaySolo, ServedStaysWhole DEF Writing
    <2>3. \A q \in Procs : ~Writing(q, k)
      BY <1>1, <2>1 DEF Alone, Writing, Active, Stages
    <2>4. CASE f # <<>> /\ HeaderMatches(p, f[1])
      <3>1. Advance(p, f[1]) /\ buf[p] = <<>>
        BY <1>1, <1>5, <2>1, <2>4 DEF ReadHeader, BufferUse
      <3>2. IsWhole(f) /\ k \in Kinds
        BY <1>1, <2>3, <2>4 DEF SoloFiles, TypeOK
      <3>3. pos'[p] = 2 /\ buf'[p] = <<f[1]>> /\ pc'[p] = "read"
        BY <2>1, <3>1 DEF Advance, TypeOK
      <3>4. IsWhole(file[kind[p]])'
        BY <2>1, <3>2 DEF IsWhole, Whole
      <3>6. Len(buf'[p]) = 1 /\ \A i \in 1 .. 1 : buf'[p][i] = file'[kind'[p]][1]
        BY <2>1, <3>3
      <3>7. SoloReader(p)'
        BY <3>3, <3>4, <3>6 DEF SoloReader
      <3>5. SoloWriter(p)' /\ SoloBuilder(p)'
        BY <3>3 DEF SoloWriter, SoloBuilder
      <3> QED BY <1>1, <2>1, <2>2, <3>7, <3>5, SoloStep
    <2>5. CASE ~(f # <<>> /\ HeaderMatches(p, f[1]))
      <3>1. pc'[p] = "build"
        BY <1>5, <2>5 DEF ReadHeader, Miss, TypeOK
      <3>2. ~UsableFor(p, f)
        BY <2>5 DEF UsableFor, IsWhole
      <3>3. SoloBuilder(p)'
        BY <2>1, <3>2 DEF SoloBuilder, UsableFor, IsWhole, Whole, HeaderMatches, Fingerprint, InputOf
      <3>4. SoloWriter(p)' /\ SoloReader(p)'
        BY <3>1 DEF SoloWriter, SoloReader
      <3> QED BY <1>1, <2>1, <2>2, <3>3, <3>4, SoloStep
    <2> QED BY <2>4, <2>5
  <1>6. ASSUME NEW p \in Procs, ReadBody(p) PROVE SoloInv'
    <2> DEFINE k == kind[p]
               f == file[k]
               c == f[pos[p]]
    <2>1. /\ file' = file /\ pc[p] = "read" /\ pos[p] > 1 /\ pc[p] \in Active
          /\ pos[p] \in 1 .. Chunks /\ buf[p] \in Seq(Artifacts) /\ pc'[p] # "write"
          /\ \A q \in Procs \ {p} : pc'[q] = pc[q]
      BY <1>6 DEF ReadBody, AcceptAtEof, AcceptFlush, RejectFlush, Obtain, Advance, Miss, TypeOK,
         Active, Stages
    <2>2. /\ IsWhole(f) /\ Len(buf[p]) = pos[p] - 1
          /\ \A i \in 1 .. Len(buf[p]) : buf[p][i] = f[1]
      BY <1>1, <2>1 DEF SoloReader
    <2>3. Len(f) = Chunks /\ \A i \in 1 .. Chunks : f[i] = f[1]
      BY <2>2, WholeFlushes
    <2>4. c = f[1] /\ buf[p][1] = c /\ c \in Artifacts /\ c # Hole
      <3>1. 1 \in 1 .. Len(buf[p])
        BY <2>1, <2>2, ChunksAssumption
      <3>2. buf[p][1] \in Artifacts
        BY <2>1, <3>1
      <3> QED BY <2>1, <2>2, <2>3, <3>1, <3>2, HoleAssumption
    <2>5. AcceptFlush(p, c)
      BY <1>6, <2>1, <2>3, <2>4, ChunksAssumption DEF ReadBody, AcceptAtEof, RejectFlush
    <2>6. SoloFiles'
      <3>1. \A q \in Procs, l \in Kinds : ~Writing(q, l)
        BY <1>1, <2>1 DEF Alone, Writing, Active, Stages
      <3> QED BY <1>1, <2>1, <3>1, FilesStaySolo
    <2> HIDE DEF c
    <2>7. \A i \in 1 .. pos[p] : Append(buf[p], c)[i] = c
      BY <2>1, <2>2, <2>4, AppendedFlush, ChunksAssumption
    <2>8. CASE pos[p] = Chunks
      <3>1. Obtain(p, Append(buf[p], c))
        BY <2>5, <2>8 DEF AcceptFlush
      <3>2. Append(buf[p], c) = Whole(c)
        <4>1. Append(buf[p], c) \in Seq(Flushes) /\ Len(Append(buf[p], c)) = Chunks
          BY <2>1, <2>2, <2>4, <2>8, ChunksAssumption DEF Flushes
        <4> QED BY <2>4, <2>7, <2>8, <4>1, WholeFile
      <3>3. ServedWhole'
        BY <1>1, <3>1, <3>2, ObtainWhole
      <3>4. pc'[p] \in {"input", "done"}
        BY <3>1 DEF Obtain, TypeOK
      <3>5. SoloWriter(p)' /\ SoloReader(p)' /\ SoloBuilder(p)'
        BY <3>4 DEF SoloWriter, SoloReader, SoloBuilder
      <3> QED BY <1>1, <2>1, <2>6, <3>3, <3>5, SoloStep
    <2>9. CASE pos[p] # Chunks
      <3>1. Advance(p, c)
        BY <2>5, <2>9 DEF AcceptFlush
      <3>2. /\ pos'[p] = pos[p] + 1 /\ buf'[p] = Append(buf[p], c) /\ pc' = pc
            /\ kind' = kind /\ served' = served
        BY <3>1 DEF Advance, TypeOK
      <3>3. Len(buf'[p]) = pos[p] /\ \A i \in 1 .. Len(buf'[p]) : buf'[p][i] = f[1]
        BY <2>1, <2>2, <2>4, <2>7, <3>2, AppendedFlush, ChunksAssumption
      <3>4. IsWhole(file[kind[p]])'
        BY <2>1, <2>2, <3>2 DEF IsWhole, Whole
      <3>5. SoloReader(p)'
        BY <2>1, <3>2, <3>3, <3>4, ChunksAssumption DEF SoloReader
      <3>6. SoloWriter(p)' /\ SoloBuilder(p)' /\ ServedWhole'
        BY <1>1, <2>1, <3>2, ServedStaysWhole DEF SoloWriter, SoloBuilder
      <3> QED BY <1>1, <2>1, <2>6, <3>5, <3>6, SoloStep
    <2> QED BY <2>8, <2>9
  <1>7. ASSUME NEW p \in Procs, OpenForWrite(p) PROVE SoloInv'
    <2>1. /\ file' = [file EXCEPT ![kind[p]] = <<>>] /\ served' = served /\ kind' = kind /\ pos' = pos
          /\ pc[p] = "build" /\ pc[p] \in Active /\ pc'[p] = "write"
          /\ \A q \in Procs \ {p} : pc'[q] = pc[q]
      BY <1>7 DEF OpenForWrite, TypeOK, Active, Stages
    <2>6. pos[p] = 1
      <3>1. pos[p] \in 1 .. Chunks /\ ~(pos[p] > 1)
        BY <1>1, <2>1 DEF BufferUse, TypeOK
      <3> QED BY <3>1, ChunksAssumption
    <2>2. SoloFiles'
      <3>1. \A k \in Kinds : file'[k] = file[k] \/ file'[k] = <<>>
        BY <2>1 DEF TypeOK
      <3>2. \A q \in Procs, k \in Kinds : ~Writing(q, k)
        BY <1>1, <2>1 DEF Alone, Writing, Active, Stages
      <3> QED BY <1>1, <3>1, <3>2, FilesStaySolo
    <2>3. ServedWhole' /\ SoloReader(p)' /\ SoloBuilder(p)'
      BY <1>1, <2>1, ServedStaysWhole DEF SoloReader, SoloBuilder
    <2>4. file'[kind'[p]] = <<>> /\ pos'[p] = 1
      BY <2>1, <2>6 DEF TypeOK
    <2>5. SoloWriter(p)'
      BY <2>4 DEF SoloWriter
    <2> QED BY <1>1, <2>1, <2>2, <2>3, <2>5, SoloStep
  <1>8. ASSUME NEW p \in Procs, WriteChunk(p) PROVE SoloInv'
    <2> DEFINE k == kind[p]
               f == file[k]
               g == Put(f, pos[p], Made(p))
    <2>1. /\ file' = [file EXCEPT ![k] = g] /\ UNCHANGED <<force, grammar, specs, sig>>
          /\ pc[p] = "write" /\ pc[p] \in Active /\ k \in Kinds /\ f \in Seq(Flushes)
          /\ pos[p] \in 1 .. Chunks /\ Made(p) \in Artifacts /\ Made(p) \in Flushes
      BY <1>8, MadeType DEF WriteChunk, TypeOK, Active, Stages, inputVars, Flushes
    <2>2. \A q \in Procs \ {p} : pc'[q] = pc[q]
      BY <1>8 DEF WriteChunk, Obtain, TypeOK
    <2>3. Len(f) = pos[p] - 1 /\ \A i \in 1 .. Len(f) : f[i] = Made(p)
      BY <1>1, <2>1 DEF SoloWriter
    <2>4. g \in Seq(Flushes) /\ Len(g) = pos[p] /\ \A i \in 1 .. Len(g) : g[i] = Made(p)
      <3> DEFINE a == Made(p)
                 i == pos[p]
      <3>1. a \in Flushes /\ f \in Seq(Flushes) /\ i \in 1 .. Chunks
        BY <2>1
      <3>2. Len(f) = i - 1 /\ \A j \in 1 .. Len(f) : f[j] = a
        BY <2>3
      <3> HIDE DEF a, i, f
      <3>3. /\ Put(f, i, a) \in Seq(Flushes) /\ Len(Put(f, i, a)) = IF i > Len(f) THEN i ELSE Len(f)
            /\ Put(f, i, a)[i] = a /\ \A j \in 1 .. Len(f) : j # i => Put(f, i, a)[j] = f[j]
        BY <3>1, PutProperties
      <3>4. Put(f, i, a) \in Seq(Flushes) /\ Len(Put(f, i, a)) = i
            /\ \A j \in 1 .. Len(Put(f, i, a)) : Put(f, i, a)[j] = a
        BY <3>1, <3>2, <3>3, ChunksAssumption
      <3> QED BY <3>4 DEF a, i, f
    <2> HIDE DEF g
    <2>5. file'[k] = g /\ \A l \in Kinds \ {k} : file'[l] = file[l]
      BY <2>1 DEF TypeOK
    <2>6. \A l \in Kinds \ {k} : file'[l] = <<>> \/ IsWhole(file'[l])
      <3>1. \A q \in Procs, l \in Kinds \ {k} : ~Writing(q, l)
        BY <1>1, <2>1 DEF Alone, Writing, Active, Stages
      <3> QED BY <1>1, <2>5, <3>1 DEF SoloFiles
    <2>7. CASE pos[p] = Chunks
      <3>1. Obtain(p, Whole(Made(p)))
        BY <1>8, <2>7 DEF WriteChunk
      <3>2. g = Whole(Made(p))
        BY <2>1, <2>4, <2>7, WholeFile
      <3>3. IsWhole(g)
        BY <3>2, WholeParts, ChunksAssumption DEF IsWhole
      <3>4. SoloFiles'
        BY <2>5, <2>6, <3>3, FilesAllSolo
      <3>5. pc'[p] \in {"input", "done"}
        BY <3>1 DEF Obtain, TypeOK
      <3>6. SoloWriter(p)' /\ SoloReader(p)' /\ SoloBuilder(p)'
        BY <3>5 DEF SoloWriter, SoloReader, SoloBuilder
      <3> QED BY <1>1, <2>1, <2>2, <3>1, <3>4, <3>6, ObtainWhole, SoloStep
    <2>8. CASE pos[p] # Chunks
      <3>1. /\ pos'[p] = pos[p] + 1 /\ pc' = pc /\ kind' = kind /\ served' = served
        BY <1>8, <2>8 DEF WriteChunk, TypeOK
      <3>2. SoloFiles' /\ ServedWhole'
        <4>1. Writing(p, k)'
          BY <2>1, <3>1 DEF Writing
        <4> QED BY <1>1, <2>6, <3>1, <4>1, FilesAllSolo, ServedStaysWhole
      <3>3. Made(p)' = Made(p) /\ file'[kind'[p]] = g
        BY <2>1, <2>5, <3>1 DEF Made, InputOf
      <3>4. SoloWriter(p)'
        BY <2>1, <2>4, <3>1, <3>3, ChunksAssumption DEF SoloWriter
      <3>5. SoloReader(p)' /\ SoloBuilder(p)'
        BY <2>1, <3>1 DEF SoloReader, SoloBuilder
      <3> QED BY <1>1, <2>1, <2>2, <3>2, <3>4, <3>5, SoloStep
    <2> QED BY <2>7, <2>8
  <1>9. CASE UNCHANGED vars
    <2>1. UNCHANGED <<file, pc, kind, force, grammar, specs, sig, pos, buf, served>>
      BY <1>9 DEF vars, inputVars
    <2>2. SoloFiles' /\ ServedWhole'
      BY <1>1, <2>1, FilesStaySolo, ServedStaysWhole DEF Writing
    <2>3. Alone' /\ \A p \in Procs : SoloWriter(p)'
      BY <1>1, <2>1 DEF Alone, SoloWriter, Made, InputOf
    <2>4. ASSUME NEW p \in Procs PROVE SoloReader(p)' /\ SoloBuilder(p)'
      <3>1. SoloReader(p) /\ SoloBuilder(p)
        BY <1>1
      <3>2. SoloReader(p)'
        BY <2>1, <3>1 DEF SoloReader, IsWhole, Whole
      <3>3. SoloBuilder(p)'
        BY <2>1, <3>1
           DEF SoloBuilder, UsableFor, IsWhole, Whole, HeaderMatches, Fingerprint, InputOf
      <3> QED BY <3>2, <3>3
    <2> QED BY <2>2, <2>3, <2>4 DEF SoloInv
  <1> QED BY <1>2, <1>3, <1>4, <1>5, <1>6, <1>7, <1>8, <1>9, SoloSteps DEF Step
-----------------------------------------------------------------------------
(* What the two invariants give.                                           *)

\* ServedCurrent: while runs follow one another and nothing fails, what a
\* process uses is complete and made of the input it holds.
THEOREM ServedCurrentHolds == Spec => []ServedCurrent
  <1>1. UseInv /\ SoloInv => ServedCurrent
    <2> SUFFICES ASSUME UseInv, SoloInv, history = {}, NEW p \in Procs, NEW k \in Kinds,
                        served[p][k] # <<>>
                 PROVE  IsWhole(served[p][k]) /\ served[p][k][1].src = InputOf(p, k)
      BY DEF ServedCurrent
    <2>1. IsWhole(served[p][k])
      BY DEF SoloInv, ServedWhole
    <2>2. 1 \in 1 .. Len(served[p][k])
      BY <2>1, WholeFlushes, ChunksAssumption
    <2> QED BY <2>1, <2>2 DEF UseInv, ServedPrefix
  <1> QED
    BY TypeInit, TypeNext, FingerprintInit, FingerprintNext, UseInit, UseNext, SoloInit, SoloNext,
       <1>1, PTL DEF Spec

\* RebuildOnlyWhenNeeded: while runs follow one another and nothing fails, the
\* tables are generated again only for a forced run or when the cache file is
\* not a complete one for the signature and the input of the process.
THEOREM RebuildsOnlyWhenNeeded == Spec => RebuildOnlyWhenNeeded
  <1> DEFINE Needed(p) == force[p] \/ history # {} \/ ~UsableFor(p, file[kind[p]])
  <1>1. ASSUME SoloInv, NEW p \in Procs, OpenForWrite(p) PROVE Needed(p)
    BY <1>1 DEF SoloInv, SoloBuilder, OpenForWrite
  <1>2. SoloInv /\ [Next]_vars => [\A p \in Procs : OpenForWrite(p) => Needed(p)]_vars
    BY <1>1
  <1> QED
    BY TypeInit, TypeNext, FingerprintInit, FingerprintNext, SoloInit, SoloNext, <1>2, PTL
       DEF Spec, RebuildOnlyWhenNeeded
-----------------------------------------------------------------------------
(* The cache files implement ArtifactCache when nothing fails and the       *)
(* sources change between runs only, however many runs overlap.  A          *)
(* truncation drops the abstract entry; a flush stores it when it makes the *)
(* file whole and drops it otherwise; the step that hands an artifact to    *)
(* the run is the load, and with it the last flush of a build.              *)

\* The abstract state.
Input  == [k \in Kinds |-> IF k = "parser" THEN text[k] ELSE binary]
Cached == [k \in Kinds |-> CachedSources(file[k])]
Held   == [p \in Procs |-> [k \in Kinds |-> SourcesIn(served[p][k])]]

\* A file that is not empty holds more than zero bytes.
Filled == \A k \in Kinds : file[k] # <<>> => \E i \in 1 .. Len(file[k]) : file[k][i] # Hole

\* All that the steps need.
RefinementInv == TypeOK /\ FingerprintInv /\ UseInv /\ NoRace /\ Filled

LEMMA AbstractAfter ==
    /\ Cached' = [k \in Kinds |-> CachedSources(file'[k])]
    /\ Held' = [p \in Procs |-> [k \in Kinds |-> SourcesIn(served'[p][k])]]
    /\ Input' = [k \in Kinds |-> IF k = "parser" THEN text'[k] ELSE binary']
  BY DEF Cached, Held, Input, CachedSources, SourcesIn, IsWhole, Whole

LEMMA CurrentIsInput == \A k \in Kinds : Current(k).src = Input[k]
  BY DEF Current, Input

\* A flush of the current artifact into a file of such flushes makes the file
\* whole or leaves it cut, and never cuts a whole one.
LEMMA PutCached ==
    ASSUME NEW f \in Seq(Flushes), NEW i \in 1 .. Chunks, NEW a \in Artifacts,
           \A j \in 1 .. Len(f) : f[j] \in {a, Hole},
           f # <<>> => \E j \in 1 .. Len(f) : f[j] # Hole
    PROVE  /\ CachedSources(Put(f, i, a)) \in {CachedSources(f), {a.src}}
           /\ CachedSources(Put(f, i, a)) \in {{}, {a.src}}
  <1> DEFINE g == Put(f, i, a)
  <1>1. /\ g \in Seq(Flushes) /\ Len(g) = (IF i > Len(f) THEN i ELSE Len(f)) /\ g[i] = a
        /\ \A j \in 1 .. Len(f) : j # i => g[j] = f[j]
    BY PutProperties DEF Flushes
  <1> HIDE DEF g
  <1>2. CASE IsWhole(g)
    <2>1. g[1] = a
      BY <1>1, <1>2, WholeFlushes
    <2> QED BY <1>2, <2>1 DEF CachedSources, g
  <1>3. CASE ~IsWhole(g)
    <2>1. ASSUME IsWhole(f) PROVE FALSE
      <3>1. Len(f) = Chunks /\ f # <<>> /\ \A j \in 1 .. Chunks : f[j] = f[1]
        BY <2>1, WholeFlushes DEF IsWhole
      <3>2. \A j \in 1 .. Chunks : f[j] = a
        BY <3>1
      <3>3. Len(g) = Chunks /\ \A j \in 1 .. Chunks : g[j] = a
        BY <1>1, <3>1, <3>2, ChunksAssumption
      <3>4. g = Whole(a)
        BY <1>1, <3>3, WholeFile
      <3> QED BY <1>3, <3>4, WholeParts, ChunksAssumption DEF IsWhole
    <2> QED BY <1>3, <2>1 DEF CachedSources, g
  <1> QED BY <1>2, <1>3

LEMMA FilledInit == Init => Filled
  BY DEF Init, Filled, Nothing

LEMMA FilledNext == TypeOK /\ Filled /\ [Next]_vars => Filled'
  <1> SUFFICES ASSUME TypeOK, Filled, [Next]_vars PROVE Filled'
    OBVIOUS
  <1>1. ASSUME NEW p \in Procs, WriteChunk(p) PROVE Filled'
    <2> DEFINE f == file[kind[p]]
               i == pos[p]
               a == Made(p)
    <2>1. /\ f \in Seq(Flushes) /\ i \in 1 .. Chunks /\ a \in Artifacts
          /\ file' = [file EXCEPT ![kind[p]] = Put(f, i, a)]
      BY <1>1, MadeType DEF WriteChunk, TypeOK
    <2> HIDE DEF f, i, a
    <2>2. /\ Put(f, i, a)[i] = a /\ Len(Put(f, i, a)) = (IF i > Len(f) THEN i ELSE Len(f))
          /\ Len(f) \in Nat
      BY <2>1, PutProperties DEF Flushes
    <2>3. i \in 1 .. Len(Put(f, i, a)) /\ Put(f, i, a)[i] # Hole
      BY <2>1, <2>2, HoleAssumption, ChunksAssumption
    <2> QED BY <2>1, <2>3 DEF Filled, TypeOK
  <1>2. ASSUME NEW p \in Procs, OpenForWrite(p) PROVE Filled'
    BY <1>2 DEF OpenForWrite, Filled, TypeOK
  <1>3. CASE file' = file
    BY <1>3 DEF Filled
  <1> QED
    BY <1>1, <1>2, <1>3
       DEF Next, QuietNext, Step, Fault, Developer, Start, LoadInput, TakeSignature, ReadHeader,
           ReadBody, Crash, DiskFull, IOFail, Edit, RebuildBinary, vars

LEMMA QuietNoRace == NoRace /\ [QuietNext]_vars => NoRace'
  BY DEF NoRace, QuietNext, Step, Developer, Start, LoadInput, TakeSignature, ReadHeader, ReadBody,
         OpenForWrite, WriteChunk, Edit, RebuildBinary, NoteUnlessIdle, vars, sourceVars

-----------------------------------------------------------------------------
LEMMA RefinementInit == Init => Abstract!Init
  <1> SUFFICES ASSUME Init PROVE Abstract!Init
    OBVIOUS
  <1>1. Input \in [Kinds -> Sources]
    BY DEF Init, Input, Kinds
  <1>2. Cached = [k \in Kinds |-> {}]
    BY DEF Init, Cached, CachedSources, IsWhole, Nothing
  <1>3. Held = [p \in Procs |-> [k \in Kinds |-> {}]]
    BY DEF Init, Held, SourcesIn, Nothing
  <1> QED BY <1>1, <1>2, <1>3 DEF Abstract!Init, Input, Cached, Held

LEMMA Untouched ==
    ASSUME UNCHANGED <<text, binary, file, served>>
    PROVE  UNCHANGED <<Input, Cached, Held>>
  BY AbstractAfter DEF Input, Cached, Held

\* The step that hands an artifact of the current input to a run is a load.
LEMMA LoadStep ==
    ASSUME TypeOK, NEW p \in Procs, NEW b, Obtain(p, b), SourcesIn(b) = {Input[kind[p]]},
           UNCHANGED <<text, binary>>,
           Cached' \in {Cached, [Cached EXCEPT ![kind[p]] = {Input[kind[p]]}]}
    PROVE  Abstract!Next
  <1> DEFINE k == kind[p]
  <1>1. k \in Kinds /\ served' = [served EXCEPT ![p][k] = b]
    BY DEF TypeOK, Obtain
  <1>2. Held' = [Held EXCEPT ![p][k] = {Input[k]}]
    <2>1. \A q \in Procs, l \in Kinds :
              served'[q][l] = IF q = p /\ l = k THEN b ELSE served[q][l]
      BY <1>1 DEF TypeOK
    <2>2. \A q \in Procs, l \in Kinds :
              SourcesIn(served'[q][l]) = IF q = p /\ l = k THEN {Input[k]} ELSE Held[q][l]
      BY <2>1 DEF Held
    <2>3. Held' = [q \in Procs |-> [l \in Kinds |->
                      IF q = p /\ l = k THEN {Input[k]} ELSE Held[q][l]]]
      BY <2>2, AbstractAfter
    <2> QED BY <2>3 DEF Held
  <1>3. Input' = Input
    BY AbstractAfter DEF Input
  <1>4. Abstract!Load(p, k)
    BY <1>2, <1>3 DEF Abstract!Load, Input, Cached, Held
  <1> QED BY <1>1, <1>4 DEF Abstract!Next

LEMMA RefinementNext ==
    RefinementInv /\ [QuietNext]_vars => [Abstract!Next]_(Abstract!vars)
  <1> SUFFICES ASSUME RefinementInv, [QuietNext]_vars, ~UNCHANGED <<Input, Cached, Held>>
               PROVE  Abstract!Next
    BY DEF Abstract!vars, Input, Cached, Held
  <1>1. TypeOK /\ InputsCurrent /\ FilesPure /\ BuffersCurrent /\ BufferUse /\ Filled
    BY DEF RefinementInv, UseInv, FingerprintInv
  <1>2. ASSUME NEW p \in Procs, Start(p) PROVE Abstract!Next
    <2>1. Input' = Input /\ Cached' = Cached
      BY <1>2, AbstractAfter DEF Start, Input, Cached
    <2>2. Held' = [Held EXCEPT ![p] = [k \in Kinds |-> {}]]
      <3>1. \A q \in Procs, k \in Kinds :
                served'[q][k] = IF q = p THEN <<>> ELSE served[q][k]
        BY <1>1, <1>2 DEF Start, Nothing, TypeOK
      <3>2. SourcesIn(<<>>) = {}
        BY DEF SourcesIn
      <3> QED BY <3>1, <3>2, AbstractAfter DEF Held
    <2>3. Abstract!Restart(p)
      BY <2>1, <2>2 DEF Abstract!Restart, Input, Cached, Held
    <2> QED BY <2>3 DEF Abstract!Next
  <1>3. ASSUME NEW p \in Procs, LoadInput(p) \/ TakeSignature(p) \/ ReadHeader(p) PROVE FALSE
    BY <1>3, Untouched DEF LoadInput, TakeSignature, ReadHeader, Advance, Miss, sourceVars
  <1>4. ASSUME NEW p \in Procs, ReadBody(p) PROVE Abstract!Next
    <2> DEFINE k == kind[p]
               f == file[k]
               c == f[pos[p]]
    <2>1. /\ UNCHANGED <<text, binary, file>> /\ pc[p] = "read" /\ pos[p] > 1
          /\ k \in Kinds /\ buf[p] \in Seq(Artifacts)
      BY <1>1, <1>4 DEF ReadBody, TypeOK, sourceVars
    <2>2. Cached' = Cached
      BY <2>1, AbstractAfter DEF Cached
    <2>3. ASSUME NEW b \in Seq(Artifacts), b # <<>>,
                 \A i \in 1 .. Len(b) : b[i] = Current(k)
          PROVE  SourcesIn(b) = {Input[k]}
      <3>1. 1 \in 1 .. Len(b)
        BY <2>3
      <3> QED BY <2>1, <2>3, <3>1, CurrentIsInput DEF SourcesIn
    <2>4. buf[p] # <<>> /\ \A i \in 1 .. Len(buf[p]) : buf[p][i] = Current(k)
      BY <1>1, <2>1 DEF RefinementInv, FingerprintInv, HeaderVouched, BuffersCurrent
    <2>5. CASE AcceptAtEof(p)
      BY <1>1, <2>1, <2>2, <2>3, <2>4, <2>5, LoadStep DEF AcceptAtEof
    <2>6. CASE Miss(p) \/ Advance(p, c)
      BY <2>1, <2>6, Untouched DEF Miss, Advance
    <2>7. CASE pos[p] <= Len(f) /\ AcceptFlush(p, c) /\ pos[p] = Chunks
      <3> DEFINE b == Append(buf[p], c)
      <3>1. c = Current(k) /\ c \in Artifacts /\ Obtain(p, b)
        BY <1>1, <1>4, <2>7, FlushRead DEF AcceptFlush
      <3> HIDE DEF c
      <3>2. b \in Seq(Artifacts) /\ b # <<>> /\ \A i \in 1 .. Len(b) : b[i] = Current(k)
        BY <2>1, <2>4, <3>1, AppendedFlush
      <3> HIDE DEF b
      <3>3. SourcesIn(b) = {Input[k]}
        BY <2>3, <3>2
      <3> QED BY <1>1, <2>1, <2>2, <3>1, <3>3, LoadStep
    <2> QED BY <1>4, <2>5, <2>6, <2>7 DEF ReadBody, RejectFlush, AcceptFlush
  <1>5. ASSUME NEW p \in Procs, OpenForWrite(p) PROVE Abstract!Next
    <2> DEFINE k == kind[p]
    <2>1. /\ UNCHANGED <<text, binary, served>> /\ k \in Kinds
          /\ \A l \in Kinds : file'[l] = IF l = k THEN <<>> ELSE file[l]
      BY <1>1, <1>5 DEF OpenForWrite, TypeOK, sourceVars
    <2>2. Input' = Input /\ Held' = Held
      BY <2>1, AbstractAfter DEF Input, Held
    <2>3. CachedSources(<<>>) = {}
      BY DEF CachedSources, IsWhole
    <2>4. Cached' = [Cached EXCEPT ![k] = {}]
      BY <2>1, <2>3, AbstractAfter DEF Cached
    <2>5. Abstract!Drop(k)
      BY <2>2, <2>4 DEF Abstract!Drop, Input, Cached, Held
    <2> QED BY <2>1, <2>5 DEF Abstract!Next
  <1>6. ASSUME NEW p \in Procs, WriteChunk(p) PROVE Abstract!Next
    <2> DEFINE k == kind[p]
               f == file[k]
               i == pos[p]
               a == Current(k)
               g == Put(f, i, a)
    <2>1. /\ UNCHANGED <<text, binary>> /\ pc[p] = "write" /\ k \in Kinds
          /\ f \in Seq(Flushes) /\ i \in 1 .. Chunks /\ a \in Artifacts /\ Made(p) = a
          /\ \A l \in Kinds : file'[l] = IF l = k THEN g ELSE file[l]
      BY <1>1, <1>6, MadeCurrent, CurrentType DEF WriteChunk, TypeOK, sourceVars
    <2>2. /\ \A j \in 1 .. Len(f) : f[j] \in {a, Hole}
          /\ f # <<>> => \E j \in 1 .. Len(f) : f[j] # Hole
      BY <1>1, <2>1 DEF FilesPure, Pure, Writing, Filled
    <2>3. a.src = Input[k]
      BY <2>1, CurrentIsInput
    <2>4. CachedSources(g) \in {CachedSources(f), {a.src}} /\ CachedSources(g) \in {{}, {a.src}}
      BY <2>1, <2>2, PutCached
    <2> HIDE DEF g
    <2>5. Cached' = [Cached EXCEPT ![k] = CachedSources(g)]
      BY <2>1, AbstractAfter DEF Cached
    <2>6. CASE i = Chunks
      <3>1. Obtain(p, Whole(a))
        BY <1>6, <2>1, <2>6 DEF WriteChunk
      <3>2. SourcesIn(Whole(a)) = {Input[k]}
        BY <2>3, WholeParts, ChunksAssumption DEF SourcesIn
      <3>3. Cached' \in {Cached, [Cached EXCEPT ![k] = {Input[k]}]}
        <4>1. CachedSources(g) = CachedSources(f) => Cached' = Cached
          BY <2>1, <2>5 DEF Cached
        <4> QED BY <2>3, <2>4, <2>5, <4>1
      <3> QED BY <1>1, <2>1, <3>1, <3>2, <3>3, LoadStep
    <2>7. CASE i # Chunks
      <3>1. Held' = Held /\ Input' = Input
        BY <1>6, <2>1, <2>7, AbstractAfter DEF WriteChunk, Held, Input
      <3>2. Cached' = [Cached EXCEPT ![k] = {}] \/ Cached' = [Cached EXCEPT ![k] = {Input[k]}]
        BY <2>3, <2>4, <2>5
      <3>3. Abstract!Drop(k) \/ Abstract!Store(k)
        BY <3>1, <3>2 DEF Abstract!Drop, Abstract!Store, Input, Cached, Held
      <3> QED BY <2>1, <3>3 DEF Abstract!Next
    <2> QED BY <2>6, <2>7
  <1>7. CASE AllIdle /\ Developer
    <2>1. UNCHANGED <<file, served>>
      BY <1>7 DEF Developer, Edit, RebuildBinary
    <2>2. Cached' = Cached /\ Held' = Held
      BY <2>1, AbstractAfter DEF Cached, Held
    <2>3. \E k \in Kinds, s \in Sources : Input' = [Input EXCEPT ![k] = s]
      <3>1. CASE Edit("parser")
        <4>1. PICK s \in Sources : text' = [text EXCEPT !["parser"] = s] /\ binary' = binary
          BY <3>1 DEF Edit
        <4>2. Input' = [Input EXCEPT !["parser"] = s]
          BY <1>1, <4>1, AbstractAfter DEF Input, TypeOK, Kinds
        <4> QED BY <4>2 DEF Kinds
      <3>2. CASE Edit("lexer")
        <4>1. text'["parser"] = text["parser"] /\ binary' = binary
          BY <1>1, <3>2 DEF Edit, TypeOK, Kinds
        <4>2. Input' = Input
          BY <4>1, AbstractAfter DEF Input
        <4> QED BY <2>2, <4>2
      <3>3. CASE RebuildBinary
        <4>1. text' = text /\ binary' \in Sources
          BY <1>1, <3>3 DEF RebuildBinary, TypeOK, Kinds
        <4>2. Input' = [Input EXCEPT !["lexer"] = binary']
          BY <4>1, AbstractAfter DEF Input, Kinds
        <4> QED BY <4>1, <4>2 DEF Kinds
      <3> QED BY <1>7, <3>1, <3>2, <3>3 DEF Developer, Kinds
    <2>4. PICK k \in Kinds : Abstract!Change(k)
      BY <2>2, <2>3 DEF Abstract!Change, Input, Cached, Held
    <2> QED BY <2>4 DEF Abstract!Next
  <1>8. CASE UNCHANGED vars
    BY <1>8, Untouched DEF vars, sourceVars
  <1> QED BY <1>2, <1>3, <1>4, <1>5, <1>6, <1>7, <1>8 DEF QuietNext, Step

\* ImplementsCache: while nothing fails and the sources change between runs
\* only, overlapping runs over files, signatures and partial states hand out
\* tables of the current input only, and only such tables are found complete
\* in the cache.
THEOREM CacheImplementsArtifactCache == QuietSpec => ImplementsCache
  <1>1. [QuietNext]_vars => [Next]_vars
    BY DEF Next
  <1>2. Init => NoRace
    BY DEF Init, NoRace
  <1>3. TypeOK /\ FingerprintInv /\ UseInv /\ NoRace /\ Filled => RefinementInv
    BY DEF RefinementInv
  <1>4. QuietSpec => []RefinementInv
    BY <1>1, <1>2, <1>3, TypeInit, TypeNext, FingerprintInit, FingerprintNext, UseInit, UseNext,
       FilledInit, FilledNext, QuietNoRace, PTL DEF QuietSpec
  <1> QED
    BY <1>4, RefinementInit, RefinementNext, PTL DEF QuietSpec, ImplementsCache, Abstract!Spec
=============================================================================
