------------------------ MODULE FrontendCacheProofs ------------------------
(***************************************************************************)
(* Proofs about FrontendCache, for any processes, source texts, file       *)
(* length and bounds.                                                      *)
(***************************************************************************)
EXTENDS FrontendCache, TLAPS

-----------------------------------------------------------------------------
(* The operators on files.                                                 *)

\* Every flush position of a non-empty file of flushes holds a flush.
LEMMA FlushInFile ==
    ASSUME NEW S, NEW f \in Seq(S), NEW i \in 1 .. Len(f)
    PROVE  f[i] \in S
  OBVIOUS

LEMMA NonEmptyFile ==
    ASSUME NEW S, NEW f \in Seq(S), f # <<>>
    PROVE  Len(f) \in Nat /\ Len(f) >= 1 /\ f[1] \in S
  OBVIOUS

\* Put returns a file, at least as long as before, with the flush in place and
\* every other flush kept.
LEMMA PutProperties ==
    ASSUME NEW f \in Seq(Flushes), NEW i \in 1 .. Chunks, NEW a \in Flushes
    PROVE  /\ Put(f, i, a) \in Seq(Flushes)
           /\ Len(Put(f, i, a)) = IF i > Len(f) THEN i ELSE Len(f)
           /\ Put(f, i, a)[i] = a
           /\ \A j \in 1 .. Len(f) : j # i => Put(f, i, a)[j] = f[j]
  <1> DEFINE n == IF i > Len(f) THEN i ELSE Len(f)
  <1>1. n \in Nat /\ i \in 1 .. n /\ Len(f) <= n
    BY ChunksAssumption
  <1>2. \A j \in 1 .. n :
          (IF j = i THEN a ELSE IF j <= Len(f) THEN f[j] ELSE Hole) \in Flushes
    <2> TAKE j \in 1 .. n
    <2>1. j <= Len(f) => f[j] \in Flushes
      BY <1>1, FlushInFile
    <2> QED BY <2>1 DEF Flushes
  <1>3. Put(f, i, a) \in [1 .. n -> Flushes]
    BY <1>2 DEF Put
  <1>4. Put(f, i, a) \in Seq(Flushes) /\ Len(Put(f, i, a)) = n
    BY <1>1, <1>3
  <1>5. Put(f, i, a)[i] = a
    BY <1>1 DEF Put
  <1>6. \A j \in 1 .. Len(f) : j # i => Put(f, i, a)[j] = f[j]
    BY <1>1 DEF Put
  <1> QED BY <1>4, <1>5, <1>6

LEMMA WholeType ==
    ASSUME NEW a \in Artifacts
    PROVE  /\ Whole(a) \in Seq(Artifacts)
           /\ Len(Whole(a)) = Chunks
           /\ Whole(a) # <<>>
           /\ \A i \in 1 .. Chunks : Whole(a)[i] = a
  <1>1. Whole(a) \in [1 .. Chunks -> Artifacts]
    BY DEF Whole
  <1>2. Whole(a) \in Seq(Artifacts) /\ Len(Whole(a)) = Chunks
    BY <1>1, ChunksAssumption
  <1>3. Whole(a) # <<>>
    BY <1>2, ChunksAssumption
  <1> QED BY <1>2, <1>3 DEF Whole

-----------------------------------------------------------------------------
(* Types.                                                                  *)

LEMMA MadeType ==
    ASSUME TypeOK, NEW p \in Procs
    PROVE  Made(p) \in Artifacts
  BY DEF TypeOK, Made, InputOf, Artifacts

LEMMA ObtainType ==
    ASSUME TypeOK, NEW p \in Procs, NEW b \in Seq(Artifacts), Obtain(p, b)
    PROVE  /\ served' \in [Procs -> [Kinds -> Seq(Artifacts)]]
           /\ pc' \in [Procs -> Stages]
           /\ kind' \in [Procs -> Kinds]
           /\ pos' \in [Procs -> 1 .. Chunks]
           /\ buf' \in [Procs -> Seq(Artifacts)]
  BY ChunksAssumption DEF TypeOK, Obtain, Stages, Kinds

LEMMA MissType ==
    ASSUME TypeOK, NEW p \in Procs, Miss(p)
    PROVE  /\ served' \in [Procs -> [Kinds -> Seq(Artifacts)]]
           /\ pc' \in [Procs -> Stages]
           /\ kind' \in [Procs -> Kinds]
           /\ pos' \in [Procs -> 1 .. Chunks]
           /\ buf' \in [Procs -> Seq(Artifacts)]
  BY ChunksAssumption DEF TypeOK, Miss, Stages

LEMMA AdvanceType ==
    ASSUME TypeOK, NEW p \in Procs, NEW c \in Artifacts, Advance(p, c),
           pos[p] # Chunks
    PROVE  /\ served' \in [Procs -> [Kinds -> Seq(Artifacts)]]
           /\ pc' \in [Procs -> Stages]
           /\ kind' \in [Procs -> Kinds]
           /\ pos' \in [Procs -> 1 .. Chunks]
           /\ buf' \in [Procs -> Seq(Artifacts)]
  <1>1. pos[p] + 1 \in 1 .. Chunks
    BY ChunksAssumption DEF TypeOK
  <1>2. Append(buf[p], c) \in Seq(Artifacts)
    BY DEF TypeOK
  <1> QED BY <1>1, <1>2 DEF TypeOK, Advance

LEMMA HistoryType ==
    ASSUME TypeOK, NEW what \in Incidents, Note(what) \/ NoteUnlessIdle(what)
    PROVE  history' \subseteq Incidents
  BY DEF TypeOK, Note, NoteUnlessIdle

LEMMA TypeInit == Init => TypeOK
  BY ChunksAssumption, BoundsAssumption
     DEF Init, TypeOK, Nothing, Stages, Stamps, Kinds

\* Every action of the processes, the faults and the developer keeps every
\* variable in its type.
LEMMA TypeNext == TypeOK /\ [Next]_vars => TypeOK'
  <1> SUFFICES ASSUME TypeOK, [Next]_vars PROVE TypeOK'
    OBVIOUS
  <1>1. ASSUME NEW p \in Procs, Start(p) PROVE TypeOK'
    <2>1. history' \subseteq Incidents
      BY <1>1, HistoryType DEF Start, Incidents
    <2> QED
      BY <1>1, <2>1, ChunksAssumption, BoundsAssumption
         DEF TypeOK, Start, Stages, Kinds, Nothing
  <1>2. ASSUME NEW p \in Procs, LoadInput(p) PROVE TypeOK'
    BY <1>2 DEF TypeOK, LoadInput, Stages, Kinds, sourceVars
  <1>3. ASSUME NEW p \in Procs, TakeSignature(p) PROVE TypeOK'
    BY <1>3 DEF TypeOK, TakeSignature, Stages, sourceVars
  <1>4. ASSUME NEW p \in Procs, ReadHeader(p) PROVE TypeOK'
    <2> DEFINE f == file[kind[p]]
    <2>1. f \in Seq(Flushes) /\ pos[p] = 1 /\ pos[p] # Chunks
      BY <1>4, ChunksAssumption DEF TypeOK, ReadHeader
    <2>2. UNCHANGED <<sourceVars, file, inputVars, starts>>
      BY <1>4 DEF ReadHeader
    <2>3. CASE f # <<>> /\ HeaderMatches(p, f[1])
      <3>1. f[1] \in Artifacts /\ Advance(p, f[1])
        BY <1>4, <2>1, <2>3, NonEmptyFile
           DEF ReadHeader, HeaderMatches, Flushes
      <3> QED BY <3>1, <2>1, <2>2, AdvanceType DEF TypeOK, sourceVars, inputVars
    <2>4. CASE ~(f # <<>> /\ HeaderMatches(p, f[1]))
      <3>1. Miss(p)
        BY <1>4, <2>4 DEF ReadHeader
      <3> QED BY <3>1, <2>2, MissType DEF TypeOK, sourceVars, inputVars
    <2> QED BY <2>3, <2>4
  <1>5. ASSUME NEW p \in Procs, ReadBody(p) PROVE TypeOK'
    <2> DEFINE f == file[kind[p]]
               c == f[pos[p]]
    <2>1. UNCHANGED <<sourceVars, file, inputVars, starts>>
      BY <1>5 DEF ReadBody
    <2>2. CASE AcceptAtEof(p)
      <3>1. buf[p] \in Seq(Artifacts) /\ Obtain(p, buf[p])
        BY <2>2 DEF TypeOK, AcceptAtEof
      <3> QED BY <3>1, <2>1, ObtainType DEF TypeOK, sourceVars, inputVars
    <2>3. CASE pos[p] <= Len(f) /\ RejectFlush(p, c)
      BY <2>1, <2>3, MissType DEF RejectFlush, TypeOK, sourceVars, inputVars
    <2>4. CASE pos[p] <= Len(f) /\ AcceptFlush(p, c)
      <3>1. f \in Seq(Flushes) /\ pos[p] \in 1 .. Len(f)
        BY <2>4, ChunksAssumption DEF TypeOK
      <3>2. c \in Artifacts
        BY <3>1, <2>4, FlushInFile DEF AcceptFlush, Flushes
      <3>3. CASE pos[p] = Chunks
        <4>1. Append(buf[p], c) \in Seq(Artifacts) /\ Obtain(p, Append(buf[p], c))
          BY <3>2, <3>3, <2>4 DEF TypeOK, AcceptFlush
        <4> QED BY <4>1, <2>1, ObtainType DEF TypeOK, sourceVars, inputVars
      <3>4. CASE pos[p] # Chunks
        <4>1. Advance(p, c)
          BY <3>4, <2>4 DEF AcceptFlush
        <4> QED BY <4>1, <3>2, <3>4, <2>1, AdvanceType
                DEF TypeOK, sourceVars, inputVars
      <3> QED BY <3>3, <3>4
    <2> QED BY <1>5, <2>2, <2>3, <2>4 DEF ReadBody
  <1>6. ASSUME NEW p \in Procs, OpenForWrite(p) PROVE TypeOK'
    BY <1>6 DEF TypeOK, OpenForWrite, Stages, sourceVars, inputVars
  <1>7. ASSUME NEW p \in Procs, WriteChunk(p) PROVE TypeOK'
    <2>1. file' \in [Kinds -> Seq(Flushes)]
      <3>1. Made(p) \in Flushes /\ file[kind[p]] \in Seq(Flushes)
                /\ pos[p] \in 1 .. Chunks
        BY MadeType DEF TypeOK, Flushes
      <3>2. Put(file[kind[p]], pos[p], Made(p)) \in Seq(Flushes)
        BY <3>1, PutProperties
      <3> QED BY <1>7, <3>2 DEF TypeOK, WriteChunk
    <2>2. UNCHANGED <<sourceVars, inputVars, starts>>
      BY <1>7 DEF WriteChunk
    <2>3. CASE pos[p] = Chunks
      <3>1. Whole(Made(p)) \in Seq(Artifacts) /\ Obtain(p, Whole(Made(p)))
        BY <1>7, <2>3, MadeType, WholeType DEF WriteChunk
      <3> QED BY <3>1, <2>1, <2>2, ObtainType DEF TypeOK, sourceVars, inputVars
    <2>4. CASE pos[p] # Chunks
      <3>1. pos[p] + 1 \in 1 .. Chunks
        BY <2>4, ChunksAssumption DEF TypeOK
      <3>2. pos' \in [Procs -> 1 .. Chunks] /\ UNCHANGED <<pc, kind, buf, served>>
        BY <1>7, <2>4, <3>1 DEF TypeOK, WriteChunk
      <3> QED BY <2>1, <2>2, <3>2 DEF TypeOK, sourceVars, inputVars
    <2> QED BY <2>3, <2>4
  <1>8. ASSUME NEW p \in Procs, Crash(p) PROVE TypeOK'
    <2>1. history' \subseteq Incidents
      BY <1>8, HistoryType DEF Crash, Incidents
    <2> QED
      BY <1>8, <2>1, ChunksAssumption
         DEF TypeOK, Crash, Stages, Nothing, inputVars
  <1>9. ASSUME NEW p \in Procs, DiskFull(p) PROVE TypeOK'
    <2>1. Whole(Made(p)) \in Seq(Artifacts) /\ Obtain(p, Whole(Made(p)))
      BY <1>9, MadeType, WholeType DEF DiskFull
    <2>2. history' \subseteq Incidents
      BY <1>9, HistoryType DEF DiskFull, Incidents
    <2> QED BY <2>1, <2>2, <1>9, ObtainType DEF TypeOK, DiskFull, inputVars
  <1>10. ASSUME NEW p \in Procs, IOFail(p) PROVE TypeOK'
    <2>1. history' \subseteq Incidents
      BY <1>10, HistoryType DEF IOFail, Incidents
    <2> QED BY <1>10, <2>1 DEF TypeOK, IOFail, Stages, inputVars
  <1>11. ASSUME NEW k \in Kinds, Edit(k) PROVE TypeOK'
    <2>1. stamp[k] + 1 \in Stamps
      BY <1>11, BoundsAssumption DEF TypeOK, Edit, Stamps, Kinds
    <2>2. text' \in [Kinds -> Sources] /\ stamp' \in [Kinds -> Stamps]
      BY <1>11, <2>1 DEF TypeOK, Edit
    <2>3. history' \subseteq Incidents
      BY <1>11, HistoryType DEF Edit, Incidents
    <2> QED BY <1>11, <2>2, <2>3 DEF TypeOK, Edit, inputVars
  <1>12. CASE RebuildBinary
    <2>1. history' \subseteq Incidents
      BY <1>12, HistoryType DEF RebuildBinary, Incidents
    <2> QED BY <1>12, <2>1 DEF TypeOK, RebuildBinary, Kinds, inputVars
  <1>13. CASE UNCHANGED vars
    BY <1>13 DEF TypeOK, vars, sourceVars, inputVars
  <1> QED
    BY <1>1, <1>2, <1>3, <1>4, <1>5, <1>6, <1>7, <1>8, <1>9, <1>10, <1>11,
       <1>12, <1>13
       DEF Next, QuietNext, Step, Fault, Developer

\* Type correctness of the whole system: crashes, full disks, edits and
\* overlapping runs included.
THEOREM TypeCorrect == Spec => []TypeOK
  BY TypeInit, TypeNext, PTL DEF Spec

-----------------------------------------------------------------------------
(* FingerprintHolds.  What a process uses was vouched for when its header   *)
(* was read; it still is when the rest has been read because the header     *)
(* flush stays first in the buffer and the input the process holds does not *)
(* change while it works with the artifact.                                 *)

\* A read under way has a header that matched the input of the process.
HeaderVouched ==
    \A p \in Procs :
        pc[p] = "read" /\ pos[p] > 1 =>
            /\ buf[p] # <<>>
            /\ Fingerprint(kind[p], buf[p][1].src)
                 = Fingerprint(kind[p], InputOf(p, kind[p]))

\* A process that has its parser tables is past the only step that changes the
\* grammar it holds.
ParserFirst ==
    \A p \in Procs : served[p]["parser"] # <<>> => kind[p] = "lexer"

\* Only a read past its header has anything in the buffer, only a read or a
\* write is past its first flush.
BufferUse ==
    \A p \in Procs :
        /\ buf[p] # <<>> => pc[p] = "read" /\ pos[p] > 1
        /\ pos[p] > 1 => pc[p] \in {"read", "write"}

FingerprintInv ==
    HeaderVouched /\ ParserFirst /\ BufferUse /\ FingerprintHolds

LEMMA FingerprintInit == Init => FingerprintInv
  BY DEF Init, FingerprintInv, HeaderVouched, ParserFirst, BufferUse,
         FingerprintHolds, Nothing, Kinds

LEMMA ObtainVouched ==
    ASSUME TypeOK, FingerprintInv, NEW p \in Procs, NEW b \in Seq(Artifacts),
           b # <<>> => Fingerprint(kind[p], b[1].src)
                         = Fingerprint(kind[p], InputOf(p, kind[p])),
           Obtain(p, b), UNCHANGED <<grammar, specs>>
    PROVE  FingerprintInv'
  <1>1. HeaderVouched'
    BY DEF TypeOK, FingerprintInv, HeaderVouched, Obtain, InputOf
  <1>2. ParserFirst' /\ BufferUse'
    BY DEF TypeOK, FingerprintInv, ParserFirst, BufferUse, Obtain, Kinds
  <1>3. FingerprintHolds'
    <2> SUFFICES ASSUME NEW q \in Procs, NEW k \in Kinds, served'[q][k] # <<>>
                 PROVE  Fingerprint(k, served'[q][k][1].src)
                          = Fingerprint(k, InputOf(q, k))
      BY DEF FingerprintHolds, InputOf
    <2>1. CASE q = p /\ k = kind[p]
      BY <2>1 DEF TypeOK, Obtain
    <2>2. CASE ~(q = p /\ k = kind[p])
      <3>1. served'[q][k] = served[q][k]
        BY <2>2 DEF TypeOK, Obtain
      <3> QED BY <3>1 DEF FingerprintInv, FingerprintHolds
    <2> QED BY <2>1, <2>2
  <1> QED BY <1>1, <1>2, <1>3 DEF FingerprintInv

\* A step that leaves what processes use and hold alone, and starts no read of
\* a body, keeps the invariant.
LEMMA NothingObtained ==
    ASSUME TypeOK, FingerprintInv, UNCHANGED <<kind, grammar, specs, served>>,
           \A q \in Procs :
               pc'[q] = "read" /\ pos'[q] > 1 =>
                   pc[q] = "read" /\ pos[q] > 1 /\ buf'[q] = buf[q],
           \A q \in Procs :
               /\ buf'[q] # <<>> => buf[q] # <<>> /\ pc'[q] = "read" /\ pos'[q] > 1
               /\ pos'[q] > 1 => pc'[q] \in {"read", "write"}
    PROVE  FingerprintInv'
  BY DEF FingerprintInv, HeaderVouched, ParserFirst, BufferUse,
         FingerprintHolds, InputOf

LEMMA MissVouched ==
    ASSUME TypeOK, FingerprintInv, NEW p \in Procs, Miss(p),
           UNCHANGED <<grammar, specs>>
    PROVE  FingerprintInv'
  <1>1. \A q \in Procs : pc'[q] = "read" /\ pos'[q] > 1 =>
            pc[q] = "read" /\ pos[q] > 1 /\ buf'[q] = buf[q]
    BY DEF TypeOK, Miss
  <1>2. \A q \in Procs :
            /\ buf'[q] # <<>> => buf[q] # <<>> /\ pc'[q] = "read" /\ pos'[q] > 1
            /\ pos'[q] > 1 => pc'[q] \in {"read", "write"}
    BY DEF TypeOK, Miss, FingerprintInv, BufferUse
  <1> QED BY <1>1, <1>2, NothingObtained DEF Miss

LEMMA AdvanceVouched ==
    ASSUME TypeOK, FingerprintInv, NEW p \in Procs, NEW c \in Artifacts,
           pc[p] = "read", Advance(p, c), UNCHANGED <<grammar, specs>>,
           \/ pos[p] > 1
           \/ /\ buf[p] = <<>>
              /\ Fingerprint(kind[p], c.src)
                   = Fingerprint(kind[p], InputOf(p, kind[p]))
    PROVE  FingerprintInv'
  <1> DEFINE b == Append(buf[p], c)
  <1>1. /\ b # <<>>
        /\ Fingerprint(kind[p], b[1].src)
             = Fingerprint(kind[p], InputOf(p, kind[p]))
    <2>1. buf[p] \in Seq(Artifacts)
      BY DEF TypeOK
    <2>2. CASE buf[p] = <<>>
      <3>1. b = <<c>>
        BY <2>1, <2>2
      <3> QED BY <3>1, <2>2 DEF FingerprintInv, HeaderVouched
    <2>3. CASE buf[p] # <<>>
      <3>1. b # <<>> /\ b[1] = buf[p][1]
        BY <2>1, <2>3
      <3> QED BY <3>1, <2>3 DEF FingerprintInv, HeaderVouched
    <2> QED BY <2>2, <2>3
  <1>2. /\ buf'[p] = b
        /\ \A q \in Procs \ {p} : pos'[q] = pos[q] /\ buf'[q] = buf[q]
        /\ UNCHANGED <<pc, kind, served>>
    BY DEF TypeOK, Advance
  <1>3. HeaderVouched'
    BY <1>1, <1>2 DEF FingerprintInv, HeaderVouched, InputOf
  <1>4. ParserFirst' /\ FingerprintHolds'
    BY <1>2 DEF FingerprintInv, ParserFirst, FingerprintHolds, InputOf
  <1>5. BufferUse'
    BY <1>2 DEF FingerprintInv, BufferUse, TypeOK, Advance
  <1> QED BY <1>3, <1>4, <1>5 DEF FingerprintInv

LEMMA MadeObtained ==
    ASSUME TypeOK, FingerprintInv, NEW p \in Procs, Obtain(p, Whole(Made(p))),
           UNCHANGED <<grammar, specs>>
    PROVE  FingerprintInv'
  <1>1. /\ Whole(Made(p)) \in Seq(Artifacts)
        /\ Whole(Made(p))[1].src = InputOf(p, kind[p])
    <2>1. Made(p) \in Artifacts /\ 1 \in 1 .. Chunks
      BY MadeType, ChunksAssumption
    <2> QED BY <2>1, WholeType DEF Made
  <1> QED BY <1>1, ObtainVouched

\* No step of a process, fault or edit breaks the invariant.
LEMMA FingerprintNext ==
    TypeOK /\ FingerprintInv /\ [Next]_vars => FingerprintInv'
  <1> SUFFICES ASSUME TypeOK, FingerprintInv, [Next]_vars PROVE FingerprintInv'
    OBVIOUS
  <1>1. ASSUME NEW p \in Procs, Start(p) PROVE FingerprintInv'
    BY <1>1 DEF TypeOK, Start, FingerprintInv, HeaderVouched, ParserFirst,
                BufferUse, FingerprintHolds, InputOf, Nothing, Kinds
  <1>2. ASSUME NEW p \in Procs, LoadInput(p) PROVE FingerprintInv'
    <2>1. HeaderVouched' /\ ParserFirst' /\ BufferUse'
      BY <1>2 DEF TypeOK, LoadInput, FingerprintInv, HeaderVouched, ParserFirst,
                  BufferUse, InputOf
    <2>2. ASSUME NEW q \in Procs, NEW k \in Kinds, served'[q][k] # <<>>
          PROVE  InputOf(q, k)' = InputOf(q, k)
      BY <1>2, <2>2 DEF TypeOK, LoadInput, FingerprintInv, ParserFirst,
                        InputOf, Kinds
    <2>3. FingerprintHolds'
      BY <1>2, <2>2 DEF LoadInput, FingerprintInv, FingerprintHolds
    <2> QED BY <2>1, <2>3 DEF FingerprintInv
  <1>3. ASSUME NEW p \in Procs, TakeSignature(p) PROVE FingerprintInv'
    BY <1>3 DEF TypeOK, TakeSignature, FingerprintInv, HeaderVouched,
                ParserFirst, BufferUse, FingerprintHolds, InputOf
  <1>4. ASSUME NEW p \in Procs, ReadHeader(p) PROVE FingerprintInv'
    <2> DEFINE f == file[kind[p]]
    <2>1. f \in Seq(Flushes) /\ UNCHANGED <<grammar, specs>>
      BY <1>4 DEF TypeOK, ReadHeader, inputVars
    <2>2. CASE f # <<>> /\ HeaderMatches(p, f[1])
      <3>1. f[1] \in Artifacts /\ Advance(p, f[1]) /\ pc[p] = "read"
        BY <1>4, <2>1, <2>2, NonEmptyFile
           DEF ReadHeader, HeaderMatches, Flushes
      <3>2. buf[p] = <<>>
        BY <1>4 DEF ReadHeader, FingerprintInv, BufferUse
      <3> QED BY <2>1, <2>2, <3>1, <3>2, AdvanceVouched DEF HeaderMatches
    <2>3. CASE ~(f # <<>> /\ HeaderMatches(p, f[1]))
      BY <1>4, <2>1, <2>3, MissVouched DEF ReadHeader
    <2> QED BY <2>2, <2>3
  <1>5. ASSUME NEW p \in Procs, ReadBody(p) PROVE FingerprintInv'
    <2> DEFINE f == file[kind[p]]
               c == f[pos[p]]
    <2>1. /\ UNCHANGED <<grammar, specs>>
          /\ pc[p] = "read" /\ pos[p] > 1
          /\ buf[p] \in Seq(Artifacts) /\ buf[p] # <<>>
          /\ Fingerprint(kind[p], buf[p][1].src)
               = Fingerprint(kind[p], InputOf(p, kind[p]))
      BY <1>5 DEF TypeOK, ReadBody, inputVars, FingerprintInv, HeaderVouched
    <2>2. CASE AcceptAtEof(p)
      BY <2>1, <2>2, ObtainVouched DEF AcceptAtEof
    <2>3. CASE pos[p] <= Len(f) /\ RejectFlush(p, c)
      BY <2>1, <2>3, MissVouched DEF RejectFlush
    <2>4. CASE pos[p] <= Len(f) /\ AcceptFlush(p, c)
      <3>1. f \in Seq(Flushes) /\ pos[p] \in 1 .. Len(f)
        BY <2>4, ChunksAssumption DEF TypeOK
      <3>2. c \in Artifacts
        BY <3>1, <2>4, FlushInFile DEF AcceptFlush, Flushes
      <3>3. CASE pos[p] = Chunks
        <4> DEFINE b == Append(buf[p], c)
        <4>1. b \in Seq(Artifacts) /\ b[1] = buf[p][1]
          BY <2>1, <3>2
        <4>2. Obtain(p, b)
          BY <2>4, <3>3 DEF AcceptFlush
        <4> QED BY <2>1, <4>1, <4>2, ObtainVouched
      <3>4. CASE pos[p] # Chunks
        BY <2>1, <2>4, <3>2, <3>4, AdvanceVouched DEF AcceptFlush
      <3> QED BY <3>3, <3>4
    <2> QED BY <1>5, <2>2, <2>3, <2>4 DEF ReadBody
  <1>6. ASSUME NEW p \in Procs, OpenForWrite(p) PROVE FingerprintInv'
    BY <1>6, NothingObtained
       DEF OpenForWrite, TypeOK, inputVars, FingerprintInv, BufferUse
  <1>7. ASSUME NEW p \in Procs, WriteChunk(p) PROVE FingerprintInv'
    <2>1. UNCHANGED <<grammar, specs>> /\ pc[p] = "write"
      BY <1>7 DEF WriteChunk, inputVars
    <2>2. CASE pos[p] = Chunks
      BY <1>7, <2>1, <2>2, MadeObtained DEF WriteChunk
    <2>3. CASE pos[p] # Chunks
      BY <1>7, <2>1, <2>3, NothingObtained
         DEF WriteChunk, TypeOK, FingerprintInv, BufferUse
    <2> QED BY <2>2, <2>3
  <1>8. ASSUME NEW p \in Procs, Crash(p) PROVE FingerprintInv'
    BY <1>8 DEF TypeOK, Crash, inputVars, FingerprintInv, HeaderVouched,
                ParserFirst, BufferUse, FingerprintHolds, InputOf, Nothing,
                Kinds
  <1>9. ASSUME NEW p \in Procs, DiskFull(p) PROVE FingerprintInv'
    BY <1>9, MadeObtained DEF DiskFull, inputVars
  <1>10. ASSUME NEW p \in Procs, IOFail(p) PROVE FingerprintInv'
    BY <1>10, NothingObtained
       DEF IOFail, TypeOK, inputVars, FingerprintInv, BufferUse
  <1>11. CASE Developer \/ UNCHANGED vars
    BY <1>11, NothingObtained
       DEF Developer, Edit, RebuildBinary, vars, inputVars, FingerprintInv,
           BufferUse
  <1> QED
    BY <1>1, <1>2, <1>3, <1>4, <1>5, <1>6, <1>7, <1>8, <1>9, <1>10, <1>11
       DEF Next, QuietNext, Step, Fault

\* Whatever crashes, overlaps or is edited, the header flush of an artifact a
\* process uses has the fingerprint of the input the process holds.
THEOREM FingerprintsHold == Spec => []FingerprintHolds
  <1>1. FingerprintInv => FingerprintHolds
    BY DEF FingerprintInv
  <1> QED
    BY TypeInit, TypeNext, FingerprintInit, FingerprintNext, <1>1, PTL DEF Spec

-----------------------------------------------------------------------------
(* QuiescentWhole, when nothing fails and edits wait for the runs to end.   *)
(* All writers of one cache file write the same artifact, so a file can     *)
(* only be incomplete where the last writer that truncated it has still to  *)
(* go; what nobody writes may be of an earlier text.                        *)

\* The one artifact of kind k while the sources stay as they are.
Current(k) ==
    [sig |-> stamp[k], src |-> IF k = "parser" THEN text["parser"] ELSE binary]

InputsCurrent ==
    \A p \in Procs :
        /\ pc[p] \in Active => specs[p] = binary
        /\ pc[p] \in Active \ {"input"} /\ kind[p] = "parser" =>
              grammar[p] = text["parser"]
        /\ pc[p] \in {"read", "build", "write"} => sig[p] = stamp[kind[p]]

Writing(p, k) == pc[p] = "write" /\ kind[p] = k

\* Process p is writing the file and everything before its position is there.
Repairing(p, k) ==
    /\ Writing(p, k)
    /\ \A j \in 1 .. Chunks :
          j < pos[p] => j <= Len(file[k]) /\ file[k][j] = Current(k)

Settled(k) ==
    /\ file[k] = <<>> \/ \E a \in Artifacts : file[k] = Whole(a)
    /\ \A p \in Procs : ~Writing(p, k)

FileRepaired(k) ==
    /\ Len(file[k]) <= Chunks
    /\ \/ file[k] = Whole(Current(k))
       \/ Settled(k)
       \/ \E p \in Procs : Repairing(p, k)

QuietInv == InputsCurrent /\ \A k \in Kinds : FileRepaired(k)

LEMMA QuietInit == Init => QuietInv
  BY ChunksAssumption
     DEF Init, QuietInv, InputsCurrent, FileRepaired, Settled, Writing, Nothing, Active,
         Stages, Kinds

LEMMA CurrentType == TypeOK => \A k \in Kinds : Current(k) \in Artifacts
  BY DEF TypeOK, Current, Artifacts, Kinds

LEMMA MadeCurrent ==
    ASSUME TypeOK, InputsCurrent, NEW p \in Procs, pc[p] = "write"
    PROVE  Made(p) = Current(kind[p])
  BY DEF TypeOK, InputsCurrent, Made, Current, InputOf, Active, Stages, Kinds

\* A file of the right length with the same flush everywhere is whole.
LEMMA WholeFile ==
    ASSUME NEW f \in Seq(Flushes), NEW a \in Artifacts, Len(f) = Chunks,
           \A j \in 1 .. Chunks : f[j] = a
    PROVE  f = Whole(a)
  <1>1. f \in [1 .. Chunks -> Flushes]
    BY ChunksAssumption
  <1> QED BY <1>1 DEF Whole

LEMMA InputsNext ==
    TypeOK /\ InputsCurrent /\ [QuietNext]_vars => InputsCurrent'
  <1> SUFFICES ASSUME TypeOK, InputsCurrent, [QuietNext]_vars
               PROVE  InputsCurrent'
    OBVIOUS
  <1> USE DEF TypeOK, InputsCurrent, Active, Stages, Kinds, sourceVars, inputVars
  <1>1. ASSUME NEW p \in Procs, Start(p) PROVE InputsCurrent'
    BY <1>1 DEF Start
  <1>2. ASSUME NEW p \in Procs, LoadInput(p) PROVE InputsCurrent'
    BY <1>2 DEF LoadInput
  <1>3. ASSUME NEW p \in Procs, TakeSignature(p) PROVE InputsCurrent'
    BY <1>3 DEF TakeSignature
  <1>4. ASSUME NEW p \in Procs, ReadHeader(p) PROVE InputsCurrent'
    BY <1>4 DEF ReadHeader, Advance, Miss
  <1>5. ASSUME NEW p \in Procs, ReadBody(p) PROVE InputsCurrent'
    BY <1>5 DEF ReadBody, AcceptAtEof, RejectFlush, AcceptFlush, Obtain,
                Advance, Miss
  <1>6. ASSUME NEW p \in Procs, OpenForWrite(p) PROVE InputsCurrent'
    BY <1>6 DEF OpenForWrite
  <1>7. ASSUME NEW p \in Procs, WriteChunk(p) PROVE InputsCurrent'
    <2>1. CASE pos[p] = Chunks
      <3>1. /\ pc[p] = "write" /\ Obtain(p, Whole(Made(p)))
            /\ UNCHANGED <<sourceVars, inputVars>>
        BY <1>7, <2>1 DEF WriteChunk
      <3> QED BY <3>1 DEF Obtain
    <2>2. CASE pos[p] # Chunks
      BY <1>7, <2>2 DEF WriteChunk
    <2> QED BY <2>1, <2>2
  <1>8. CASE AllIdle /\ Developer
    <2>1. pc' = pc /\ \A p \in Procs : pc[p] \notin Active
      BY <1>8 DEF AllIdle, Developer, Edit, RebuildBinary
    <2> QED BY <2>1
  <1>9. CASE UNCHANGED vars
    BY <1>9 DEF vars
  <1> QED
    BY <1>1, <1>2, <1>3, <1>4, <1>5, <1>6, <1>7, <1>8, <1>9 DEF QuietNext, Step

\* A step that changes no file and no writer keeps the files repaired.
LEMMA FilesUntouched ==
    ASSUME TypeOK, QuietInv, UNCHANGED <<text, stamp, binary, file>>,
           \A q \in Procs :
               /\ pc'[q] = "write" <=> pc[q] = "write"
               /\ pc[q] = "write" => kind'[q] = kind[q] /\ pos'[q] = pos[q]
    PROVE  \A k \in Kinds : FileRepaired(k)'
  <1>1. \A q \in Procs, k \in Kinds : Writing(q, k)' <=> Writing(q, k)
    BY DEF Writing
  <1>2. \A q \in Procs, k \in Kinds : Repairing(q, k) => Repairing(q, k)'
    BY <1>1 DEF Repairing, Writing, Current
  <1> QED BY <1>1, <1>2 DEF QuietInv, FileRepaired, Settled, Current

LEMMA FilesNext ==
    TypeOK /\ BufferUse /\ QuietInv /\ [QuietNext]_vars =>
        \A k \in Kinds : FileRepaired(k)'
  <1> SUFFICES ASSUME TypeOK, BufferUse, QuietInv, [QuietNext]_vars
               PROVE  \A k \in Kinds : FileRepaired(k)'
    OBVIOUS
  <1>1. ASSUME NEW p \in Procs,
               Start(p) \/ LoadInput(p) \/ TakeSignature(p)
        PROVE  \A k \in Kinds : FileRepaired(k)'
    BY <1>1, FilesUntouched DEF Start, LoadInput, TakeSignature, TypeOK, sourceVars
  <1>2. ASSUME NEW p \in Procs, ReadHeader(p) \/ ReadBody(p)
        PROVE  \A k \in Kinds : FileRepaired(k)'
    <2>1. \A q \in Procs \ {p} : pc'[q] = pc[q] /\ kind'[q] = kind[q]
                                   /\ pos'[q] = pos[q]
      BY <1>2 DEF TypeOK, ReadHeader, ReadBody, AcceptAtEof, RejectFlush,
                  AcceptFlush, Obtain, Miss, Advance
    <2>2. pc[p] # "write" /\ pc'[p] # "write"
      BY <1>2 DEF TypeOK, ReadHeader, ReadBody, AcceptAtEof, RejectFlush,
                  AcceptFlush, Obtain, Miss, Advance
    <2> QED BY <1>2, <2>1, <2>2, FilesUntouched DEF ReadHeader, ReadBody, sourceVars
  <1>3. ASSUME NEW p \in Procs, OpenForWrite(p)
        PROVE  \A k \in Kinds : FileRepaired(k)'
    <2> SUFFICES ASSUME NEW k \in Kinds PROVE FileRepaired(k)'
      OBVIOUS
    <2>1. pos[p] = 1 /\ pos' = pos /\ kind' = kind /\ pc'[p] = "write"
      <3>1. pc[p] = "build" /\ pos[p] \in 1 .. Chunks /\ ~(pos[p] > 1)
        BY <1>3 DEF OpenForWrite, BufferUse, TypeOK
      <3>2. pos[p] = 1
        BY <3>1, ChunksAssumption
      <3> QED BY <1>3, <3>2 DEF OpenForWrite, TypeOK
    <2>2. CASE k = kind[p]
      <3>1. file'[k] = <<>> /\ Repairing(p, k)'
        BY <1>3, <2>1, <2>2 DEF OpenForWrite, TypeOK, Repairing, Writing
      <3> QED BY <3>1, ChunksAssumption DEF FileRepaired
    <2>3. CASE k # kind[p]
      <3>1. file'[k] = file[k] /\ Current(k)' = Current(k)
        BY <1>3, <2>3 DEF OpenForWrite, TypeOK, Current, sourceVars
      <3>2. \A q \in Procs : Writing(q, k)' <=> Writing(q, k)
        BY <1>3, <2>3 DEF OpenForWrite, TypeOK, Writing
      <3>3. \A q \in Procs : Repairing(q, k) => Repairing(q, k)'
        BY <2>1, <3>1, <3>2 DEF Repairing
      <3> QED BY <3>1, <3>2, <3>3 DEF QuietInv, FileRepaired, Settled
    <2> QED BY <2>2, <2>3
  <1>4. ASSUME NEW p \in Procs, WriteChunk(p)
        PROVE  \A k \in Kinds : FileRepaired(k)'
    <2> SUFFICES ASSUME NEW k \in Kinds PROVE FileRepaired(k)'
      OBVIOUS
    <2> DEFINE i == pos[p]
               a == Current(k)
               f == file[k]
    <2>1. /\ UNCHANGED sourceVars /\ Current(k)' = a /\ a \in Artifacts
          /\ pc[p] = "write" /\ i \in 1 .. Chunks /\ f \in Seq(Flushes)
      BY <1>4, CurrentType DEF WriteChunk, Current, sourceVars, TypeOK
    <2>2. \A q \in Procs \ {p} :
              pc'[q] = pc[q] /\ kind'[q] = kind[q] /\ pos'[q] = pos[q]
      BY <1>4 DEF TypeOK, WriteChunk, Obtain
    <2>3. CASE k = kind[p]
      <3>1. file'[k] = Put(f, i, a)
        BY <1>4, <2>1, <2>3, MadeCurrent DEF WriteChunk, TypeOK, QuietInv
      <3>2. /\ file'[k] \in Seq(Flushes)
            /\ Len(file'[k]) = IF i > Len(f) THEN i ELSE Len(f)
            /\ file'[k][i] = a
            /\ \A j \in 1 .. Len(f) : f[j] = a => file'[k][j] = a
        BY <2>1, <3>1, PutProperties DEF Flushes
      <3>3. Len(f) \in Nat /\ Len(f) <= Chunks /\ Len(file'[k]) <= Chunks
        BY <2>1, <3>2, ChunksAssumption DEF QuietInv, FileRepaired
      <3>4. CASE f = Whole(a)
        <4>1. Len(f) = Chunks /\ \A j \in 1 .. Chunks : f[j] = a
          BY <2>1, <3>4, WholeType
        <4>2. Len(file'[k]) = Chunks /\ \A j \in 1 .. Chunks : file'[k][j] = a
          BY <2>1, <3>2, <4>1, ChunksAssumption
        <4> QED BY <2>1, <3>2, <3>3, <4>2, WholeFile DEF FileRepaired
      <3>5. ASSUME NEW q \in Procs \ {p}, Repairing(q, k)
            PROVE  Repairing(q, k)'
        <4>1. Writing(q, k)'
          BY <2>2, <3>5 DEF Repairing, Writing
        <4>2. ASSUME NEW j \in 1 .. Chunks, j < pos'[q]
              PROVE  j <= Len(file'[k]) /\ file'[k][j] = a
          <5>1. j <= Len(f) /\ f[j] = a
            BY <2>2, <3>5, <4>2 DEF Repairing
          <5> QED BY <3>2, <3>3, <5>1, <2>1, ChunksAssumption
        <4> QED BY <2>1, <4>1, <4>2 DEF Repairing
      <3>6. CASE Repairing(p, k)
        <4>1. \A j \in 1 .. Chunks : j <= i =>
                  j <= Len(file'[k]) /\ file'[k][j] = a
          BY <2>1, <3>2, <3>3, <3>6, ChunksAssumption DEF Repairing
        <4>2. CASE i = Chunks
          <5>1. Len(file'[k]) = Chunks
            BY <2>1, <3>2, <3>3, <4>2, ChunksAssumption
          <5>2. file'[k] = Whole(a)
            BY <2>1, <3>2, <4>1, <4>2, <5>1, ChunksAssumption, WholeFile
          <5> QED BY <2>1, <3>3, <5>2 DEF FileRepaired
        <4>3. CASE i # Chunks
          <5>1. pos'[p] = i + 1 /\ pc'[p] = "write" /\ kind'[p] = k
            BY <1>4, <2>1, <2>3, <4>3 DEF WriteChunk, TypeOK
          <5>2. \A j \in 1 .. Chunks : j < i + 1 => j <= i
            BY <2>1, ChunksAssumption
          <5>3. Repairing(p, k)'
            BY <2>1, <4>1, <5>1, <5>2 DEF Repairing, Writing
          <5> QED BY <3>3, <5>3 DEF FileRepaired
        <4> QED BY <4>2, <4>3
      <3>7. Writing(p, k)
        BY <2>1, <2>3 DEF Writing
      <3> QED BY <3>3, <3>4, <3>5, <3>6, <3>7 DEF QuietInv, FileRepaired, Settled
    <2>4. CASE k # kind[p]
      <3>1. file'[k] = f /\ ~Writing(p, k)
        BY <1>4, <2>4 DEF WriteChunk, TypeOK, Writing
      <3>2. ~Writing(p, k)'
        BY <1>4, <2>4 DEF WriteChunk, Obtain, TypeOK, Writing
      <3>3. \A q \in Procs : Writing(q, k)' <=> Writing(q, k)
        BY <2>2, <3>1, <3>2 DEF Writing
      <3>4. \A q \in Procs : Repairing(q, k) => Repairing(q, k)'
        BY <2>1, <2>2, <3>1, <3>3 DEF Repairing
      <3> QED BY <2>1, <3>1, <3>3, <3>4 DEF QuietInv, FileRepaired, Settled
    <2> QED BY <2>3, <2>4
  <1>5. CASE AllIdle /\ Developer
    <2> SUFFICES ASSUME NEW k \in Kinds PROVE FileRepaired(k)'
      OBVIOUS
    <2>1. file' = file /\ pc' = pc /\ kind' = kind
      BY <1>5 DEF Developer, Edit, RebuildBinary
    <2>2. \A p \in Procs : ~Writing(p, k)
      BY <1>5 DEF AllIdle, Active, Stages, Writing
    <2>3. Settled(k)
      BY <2>2, CurrentType DEF QuietInv, FileRepaired, Settled, Repairing
    <2>4. Settled(k)'
      BY <2>1, <2>2, <2>3 DEF Settled, Writing
    <2> QED BY <2>1, <2>4 DEF QuietInv, FileRepaired
  <1>6. CASE UNCHANGED vars
    BY <1>6, FilesUntouched DEF vars, sourceVars
  <1> QED BY <1>1, <1>2, <1>3, <1>4, <1>5, <1>6 DEF QuietNext, Step

\* With overlapping processes that run to their end, a cache file that nobody
\* is writing is absent or complete.
THEOREM QuiescentFilesWhole == QuietSpec => []QuiescentWhole
  <1>1. [QuietNext]_vars => [Next]_vars
    BY DEF Next
  <1>2. FingerprintInv => BufferUse
    BY DEF FingerprintInv
  <1>3. QuietInv /\ InputsCurrent' /\ (\A k \in Kinds : FileRepaired(k)')
            => QuietInv'
    BY DEF QuietInv
  <1>4. TypeOK /\ FingerprintInv /\ QuietInv /\ [QuietNext]_vars => QuietInv'
    BY <1>2, <1>3, InputsNext, FilesNext DEF QuietInv
  <1>5. TypeOK /\ QuietInv => QuiescentWhole
    <2> SUFFICES ASSUME TypeOK, QuietInv, NEW k \in Kinds,
                        \A p \in Procs : ~(pc[p] = "write" /\ kind[p] = k)
                 PROVE  file[k] = <<>> \/ IsWhole(file[k])
      BY DEF QuiescentWhole
    <2>1. file[k] = <<>> \/ \E a \in Artifacts : file[k] = Whole(a)
      BY CurrentType DEF QuietInv, FileRepaired, Settled, Repairing, Writing
    <2>2. \A a \in Artifacts : Whole(a) # <<>> /\ Whole(a)[1] = a
      BY WholeType, ChunksAssumption
    <2> QED BY <2>1, <2>2 DEF IsWhole
  <1> QED
    BY TypeInit, TypeNext, FingerprintInit, FingerprintNext, QuietInit,
       <1>1, <1>4, <1>5, PTL DEF QuietSpec

=============================================================================
