--------------------------- MODULE ArtifactCache ---------------------------
(***************************************************************************)
(* What the frontend cache promises to the pipeline that calls it: a run   *)
(* works with tables of the input that is current when it loads them, and  *)
(* only tables of the current input enter the cache.  No file, signature,  *)
(* header or partial state appears here.                                   *)
(***************************************************************************)
CONSTANTS Procs, Kinds, Sources

VARIABLES
    input,      \* input[k]: the source artifact k is generated from
    cache,      \* cache[k]: the set of sources of the cached tables
    held        \* held[p][k]: the set of sources of the tables p works with

vars == <<input, cache, held>>

Init ==
    /\ input \in [Kinds -> Sources]
    /\ cache = [k \in Kinds |-> {}]
    /\ held  = [p \in Procs |-> [k \in Kinds |-> {}]]

\* The source changes; what is cached and what runs hold does not.
Change(k) ==
    /\ \E s \in Sources : input' = [input EXCEPT ![k] = s]
    /\ UNCHANGED <<cache, held>>

\* Cached tables may be dropped at any time.
Drop(k) ==
    /\ cache' = [cache EXCEPT ![k] = {}]
    /\ UNCHANGED <<input, held>>

\* Complete tables of the current input are in the cache.
Store(k) ==
    /\ cache' = [cache EXCEPT ![k] = {input[k]}]
    /\ UNCHANGED <<input, held>>

\* A hit and a rebuild give the run the same; a rebuild may store it as well.
Load(p, k) ==
    /\ held' = [held EXCEPT ![p][k] = {input[k]}]
    /\ cache' \in {cache, [cache EXCEPT ![k] = {input[k]}]}
    /\ UNCHANGED input

Restart(p) ==
    /\ held' = [held EXCEPT ![p] = [k \in Kinds |-> {}]]
    /\ UNCHANGED <<input, cache>>

Next ==
    \/ \E k \in Kinds : Change(k) \/ Drop(k) \/ Store(k)
    \/ \E p \in Procs : Restart(p) \/ \E k \in Kinds : Load(p, k)

Spec == Init /\ [][Next]_vars

=============================================================================
