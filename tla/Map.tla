-------------------------------- MODULE Map ---------------------------------
(***************************************************************************)
(* What a map promises its caller: get answers the value last put and not      *)
(* removed, remove says whether there was one, and a put, which takes its time,  *)
(* changes its own key only or nothing.  NoKey has no value and is never put.   *)
(* hashmap.h implements it: Hashmap.                                         *)
(***************************************************************************)
CONSTANTS Keys, Values, NoValue, NoKey
VARIABLES map, request, result

NoRequest == [key |-> NoKey, value |-> NoValue]
MapInit == map = [k \in Keys |-> NoValue] /\ request = NoRequest /\ result = NoValue
Lookup(k) == IF k = NoKey THEN NoValue ELSE map[k]
Get(k) == request = NoRequest /\ result' = Lookup(k) /\ UNCHANGED <<map, request>>
Remove(k) ==
  /\ request = NoRequest /\ result' = (IF Lookup(k) = NoValue THEN 1 ELSE 0)
  /\ map' = [l \in Keys |-> IF l = k THEN NoValue ELSE map[l]] /\ UNCHANGED request
Put(k, v) ==
  /\ request = NoRequest /\ UNCHANGED map
  /\ \/ k = NoKey /\ result' = 1 /\ UNCHANGED request
     \/ k # NoKey /\ request' = [key |-> k, value |-> v] /\ UNCHANGED result
PutEnds ==
  /\ request # NoRequest /\ request' = NoRequest
  /\ \/ result' = 0 /\ map' = [map EXCEPT ![request.key] = request.value]
     \/ result' = 1 /\ UNCHANGED map
MapNext == PutEnds \/ \E k \in Keys \cup {NoKey} : Get(k) \/ Remove(k) \/ \E v \in Values : Put(k, v)
MapSpec == MapInit /\ [][MapNext]_<<map, request, result>>
=============================================================================
