--------------------------- MODULE MCTypeHierarchy ---------------------------
(***************************************************************************)
(* Three declared types, in a fixed order: the types are interchangeable, so *)
(* the parents, members and map orders of the programs range over all cases. *)
(* Attributes, methods and constructors do not act on each other, so each    *)
(* has programs of its own.                                                  *)
(***************************************************************************)
EXTENDS TypeHierarchy

CONSTANTS h1, h2, h3, untyped, tnum, s1, s2, x, m

MCOrder == <<h1, h2, h3>>
MCParamLists == {<<>>, <<untyped>>, <<tnum>>}

NoAttributes == [t \in Types |-> {}]
NoMethods    == [t \in Types |-> [n \in Methods |-> None]]
NoParams     == [t \in Types |-> <<>>]
NoArguments  == [t \in Types |-> FALSE]

(* An attribute anywhere, any map order.                                     *)
AttributePrograms ==
  [parent : [Types -> Parents], attrs : [Types -> SUBSET Attributes], sig : {NoMethods},
   params : {NoParams}, explicit : {NoArguments}, map : Enumerations]

(* A method anywhere, with two signatures, any map order.                    *)
MethodPrograms ==
  [parent : [Types -> Parents], attrs : {NoAttributes},
   sig : [Types -> [Methods -> Signatures \cup {None}]],
   params : {NoParams}, explicit : {NoArguments}, map : Enumerations]

(* Constructors of every kind; without members the order of the source plays *)
(* no part, so one order of the map will do.                                 *)
ConstructorPrograms ==
  [parent : [Types -> Types \cup {Object}], attrs : {NoAttributes}, sig : {NoMethods},
   params : [Types -> ParamLists], explicit : [Types -> BOOLEAN], map : {MCOrder}]

MCPrograms == AttributePrograms \cup MethodPrograms \cup ConstructorPrograms
=============================================================================
