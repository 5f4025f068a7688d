-------------------------- MODULE SubprogramRemap --------------------------
(***************************************************************************)
(* The renaming of a subprogram's parameters: remappable_map               *)
(* (kernel/detail/remappable_map.hpp) and its use by Subprogram::call.     *)
(*                                                                         *)
(* A formal is the name that the function of the subprogram uses, an       *)
(* actual the name of a variable of the block.  Names are numbers, in the  *)
(* order in which std::map keeps them.  A map with renaming is a record of *)
(* the data and of the renaming, formal -> actual.                         *)
(***************************************************************************)
EXTENDS Integers

CONSTANT MaxKey   \* names are 1 .. MaxKey
ASSUME MaxKeyAssumption == MaxKey \in Nat
Key == 1 .. MaxKey

NoData == [k \in {} |-> k]
NewMap == [map |-> NoData, remap |-> NoData]

(* std::map::emplace() inserts only what is absent.                        *)
Emplaced(f, k, x) == [n \in DOMAIN f \cup {k} |-> IF n \in DOMAIN f THEN f[n] ELSE x]

(* set_key_remap(): a formal that is renamed already stays as it is.       *)
CanRemap(v, remapped) == remapped \notin DOMAIN v.remap
SetKeyRemap(v, existed, remapped) ==
    [v EXCEPT !.remap = Emplaced(@, remapped, existed)]

(* use_data(): the data of the block under the subprogram's renaming.      *)
UseData(v, other) == [v EXCEPT !.map = other]

MapKey(v, k) == IF k \in DOMAIN v.remap THEN v.remap[k] ELSE k

Has(v, k) == MapKey(v, k) \in DOMAIN v.map
At(v, k)  == v.map[MapKey(v, k)]

(* One round of the loop of call(): the value that the function gave to    *)
(* formal f gets the name of the actual, unless that name is taken.        *)
MoveBack_NoErase(v, res, f) ==
    IF f \in DOMAIN res THEN Emplaced(res, v.remap[f], res[f]) ELSE res
MoveBack(v, res, f) ==
    IF f \in DOMAIN res
    THEN LET both == Emplaced(res, v.remap[f], res[f])
         IN  [k \in DOMAIN both \ {f} |-> both[k]]
    ELSE res

(* The loop, over the renamed formals in their order.                      *)
Renamed(v, res) ==
    LET after[f \in 0 .. MaxKey] ==
            IF f = 0 THEN res
            ELSE IF f \in DOMAIN v.remap THEN MoveBack(v, after[f - 1], f)
            ELSE after[f - 1]
    IN  after[MaxKey]

(* Subprogram::call(): the function, if there is one, reads the data of    *)
(* the block by way of Argument and returns res, a new map without a       *)
(* renaming of its own.                                                    *)
Argument(v, vars) == UseData(v, vars)
Call(v, isFuncSet, res) == IF isFuncSet THEN Renamed(v, res) ELSE NoData
=============================================================================
