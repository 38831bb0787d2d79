------------------------- MODULE PipelineAndCoercion --------------------------
(***************************************************************************)
(* The pipeline of the calls, and beside it coerce_value, which users call *)
(* on their own: the executor leaves validation to pydantic.               *)
(***************************************************************************)
EXTENDS Pipeline

Co == INSTANCE Coercion

CONSTANTS PyValues, PyTypes     \* what coerce_value is given

VARIABLE coerced                \* [value, target, result] of the one call of it, or NoJob

CInit == Init /\ coerced = NoJob

\* It depends on nothing else, so one call of it in a program that makes no other will do.
Coerce ==
    /\ coerced = NoJob
    /\ \A c \in Calls : pc[c] = "idle"
    /\ \E value \in PyValues, target \in PyTypes :
         coerced' = [value |-> value, target |-> target,
                     result |-> Co!CoerceValue(value, target)]
    /\ UNCHANGED vars

CNext ==
    \/ Next /\ UNCHANGED coerced
    \/ Coerce

CSpec == CInit /\ [][CNext]_<<vars, coerced>>

-----------------------------------------------------------------------------
\* coerce_value returns a value of the type asked for -- a list for a tuple or a set,
\* and None stays None as a str --, it leaves such a value alone when called again,
\* and no number is changed on the way: what has a fraction is never made an int,
\* nor anything but 0 and 1 a bool (coerce.py:23-149).
CoercionSettles ==
    coerced # NoJob =>
        LET value  == coerced.value
            target == coerced.target
            returned == coerced.result
            number == IF value.type # "str" THEN value.num ELSE Co!Numeral(value, returned.num)
            IsOf(v, kind) == \/ v.type = kind
                             \/ kind = "Any"
                             \/ kind = "str" /\ v.type = "None"
                             \/ kind \in {"tuple", "set"} /\ v.type = "list" IN
        returned # Co!Error =>
            /\ IsOf(returned, target.kind)
            /\ target.kind \in {"list", "tuple", "set", "dict"} =>
                 \A i \in DOMAIN returned.items : IsOf(returned.items[i], target.elem.kind)
            /\ Co!CoerceValue(returned, target) = returned
            /\ target.kind \in {"bool", "int", "float"} => returned.num = number
=============================================================================
