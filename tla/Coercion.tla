------------------------------ MODULE Coercion -------------------------------
(***************************************************************************)
(* validation/coerce.py: a Python value made one of a target type.  A      *)
(* number is given in halves; a string is the sequence of the atoms that   *)
(* commas separate, each alone in it the atom's text; a dict is the        *)
(* sequence of its values.  Pydantic models as targets are left out.       *)
(***************************************************************************)
EXTENDS Integers, Sequences, TLC

\* The number that int() or float() reads in an atom, in halves.
Numerals ==
    "0" :> 0 @@ "0.5" :> 1 @@ "1" :> 2 @@ "1.0" :> 2 @@ "2" :> 4 @@ "2.0" :> 4 @@ "0.0" :> 0

\* The words of _coerce_bool.
Truths == "yes" :> 2 @@ "True" :> 2 @@ "1" :> 2 @@ "no" :> 0 @@ "False" :> 0 @@ "0" :> 0

None   == [type |-> "None", num |-> 0, items |-> << >>]
Error  == [type |-> "error", num |-> 0, items |-> << >>]   \* ValidationError
Number(type, halves)   == [type |-> type, num |-> halves, items |-> << >>]
Str(atoms)             == [type |-> "str", num |-> 0, items |-> atoms]
Collection(type, items) == [type |-> type, num |-> 0, items |-> items]

\* A target type; `elem` is that of elements and of a dict's values.
Scalar(kind)        == [kind |-> kind, elem |-> "Any"]
Generic(kind, elem) == [kind |-> kind, elem |-> elem]

Whole(halves) == halves % 2 = 0

-----------------------------------------------------------------------------

CoerceBool(value) ==
    CASE value.type = "bool" -> value
      [] value.type = "int" /\ value.num \in {0, 2} -> Number("bool", value.num)
      [] value.type = "str" /\ value.items = << >> -> Number("bool", 0)
      [] value.type = "str" /\ Len(value.items) = 1 /\ value.items[1] \in DOMAIN Truths ->
             Number("bool", Truths[value.items[1]])
      [] OTHER -> Error

\* int() or float() of a string; `default` if it reads none.
Numeral(value, default) ==
    IF Len(value.items) = 1 /\ value.items[1] \in DOMAIN Numerals
    THEN Numerals[value.items[1]] ELSE default

\* Mutant: the fraction is cut off.
CoerceIntTruncating(value) ==
    CASE value.type \in {"bool", "int", "float"} -> Number("int", 2 * (value.num \div 2))
      [] value.type = "str" /\ Numeral(value, -1) # -1 ->
             Number("int", 2 * (Numeral(value, -1) \div 2))
      [] OTHER -> Error

CoerceInt(value) ==
    CASE value.type \in {"bool", "int"} -> Number("int", value.num)
      [] value.type = "float" /\ Whole(value.num) -> Number("int", value.num)
      [] value.type = "str" /\ Whole(Numeral(value, 1)) -> Number("int", Numeral(value, 1))
      [] OTHER -> Error

CoerceFloat(value) ==
    CASE value.type \in {"bool", "int", "float"} -> Number("float", value.num)
      [] value.type = "str" /\ Numeral(value, -1) # -1 -> Number("float", Numeral(value, -1))
      [] OTHER -> Error

\* str(value): an atom that reads as the value, of a collection just a word.
CoerceStr(value) ==
    CASE value.type \in {"None", "str"} -> value
      [] value.type = "bool"  -> Str(<<IF value.num = 2 THEN "True" ELSE "False">>)
      [] value.type = "int"   -> Str(<<ToString(value.num \div 2)>>)
      [] value.type = "float" ->
             Str(<<ToString(value.num \div 2) \o IF Whole(value.num) THEN ".0" ELSE ".5">>)
      [] OTHER -> Str(<<"word">>)

-----------------------------------------------------------------------------

RECURSIVE CoerceValue(_, _)

\* One element that fails fails the collection.
CoerceItems(type, items, elem) ==
    LET coerced == [i \in DOMAIN items |-> CoerceValue(items[i], elem)] IN
    IF \E i \in DOMAIN items : coerced[i] = Error THEN Error ELSE Collection(type, coerced)

\* Whatever collection is asked for, it is a list; a string is split at its commas.
CoerceCollection(value, elem) ==
    CASE value.type = "list" -> CoerceItems("list", value.items, elem)
      [] value.type = "str"  ->
             CoerceItems("list", [i \in DOMAIN value.items |-> Str(<<value.items[i]>>)], elem)
      [] OTHER -> Error

CoerceDict(value, elem) ==
    IF value.type = "dict" THEN CoerceItems("dict", value.items, elem) ELSE Error

CoerceValue(value, target) ==
    CASE target.kind = "Any"   -> value
      [] target.kind = "bool"  -> CoerceBool(value)
      [] target.kind = "int"   -> CoerceInt(value)
      [] target.kind = "float" -> CoerceFloat(value)
      [] target.kind = "str"   -> CoerceStr(value)
      [] target.kind \in {"list", "tuple", "set"} -> CoerceCollection(value, target.elem)
      [] target.kind = "dict"  -> CoerceDict(value, target.elem)
=============================================================================
