--------------------------- MODULE MCYamiEntries ---------------------------
(* What is put into the parameters objects in the instances of YamiParameters. *)

(* One value of each type; the elements of a new array are NULL.           *)
SampleEntries ==
  {[type |-> "integer", value |-> <<"1">>], [type |-> "shallow", value |-> <<"s">>],
   [type |-> "boolean_array", value |-> <<"T">>],
   [type |-> "long_long", value |-> <<"low", "high">>], [type |-> "integer_array", value |-> <<"1", "2">>],
   [type |-> "string_array", value |-> <<"NULL", "NULL">>], [type |-> "nested", value |-> <<>>]}

(* A message with a nested object, one with an array, and one with a boolean array
   that fills its words.                                                   *)
Holding(type, name, value, inner) ==
  [type |-> type, name |-> name, value |-> value, inner |-> inner, key |-> 0]

SampleMessages ==
  {<<Holding("nested", "a", <<>>, <<Holding("string", "b", <<"s">>, <<>>)>>)>>,
   <<Holding("integer", "a", <<"2">>, <<>>), Holding("string_array", "b", <<"s", "">>, <<>>)>>,
   <<Holding("boolean_array", "a", <<"T", "T">>, <<>>)>>}
=============================================================================
