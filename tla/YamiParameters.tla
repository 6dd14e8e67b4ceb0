-------------------------- MODULE YamiParameters --------------------------
(***************************************************************************)
(* The parameters objects of the YAMI4 core, the content of each message:  *)
(* named entries, which may be objects of the same kind, their locks, the  *)
(* memory they own, and their serialised form                              *)
(* (lib/yami4-gpl-1.6.0/src/core/parameters*.cpp, serialization.cpp).      *)
(*                                                                         *)
(* An object is the sequence of its slots, data_; <<>> is NULL.  Names and *)
(* strings are tokens; a token takes one word in the serialised form.      *)
(***************************************************************************)
EXTENDS Naturals, Sequences, SequencesExt, FiniteSets, FiniteSetsExt

CONSTANTS
  Names,       (* names of entries                                         *)
  LongNames,   (* those too long for the short name optimization           *)
  Samples,     (* entries the program sets: [type, value]                  *)
  Keys,        (* keys of locks                                            *)
  Messages,    (* objects that are merged, or come as a message            *)
  Initial,     (* initial_number_of_entries                                *)
  MaxNesting,  (* max_nesting_level                                        *)
  BitsInWord,  (* bits_in_word                                             *)
  Limits       (* how many allocations succeed before memory is exhausted  *)

CONSTANTS
  MaxEntries,  (* bound: entries of the object with all it contains        *)
  MaxDepth     (* bound: levels of nested objects the program makes        *)

ParametersAssumption ==
  /\ LongNames \subseteq Names /\ 0 \notin Keys
  /\ {Initial, MaxNesting, BitsInWord, MaxEntries, MaxDepth} \subseteq Nat \ {0}
  /\ Limits \subseteq Nat

VARIABLES
  params,  (* the object                                                   *)
  live,    (* blocks allocated for it and not yet freed                    *)
  last     (* history: the last operation, its key if it has one, its result *)

vars == <<params, live, last>>

-----------------------------------------------------------------------------
(* Entries.                                                                *)

NoKey == 0
Null == "NULL"

(* Types: "integer" stands for boolean too, "long_long" for double_float: their
   value is in the entry itself.  "string", which stands for binary, and the arrays
   own a block, what is "shallow" does not; the elements of a "string_array" are
   blocks of their own; a "nested" entry is an object.                     *)
Entry(type, name, value) ==
  [type |-> type, name |-> name, value |-> value, inner |-> <<>>, key |-> NoKey]
Unused == Entry("unused", "", <<>>)

Used(slots) == {i \in DOMAIN slots : slots[i].type # "unused"}
Find(slots, name) == {i \in Used(slots) : slots[i].name = name}
Only(S) == CHOOSE x \in S : TRUE
One(condition) == IF condition THEN 1 ELSE 0

(* entry::clear_item: a nested object is none of its business.             *)
ItemBlocks(e) ==
  CASE e.type \in {"string", "boolean_array", "integer_array"} -> 1
    [] e.type = "string_array" -> 1 + Cardinality({i \in DOMAIN e.value : e.value[i] # Null})
    [] OTHER -> 0
NameBlocks(e) == One(e.name \in LongNames)

-----------------------------------------------------------------------------
(* The walk over an object and those nested in it, which the operations on
   whole objects share (fsm_preserving_structure): it comes to the preamble of
   each object, to its used entries in order, and after a nested object back to
   the entry.  It stops, "too_deep", where an object has too many around it. *)

At(place, path) == [place |-> place, path |-> path]

RECURSIVE Steps(_, _)
Steps(slots, path) ==
  LET stepsAt(i) ==
        IF slots[i].type = "unused" THEN <<>>
        ELSE <<At("entry", Append(path, i))>> \o
             IF slots[i].type # "nested" THEN <<>>
             ELSE IF Len(path) + 1 = MaxNesting THEN <<At("too_deep", path)>>
             ELSE Steps(slots[i].inner, Append(path, i)) \o <<At("back", Append(path, i))>>
  IN <<At("preamble", path)>> \o FlattenSeq([i \in DOMAIN slots |-> stepsAt(i)])

Stops(steps) == \E k \in DOMAIN steps : steps[k].place = "too_deep"

UpToStop(steps) ==
  LET ends == {k \in DOMAIN steps : steps[k].place = "too_deep"}
  IN IF ends = {} THEN steps
     ELSE SubSeq(steps, 1, CHOOSE k \in ends : \A j \in ends : k <= j)

Walk(slots) == UpToStop(Steps(slots, <<>>))

RECURSIVE ObjectAt(_, _)
ObjectAt(slots, path) ==
  IF path = <<>> THEN slots ELSE ObjectAt(slots[Head(path)].inner, Tail(path))

RECURSIVE EntryAt(_, _)
EntryAt(slots, path) ==
  IF Len(path) = 1 THEN slots[path[1]] ELSE EntryAt(slots[path[1]].inner, Tail(path))

RECURSIVE WithObject(_, _, _)
WithObject(slots, path, object) ==
  IF path = <<>> THEN object
  ELSE [slots EXCEPT ![Head(path)].inner = WithObject(@, Tail(path), object)]

(* Every entry and every object, however deep.                             *)
RECURSIVE EntriesOf(_)
EntriesOf(slots) ==
  UNION {{<<i>>} \cup {<<i>> \o p : p \in EntriesOf(slots[i].inner)} : i \in Used(slots)}

ObjectsOf(slots) == {<<>>} \cup {p \in EntriesOf(slots) : EntryAt(slots, p).type = "nested"}

(* The blocks an object owns, its own not counted.                         *)
RECURSIVE Blocks(_)
Blocks(slots) ==
  LET entryBlocks(e) == NameBlocks(e) + ItemBlocks(e) +
                        IF e.type = "nested" THEN 1 + Blocks(e.inner) ELSE 0
  IN One(slots # <<>>) + MapThenSumSet(LAMBDA i : entryBlocks(slots[i]), Used(slots))

-----------------------------------------------------------------------------
(* Memory, and what an operation on one object leaves.                     *)

CanAllocate(mem) == mem.left > 0
Allocated(mem) == [live |-> mem.live + 1, left |-> mem.left - 1]
Freed(mem, n) == [mem EXCEPT !.live = @ - n]

Outcome(slots, mem, res) == [slots |-> slots, mem |-> mem, res |-> res]

-----------------------------------------------------------------------------
(* Mutations of definitions below, for the runs that test the properties.  *)

(* Only the entry's own lock is looked at.                                 *)
LockedOrContainsOwn(e) == IF e.key # NoKey THEN "bad_state" ELSE "ok"

(* The old value is destroyed before it is known that it may be.           *)
RefusedDestroyed(slots, i, mem, res) ==
  [slots |-> ReplaceAt(slots, i, Unused), index |-> i, res |-> res,
   mem |-> Freed(mem, NameBlocks(slots[i]) + ItemBlocks(slots[i]))]

(* Full words only.                                                        *)
TailWordNone(bits) == <<>>

-----------------------------------------------------------------------------
(* prepare_for_set.                                                        *)

(* entry::is_locked_or_contains_locked: ok is for neither.  The search ends at the
   first lock, or with an error where the walk does.                       *)
LockFound(slots, steps) ==
  LET locked == {k \in DOMAIN steps : /\ steps[k].place = "entry"
                                      /\ EntryAt(slots, steps[k].path).key # NoKey}
  IN IF \E k \in locked : k = Len(steps) \/ steps[k + 1].place # "too_deep" THEN "bad_state"
     ELSE IF Stops(steps) THEN "nesting_too_deep"
     ELSE "ok"

LockedOrContains(e) ==
  IF e.key # NoKey THEN "bad_state" ELSE LockFound(e.inner, Walk(e.inner))

(* find_empty_entry: the first slot is used again, or their number doubled. *)
WithRoom(slots) ==
  IF slots = <<>> THEN [i \in 1 .. Initial |-> Unused]
  ELSE slots \o [i \in DOMAIN slots |-> Unused]

FindEmptyEntry(slots, mem) ==
  LET empty == DOMAIN slots \ Used(slots)
  IN IF empty # {} THEN [slots |-> slots, mem |-> mem, res |-> "ok",
                         index |-> CHOOSE i \in empty : \A j \in empty : i <= j]
     ELSE IF CanAllocate(mem)
     THEN [slots |-> WithRoom(slots), index |-> Len(slots) + 1, res |-> "ok",
           mem |-> Freed(Allocated(mem), One(slots # <<>>))]
     ELSE [slots |-> slots, index |-> 0, mem |-> mem, res |-> "no_memory"]

Refused(slots, i, mem, res) == [slots |-> slots, index |-> i, mem |-> mem, res |-> res]

(* What is replaced is freed: of a nested object, all that it contains.    *)
Replaced(slots, i, mem, res) ==
  LET e == slots[i]
  IN IF res # "ok" THEN Refused(slots, i, mem, res)
     ELSE [slots |-> slots, index |-> i, res |-> "ok",
           mem |-> Freed(mem, ItemBlocks(e) + IF e.type = "nested" THEN 1 + Blocks(e.inner) ELSE 0)]

WithName(room, name) ==
  IF room.res # "ok" \/ name \notin LongNames THEN room
  ELSE IF CanAllocate(room.mem) THEN [room EXCEPT !.mem = Allocated(@)]
  ELSE [room EXCEPT !.res = "no_memory"]

PrepareForSet(slots, name, mem) ==
  IF Find(slots, name) # {}
  THEN LET i == Only(Find(slots, name)) IN Replaced(slots, i, mem, LockedOrContains(slots[i]))
  ELSE WithName(FindEmptyEntry(slots, mem), name)

Place(room, entry) ==
  Outcome(IF room.res = "ok" THEN ReplaceAt(room.slots, room.index, entry) ELSE room.slots,
          room.mem, room.res)

-----------------------------------------------------------------------------
(* Operations on the entries of one object.                                *)

Owns(type) ==
  type \in {"string", "boolean_array", "integer_array", "string_array", "nested"}

(* set_integer and its like, set_string_shallow and its like.              *)
SetInPlace(slots, name, sample, mem) ==
  Place(PrepareForSet(slots, name, mem), Entry(sample.type, name, sample.value))

ReleasedOnFailure(outcome) ==
  IF outcome.res = "ok" THEN outcome ELSE [outcome EXCEPT !.mem = Freed(@, 1)]

(* set_string, set_boolean_array, create_string_array, create_nested_parameters
   and their like allocate the value, or the object, before they look for its
   place.  The elements of a new array are NULL.                           *)
SetOwned(slots, name, sample, mem) ==
  IF CanAllocate(mem)
  THEN ReleasedOnFailure(SetInPlace(slots, name, sample, Allocated(mem)))
  ELSE Outcome(slots, mem, "no_memory")

Set(slots, name, sample, mem) ==
  IF Owns(sample.type) THEN SetOwned(slots, name, sample, mem)
  ELSE SetInPlace(slots, name, sample, mem)

(* do_place_string_in_array: the entry's own lock counts.                  *)
PlaceInArray(slots, i, k, value, mem) ==
  LET e == slots[i]
      res == IF e.type # "string_array" THEN "bad_type"
             ELSE IF k \notin DOMAIN e.value THEN "no_such_index"
             ELSE IF e.key # NoKey THEN "bad_state" ELSE "ok"
  IN IF res = "ok"
     THEN Outcome([slots EXCEPT ![i].value[k] = value], Freed(mem, One(e.value[k] # Null)), "ok")
     ELSE Outcome(slots, Freed(mem, 1), res)

SetStringInArray(slots, name, k, value, mem) ==
  IF Find(slots, name) = {} THEN Outcome(slots, mem, "no_such_name")
  ELSE IF ~CanAllocate(mem) THEN Outcome(slots, mem, "no_memory")
  ELSE PlaceInArray(slots, Only(Find(slots, name)), k, value, Allocated(mem))

(* An empty string is its length only.                                     *)
StringWords(s) == IF s \in {"", Null} THEN <<0>> ELSE <<1, s>>

(* get_integer, get_string, get_integer_array and their like.              *)
Got(res, value) == [res |-> res, value |-> value]

Get(slots, name, types) ==
  IF Find(slots, name) = {} THEN Got("no_such_name", <<>>)
  ELSE LET e == slots[Only(Find(slots, name))]
       IN IF e.type \in types THEN Got("ok", e.value) ELSE Got("bad_type", <<>>)

GetWord(slots, name) == Get(slots, name, {"integer"})
GetDoubleWord(slots, name) == Get(slots, name, {"long_long"})
GetText(slots, name) == Get(slots, name, {"string", "shallow"})
GetBooleans(slots, name) == Get(slots, name, {"boolean_array"})
GetIntegers(slots, name) == Get(slots, name, {"integer_array"})

(* An element that is NULL has length 0, like an empty one.                *)
GetElement(slots, name, k) ==
  LET elements == Get(slots, name, {"string_array"})
  IN IF elements.res # "ok" THEN elements
     ELSE IF k \notin DOMAIN elements.value THEN Got("no_such_index", <<>>)
     ELSE Got("ok", StringWords(elements.value[k]))

(* What is nested in the entry is not freed.                               *)
Cleared(slots, i, mem) ==
  Outcome(ReplaceAt(slots, i, Unused), Freed(mem, NameBlocks(slots[i]) + ItemBlocks(slots[i])), "ok")

RemoveEntry(slots, name, mem) ==
  IF Find(slots, name) = {} THEN Outcome(slots, mem, "no_such_name")
  ELSE LET i == Only(Find(slots, name))
           res == LockedOrContains(slots[i])
       IN IF res = "ok" THEN Cleared(slots, i, mem) ELSE Outcome(slots, mem, res)

(* entry::lock, entry::unlock.                                             *)
Locked(e, key) == IF e.key = NoKey THEN [e EXCEPT !.key = key] ELSE e
Unlocked(e, key) == IF e.key = key THEN [e EXCEPT !.key = NoKey] ELSE e

(* lock_fsm: entries that the walk comes to, errors of single ones ignored. *)
RECURSIVE WithEach(_, _, _, _, _)
WithEach(slots, path, visited, locking, key) ==
  [i \in DOMAIN slots |->
     LET here == Append(path, i)
         e == IF here \notin visited THEN slots[i]
              ELSE IF locking THEN Locked(slots[i], key) ELSE Unlocked(slots[i], key)
     IN [e EXCEPT !.inner = WithEach(@, here, visited, locking, key)]]

(* For an entry that is an object the walk is over the whole of this one, not over
   the object in the entry.                                                *)
LockOrUnlock(slots, name, locking, key, mem) ==
  IF Find(slots, name) = {} THEN Outcome(slots, mem, "no_such_name")
  ELSE LET i == Only(Find(slots, name))
           e == slots[i]
           steps == Walk(slots)
           visited == {steps[k].path : k \in {j \in DOMAIN steps : steps[j].place = "entry"}}
       IN IF e.type = "nested"
          THEN Outcome(WithEach(slots, <<>>, visited, locking, key), mem,
                       IF Stops(steps) THEN "nesting_too_deep" ELSE "ok")
          ELSE IF locking
          THEN Outcome(ReplaceAt(slots, i, Locked(e, key)), mem,
                       IF e.key = NoKey THEN "ok" ELSE "bad_state")
          ELSE Outcome(ReplaceAt(slots, i, Unlocked(e, key)), mem,
                       IF e.key = NoKey THEN "bad_state"
                       ELSE IF e.key = key THEN "ok" ELSE "unexpected_value")

(* clear: the walk frees names and values, and the nested objects that it comes
   back from; the slots are freed in any case.                             *)
ClearedBy(slots, step) ==
  CASE step.place = "entry" -> NameBlocks(EntryAt(slots, step.path)) + ItemBlocks(EntryAt(slots, step.path))
    [] step.place = "back" -> 1 + One(ObjectAt(slots, step.path) # <<>>)
    [] OTHER -> 0

Clear(slots, mem) ==
  LET steps == Walk(slots)
  IN Outcome(<<>>, Freed(mem, One(slots # <<>>) +
                              MapThenSumSet(LAMBDA k : ClearedBy(slots, steps[k]), DOMAIN steps)), "ok")

-----------------------------------------------------------------------------
(* The serialised form, a sequence of words.                               *)

(* Full words, and always one more, which may hold no bit.                 *)
WordAt(bits, from) ==
  [j \in 1 .. BitsInWord |-> IF from + j <= Len(bits) THEN bits[from + j] ELSE "F"]
TailWord(bits) == <<WordAt(bits, (Len(bits) \div BitsInWord) * BitsInWord)>>
BooleanWords(bits) ==
  <<Len(bits)>> \o [w \in 1 .. Len(bits) \div BitsInWord |-> WordAt(bits, (w - 1) * BitsInWord)]
                \o TailWord(bits)

(* A shallow string is a string to the one who reads it.                   *)
TypeCode(type) == IF type = "shallow" THEN "string" ELSE type

ValueWords(e) ==
  CASE e.type \in {"integer", "long_long"} -> e.value
    [] e.type \in {"string", "shallow"} -> StringWords(e.value[1])
    [] e.type = "boolean_array" -> BooleanWords(e.value)
    [] e.type = "integer_array" -> <<Len(e.value)>> \o e.value
    [] e.type = "string_array" ->
         <<Len(e.value)>> \o FlattenSeq([i \in DOMAIN e.value |-> StringWords(e.value[i])])
    [] e.type = "nested" -> <<>>

EntryWords(e) == StringWords(e.name) \o <<TypeCode(e.type)>> \o ValueWords(e)

WordsOf(slots, step) ==
  CASE step.place = "preamble" -> <<Cardinality(Used(ObjectAt(slots, step.path)))>>
    [] step.place = "entry" -> EntryWords(EntryAt(slots, step.path))
    [] OTHER -> <<>>

Words(slots) ==
  LET steps == Walk(slots) IN FlattenSeq([k \in DOMAIN steps |-> WordsOf(slots, steps[k])])

(* get_serialize_buffer_size computes what serialize will write.           *)
SizeOfValue(e) ==
  IF e.type = "boolean_array"
  THEN 1 + (Len(e.value) + BitsInWord - 1) \div BitsInWord ELSE Len(ValueWords(e))

SizeOfStep(slots, step) ==
  CASE step.place = "preamble" -> 1
    [] step.place = "entry" -> LET e == EntryAt(slots, step.path)
                               IN Len(StringWords(e.name)) + 1 + SizeOfValue(e)
    [] OTHER -> 0

SerializeBufferSize(slots) ==
  LET steps == Walk(slots) IN MapThenSumSet(LAMBDA k : SizeOfStep(slots, steps[k]), DOMAIN steps)

(* serialize into one buffer of the given number of words.                 *)
SerializeResult(slots, size) ==
  IF Len(Words(slots)) > size THEN "not_enough_space"
  ELSE IF Stops(Walk(slots)) THEN "nesting_too_deep" ELSE "ok"

(* Reading.  rd is what has been read so far: the entries of the object, the
   position in the words, the memory, the result, the last value.          *)
Failing(rd, res) == [rd EXCEPT !.res = res]

ReadWord(words, rd) ==
  IF rd.pos > Len(words) THEN Failing(rd, "not_enough_space")
  ELSE [rd EXCEPT !.pos = @ + 1, !.value = words[rd.pos]]

(* get_string: its block is freed when the words end.                      *)
ReadString(words, rd) ==
  LET length == ReadWord(words, rd)
      text == ReadWord(words, [length EXCEPT !.mem = Allocated(@)])
  IN IF length.res # "ok" THEN length
     ELSE IF ~CanAllocate(length.mem) THEN Failing(length, "no_memory")
     ELSE IF length.value = 0 THEN [length EXCEPT !.mem = Allocated(@), !.value = ""]
     ELSE IF text.res # "ok" THEN [text EXCEPT !.mem = Freed(@, 1)] ELSE text

(* The low word, then the high one.                                        *)
ReadDoubleWord(words, rd) ==
  LET low == ReadWord(words, rd)
      high == ReadWord(words, low)
  IN IF low.res # "ok" THEN low ELSE [high EXCEPT !.value = <<low.value, high.value>>]

(* The array is freed when the words end before its elements do.           *)
ReadIntegers(words, rd) ==
  LET length == ReadWord(words, rd)
      first == length.pos
      end == first + length.value - 1
  IN IF length.res # "ok" THEN length
     ELSE IF ~CanAllocate(length.mem) THEN Failing(length, "no_memory")
     ELSE IF end > Len(words)
     THEN [Failing(length, "not_enough_space") EXCEPT !.pos = Len(words) + 1,
                                                      !.mem.left = @ - 1]
     ELSE [length EXCEPT !.pos = end + 1, !.mem = Allocated(@),
                         !.value = SubSeq(words, first, end)]

ReadBooleans(words, rd) ==
  LET length == ReadWord(words, rd)
      count == length.value \div BitsInWord + 1
      bits == [j \in 1 .. length.value |->
                 words[length.pos + (j - 1) \div BitsInWord][((j - 1) % BitsInWord) + 1]]
  IN IF length.res # "ok" THEN length
     ELSE IF ~CanAllocate(length.mem) THEN Failing(length, "no_memory")
     ELSE IF length.pos + count - 1 > Len(words) THEN Failing(length, "not_enough_space")
     ELSE [length EXCEPT !.pos = @ + count, !.mem = Allocated(@), !.value = bits]

(* do_set_...: a value that cannot be set is left where it is.             *)
Leaving(rd, outcome) ==
  [rd EXCEPT !.slots = outcome.slots, !.mem = outcome.mem, !.res = outcome.res]

SetRead(rd, name, type, value) ==
  IF rd.res # "ok" THEN rd
  ELSE Leaving(rd, SetInPlace(rd.slots, name, [type |-> type, value |-> value], rd.mem))

(* The array is in its entry before its elements are read.                 *)
RECURSIVE ReadElements(_, _, _, _)
ReadElements(words, rd, name, k) ==
  LET i == Only(Find(rd.slots, name))
      text == ReadString(words, rd)
  IN IF rd.res # "ok" \/ k > Len(rd.slots[i].value) THEN rd
     ELSE IF text.res # "ok" THEN text
     ELSE ReadElements(words, Leaving(text, PlaceInArray(text.slots, i, k, text.value, text.mem)),
                       name, k + 1)

Create(rd, name, type, value) ==
  Leaving(rd, SetOwned(rd.slots, name, [type |-> type, value |-> value], rd.mem))

ReadArray(words, rd, name) ==
  LET length == ReadWord(words, rd)
      made == Create(length, name, "string_array", [k \in 1 .. length.value |-> Null])
  IN IF length.res # "ok" THEN length ELSE ReadElements(words, made, name, 1)

(* The nested object is made here and read once the name is freed.         *)
ReadValue(words, rd, name, type, level) ==
  CASE type = "integer" -> LET r == ReadWord(words, rd) IN SetRead(r, name, type, <<r.value>>)
    [] type = "long_long" -> LET r == ReadDoubleWord(words, rd) IN SetRead(r, name, type, r.value)
    [] type = "string" -> LET r == ReadString(words, rd) IN SetRead(r, name, type, <<r.value>>)
    [] type = "integer_array" -> LET r == ReadIntegers(words, rd) IN SetRead(r, name, type, r.value)
    [] type = "boolean_array" -> LET r == ReadBooleans(words, rd) IN SetRead(r, name, type, r.value)
    [] type = "string_array" -> ReadArray(words, rd, name)
    [] type = "nested" -> IF level = MaxNesting THEN Failing(rd, "nesting_too_deep")
                          ELSE Create(rd, name, type, <<>>)
    [] OTHER -> Failing(rd, "unexpected_value")

ReadEntry(words, rd, level) ==
  LET named == ReadString(words, rd)
      typed == ReadWord(words, named)
      valued == IF typed.res # "ok" THEN typed
                ELSE ReadValue(words, typed, named.value, typed.value, level)
  IN IF named.res # "ok" THEN named ELSE [valued EXCEPT !.mem = Freed(@, 1), !.value = named.value]

BackIn(slots, i, inner) == [inner EXCEPT !.slots = [slots EXCEPT ![i].inner = inner.slots]]

RECURSIVE ReadObject(_, _, _), ReadNested(_, _, _), ReadEntries(_, _, _, _)
ReadObject(words, rd, level) ==
  LET count == ReadWord(words, rd)
  IN IF count.res # "ok" THEN count ELSE ReadEntries(words, count, count.value, level)

ReadNested(words, rd, level) ==
  LET i == Only(Find(rd.slots, rd.value))
  IN IF rd.res = "ok" /\ rd.slots[i].type = "nested"
     THEN BackIn(rd.slots, i, ReadObject(words, [rd EXCEPT !.slots = @[i].inner], level + 1))
     ELSE rd

ReadEntries(words, rd, n, level) ==
  IF n = 0 \/ rd.res # "ok" THEN rd
  ELSE ReadEntries(words, ReadNested(words, ReadEntry(words, rd, level), level), n - 1, level)

ResultOf(rd) == Outcome(rd.slots, rd.mem, rd.res)

Deserialize(slots, words, mem) ==
  ResultOf(ReadObject(words, [slots |-> slots, pos |-> 1, mem |-> mem, res |-> "ok", value |-> 0], 1))

(* merge_from: the words of the other object are written to a block of the size
   it computes, and read from there.                                       *)
MergeFrom(slots, other, mem) ==
  LET size == SerializeBufferSize(other)
      written == SerializeResult(other, size)
      read == Deserialize(slots, Words(other), Allocated(mem))
  IN IF Used(other) = {} THEN Outcome(slots, mem, "ok")
     ELSE IF Stops(Walk(other)) THEN Outcome(slots, mem, "nesting_too_deep")
     ELSE IF ~CanAllocate(mem) THEN Outcome(slots, mem, "no_memory")
     ELSE IF written # "ok" THEN Outcome(slots, [mem EXCEPT !.left = @ - 1], written)
     ELSE [read EXCEPT !.mem = Freed(@, 1)]

-----------------------------------------------------------------------------
(* The program works on the object, and on those nested in it.             *)

Init == params = <<>> /\ live = 0 /\ last = [op |-> "none", key |-> NoKey, res |-> "ok"]

(* Bound: the size of the object.                                          *)
Bounded(slots) ==
  LET entries == EntriesOf(slots)
  IN Cardinality(entries) <= MaxEntries /\ \A p \in entries : Len(p) <= MaxDepth

Finish(op, key, p, outcome) ==
  /\ params' = WithObject(params, p, outcome.slots) /\ Bounded(params')
  /\ live' = outcome.mem.live
  /\ last' = [op |-> op, key |-> key, res |-> outcome.res]

Memory == [live : {live}, left : Limits]

SetAny(p, types) ==
  \E name \in Names, sample \in {x \in Samples : x.type \in types}, mem \in Memory :
    Finish("set", NoKey, p, Set(ObjectAt(params, p), name, sample, mem))

SetWord(p) == SetAny(p, {"integer"})
SetDoubleWord(p) == SetAny(p, {"long_long"})
SetText(p) == SetAny(p, {"string", "shallow"})
SetBooleans(p) == SetAny(p, {"boolean_array"})
SetIntegers(p) == SetAny(p, {"integer_array"})
CreateStringArray(p) == SetAny(p, {"string_array"})
CreateNested(p) == SetAny(p, {"nested"})

SetElement(p) ==
  \E name \in Names, k \in 1 .. 2, mem \in Memory :
    Finish("set", NoKey, p, SetStringInArray(ObjectAt(params, p), name, k, "s", mem))

RemoveByName(p) ==
  \E name \in Names, mem \in Memory :
    Finish("remove", NoKey, p, RemoveEntry(ObjectAt(params, p), name, mem))

RemoveByIterator(p) ==
  \E i \in Used(ObjectAt(params, p)), mem \in Memory :
    Finish("remove_by_iterator", NoKey, p, Cleared(ObjectAt(params, p), i, mem))

Lock(p) ==
  \E name \in Names, key \in Keys, mem \in Memory :
    Finish("lock", key, p, LockOrUnlock(ObjectAt(params, p), name, TRUE, key, mem))

Unlock(p) ==
  \E name \in Names, key \in Keys, mem \in Memory :
    Finish("unlock", key, p, LockOrUnlock(ObjectAt(params, p), name, FALSE, key, mem))

ClearAll(p) ==
  \E mem \in Memory : Finish("clear", NoKey, p, Clear(ObjectAt(params, p), mem))

Merge(p) ==
  \E m \in Messages, mem \in Memory :
    Finish("merge", NoKey, p, MergeFrom(ObjectAt(params, p), m, mem))

(* A message may be cut short, or hold a type nobody knows.                *)
Arriving(m) ==
  LET words == Words(m)
  IN {SubSeq(words, 1, k) : k \in 0 .. Len(words)} \cup {[words EXCEPT ![4] = "unknown"]}

Receive(p) ==
  \E m \in Messages : \E words \in Arriving(m), mem \in Memory :
    Finish("deserialize", NoKey, p, Deserialize(ObjectAt(params, p), words, mem))

(* Bound: a behaviour ends with the first block that is lost.              *)
NoneLost == live = Blocks(params)

Next ==
  NoneLost /\ \E p \in ObjectsOf(params) :
    \/ SetWord(p) \/ SetDoubleWord(p) \/ SetText(p) \/ SetBooleans(p) \/ SetIntegers(p)
    \/ CreateStringArray(p) \/ SetElement(p) \/ CreateNested(p)
    \/ RemoveByName(p) \/ RemoveByIterator(p) \/ ClearAll(p)
    \/ Lock(p) \/ Unlock(p)
    \/ Merge(p) \/ Receive(p)

Spec == Init /\ [][Next]_vars

-----------------------------------------------------------------------------
(* Properties.                                                             *)

(* Every operation frees what it took and did not put into the object, also when
   it fails half way, and nothing is freed twice.  Three places are known to lose
   blocks: what is nested in an entry that is removed, what is nested too deep for
   clear, and a value that deserialize has read and could not set.         *)
NestedIn(slots) == Cardinality(ObjectsOf(slots))

MayLose ==
  \/ last'.op \in {"remove", "remove_by_iterator"} /\ NestedIn(params') < NestedIn(params)
  \/ last'.op = "clear" /\ \E p \in ObjectsOf(params) : Len(p) >= MaxNesting
  \/ last'.op \in {"merge", "deserialize"} /\ last'.res \in {"bad_state", "no_memory", "nesting_too_deep"}

BlocksKept ==
  [][IF MayLose THEN live' >= Blocks(params') ELSE live' = Blocks(params')]_vars

(* An operation on one entry that fails leaves the object as it was.       *)
RECURSIVE Compact(_)
Compact(slots) ==
  LET used == SelectSeq(slots, LAMBDA e : e.type # "unused")
  IN [i \in DOMAIN used |-> [used[i] EXCEPT !.inner = Compact(@)]]

FailureChangesNothing ==
  [][last'.op \in {"set", "remove"} /\ last'.res # "ok" => Compact(params') = Compact(params)]_vars

(* A failure loses nothing of the object and nothing of the memory.        *)
FailuresContained == BlocksKept /\ FailureChangesNothing

(* A locked entry keeps its name, type and value, whatever is set, merged or
   received at it or above it, until it is unlocked with its key or cleared away. *)
Keeps(e, f) == e.type = f.type /\ e.name = f.name /\ e.value = f.value /\ e.key = f.key

LocksKeep ==
  [][\A p \in EntriesOf(params) :
       LET e == EntryAt(params, p)
       IN \/ e.key = NoKey
          \/ last'.op \in {"clear", "remove_by_iterator"}
          \/ last'.op = "unlock" /\ last'.key = e.key
          \/ p \in EntriesOf(params') /\ Keeps(e, EntryAt(params', p))]_vars

(* What the getters of an object give.                                     *)
Answers(slots) ==
  [name \in Names |->
     <<GetWord(slots, name), GetDoubleWord(slots, name), GetText(slots, name),
       GetBooleans(slots, name), GetIntegers(slots, name),
       [k \in 1 .. 3 |-> GetElement(slots, name, k)]>>]

RECURSIVE Sent(_)
Sent(slots) ==
  LET used == Compact(slots)
      sent(e) == [e EXCEPT !.key = NoKey, !.type = TypeCode(@), !.inner = Sent(@),
                           !.value = [k \in DOMAIN @ |-> IF @[k] = Null THEN "" ELSE @[k]]]
  IN [i \in DOMAIN used |-> sent(used[i])]

Padded(slots) ==
  {p \in EntriesOf(slots) : LET e == EntryAt(slots, p)
                            IN e.type = "boolean_array" /\ Len(e.value) % BitsInWord = 0}

ReadAlike(read, slots) ==
  /\ read.res = "ok" /\ Compact(read.slots) = Sent(slots)
  /\ Answers(read.slots) = Answers(slots)
  /\ read.mem.live = Blocks(read.slots)

(* What is written is what is read, and answers every getter alike; words that are
   cut short anywhere are refused, and so is an object that is nested too deep.
   The computed size is enough unless there is a boolean array of full words, whose
   space BufferSuffices is about.  Locks are not sent, and a NULL string arrives
   empty (serialization.cpp, parameters-details.cpp).                      *)
RoundTrip ==
  LET enough == [live |-> 0, left |-> 100]
      size == SerializeBufferSize(params)
      words == Words(params)
      read(n) == Deserialize(<<>>, SubSeq(words, 1, n), enough)
  IN IF Stops(Walk(params)) THEN SerializeResult(params, size) # "ok"
     ELSE /\ ReadAlike(read(Len(words)), params)
          /\ \A n \in 0 .. Len(words) - 1 : read(n).res = "not_enough_space"
          /\ Padded(params) = {} => SerializeResult(params, size) = "ok"

(* core/parameters.h, get_serialize_buffer_size: "Computes the total size of
   serialization buffer(s) for the current content of this object."        *)
BufferSuffices ==
  ~Stops(Walk(params)) => SerializeResult(params, SerializeBufferSize(params)) = "ok"

=============================================================================
