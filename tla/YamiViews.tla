---------------------------- MODULE YamiViews ----------------------------
(***************************************************************************)
(* The parameters class of the YAMI4 C++ library                           *)
(* (lib/yami4-gpl-1.6.0/src/cpp/parameters.cpp, parameter_entry.cpp): who  *)
(* owns the core objects, and what becomes of the references into them     *)
(* that the library gives to the program.                                  *)
(*                                                                         *)
(* Every parameters object owns a core object, own_params_, and works on   *)
(* params_, which is the same or, for a view, one it does not own.  Memory *)
(* suffices and nothing is locked here (YamiParameters has both); a        *)
(* program does not use a view of an object that is no more.               *)
(***************************************************************************)
EXTENDS Naturals, FiniteSets

CONSTANTS
  Handles,     (* parameters objects of the program                        *)
  Names,       (* names of entries                                         *)
  Cores,       (* core objects, numbered                                   *)
  MaxEntries,  (* bound: used entries of all objects                       *)
  MaxReferences (* bound: references the program holds at a time           *)

ViewsAssumption == Cores \subseteq Nat \ {0} /\ {MaxEntries, MaxReferences} \subseteq Nat \ {0}

VARIABLES
  handles,     (* the parameters objects: own_params_ and params_          *)
  cores,       (* core object -> name -> what its entry holds              *)
  references,  (* pointers to values, entries and iterators, still good    *)
  lost,        (* history: core objects leaked                             *)
  done         (* history: what the last operation was done to             *)

viewVars == <<handles, cores, references, lost, done>>

(* Entries: "plain" has its value in the table, or in memory of the program; a
   "block" is a string or an array, "strings" an array of blocks.          *)
Item(kind) == [kind |-> kind, core |-> 0]
NestedItem(c) == [kind |-> "nested", core |-> c]

Unused == Item("unused")
Empty == [n \in Names |-> Unused]
Dead == <<>>

Gone == 0
NoHandle == [own |-> Gone, params |-> Gone]

Live == {c \in Cores : cores[c] # Dead}
Exists(h) == handles[h] # NoHandle
Usable(h) == handles[h].params # Gone
Nested(entries) == {n \in Names : entries[n].kind = "nested"}
UsedNames(entries) == {n \in Names : entries[n].kind # "unused"}

(* The k-th object that can be allocated.                                  *)
Fresh(k) == CHOOSE c \in Cores \ Live : Cardinality({d \in Cores \ Live : d < c}) = k - 1
Available(k) == Cardinality(Cores \ Live) >= k

Init ==
  /\ handles = [h \in Handles |-> NoHandle]
  /\ cores = [c \in Cores |-> Dead]
  /\ references = {} /\ lost = {}
  /\ done = [op |-> "none", core |-> Gone, names |-> {}]

-----------------------------------------------------------------------------
(* Mutations of definitions below, for the runs that test the properties.  *)

(* A handle deletes what it works on.                                      *)
DeletedParams(handle) == handle.params

(* The pointers to nested objects are copied, not what they point to.      *)
MergedShallow(entries, other, copies) ==
  [n \in Names |-> IF other[n].kind = "unused" THEN entries[n] ELSE other[n]]

-----------------------------------------------------------------------------
(* The memory behind the operations.                                       *)

(* A core object with all that is nested in it, as ~parameters frees it.   *)
RECURSIVE Within(_)
Within(c) == {c} \cup UNION {Within(cores[c][n].core) : n \in Nested(cores[c])}

(* What entry n of c has, freed when it is replaced.                       *)
FreedAt(c, n) == IF n \in Nested(cores[c]) THEN Within(cores[c][n].core) ELSE {}

(* A table may be replaced by a larger one when a name is new.  Whether it is full
   is left open; it matters to references to its entries only.             *)
MayGrow(entries, names) == \E n \in names : entries[n].kind = "unused"
Grows(c, names) ==
  {grows \in BOOLEAN : grows => /\ MayGrow(cores[c], names)
                                /\ \E r \in references : r.core = c /\ r.kind = "entry"}

(* References into freed objects are no more, nor those of the kinds to the names
   of c, nor those to the entries of a table that has grown.               *)
Remaining(freed, c, names, kinds, grows) ==
  {r \in references : /\ r.core \notin freed
                      /\ ~(r.core = c /\ r.name \in names /\ r.kind \in kinds)
                      /\ ~(r.core = c /\ r.kind = "entry" /\ grows)}

WithoutViews(hs, freed) ==
  [h \in Handles |-> IF hs[h].params \in freed THEN [hs[h] EXCEPT !.params = Gone] ELSE hs[h]]

Kinds == {"value", "element", "entry"}
Did(op, c, names) == done' = [op |-> op, core |-> c, names |-> names]

(* Entry n of c becomes what; all that was at it is freed.                 *)
Put(c, n, what) ==
  LET freed == FreedAt(c, n)
  IN \E grows \in Grows(c, {n}) :
       /\ cores' = [d \in Cores |-> IF d = what.core THEN Empty
                                    ELSE IF d \in freed THEN Dead
                                    ELSE IF d = c THEN [cores[c] EXCEPT ![n] = what]
                                    ELSE cores[d]]
       /\ references' = Remaining(freed, c, {n}, {"value", "element"}, grows)
       /\ handles' = WithoutViews(handles, freed) /\ lost' = lost \ freed
       /\ Did("set", c, {n})

(* merge_from, on entries: the nested objects of the other are made anew, the
   others copied; what had their names is freed.                           *)
Copies(other, first) ==
  LET ns == Nested(other)
      rank(n) == Cardinality({m \in ns : other[m].core < other[n].core}) + first
  IN [n \in ns |-> Fresh(rank(n))]

Merged(entries, other, copies) ==
  [n \in Names |-> IF other[n].kind = "unused" THEN entries[n]
                   ELSE IF n \in DOMAIN copies THEN NestedItem(copies[n]) ELSE other[n]]

(* Bound: what is nested has nothing nested in it.                         *)
Shallow(c) == \A n \in Nested(cores[c]) : Nested(cores[cores[c][n].core]) = {}
IsNested(c) == \E d \in Live, n \in Names : cores[d][n].core = c

-----------------------------------------------------------------------------
(* Construction, copies, assignment, exchange and destruction.             *)

New(h) ==
  /\ ~Exists(h) /\ Available(1)
  /\ handles' = [handles EXCEPT ![h] = [own |-> Fresh(1), params |-> Fresh(1)]]
  /\ cores' = [cores EXCEPT ![Fresh(1)] = Empty]
  /\ Did("new", Fresh(1), {}) /\ UNCHANGED <<references, lost>>

(* parameters(core::parameters * external), for a nested object.           *)
View(h, v, n) ==
  /\ ~Exists(h) /\ Usable(v) /\ Available(1)
  /\ n \in Nested(cores[handles[v].params])
  /\ handles' = [handles EXCEPT ![h] =
       [own |-> Fresh(1), params |-> cores[handles[v].params][n].core]]
  /\ cores' = [cores EXCEPT ![Fresh(1)] = Empty]
  /\ Did("new", Fresh(1), {}) /\ UNCHANGED <<references, lost>>

(* The objects with the copies in place.                                   *)
WithCopies(copies, other) ==
  [d \in Cores |-> IF \E n \in DOMAIN copies : copies[n] = d
                   THEN cores[other[CHOOSE n \in DOMAIN copies : copies[n] = d].core]
                   ELSE cores[d]]

(* A copy of c is the first fresh object.                                  *)
CopiedCores(c) ==
  LET copies == Copies(cores[c], 2)
  IN [WithCopies(copies, cores[c]) EXCEPT ![Fresh(1)] = Merged(Empty, cores[c], copies)]

CanCopy(c) == Available(1 + Cardinality(Nested(cores[c]))) /\ Shallow(c)

Copy(h, v) ==
  /\ ~Exists(h) /\ Usable(v) /\ CanCopy(handles[v].params)
  /\ cores' = CopiedCores(handles[v].params)
  /\ handles' = [handles EXCEPT ![h] = [own |-> Fresh(1), params |-> Fresh(1)]]
  /\ Did("new", Fresh(1), {}) /\ UNCHANGED <<references, lost>>

(* auto_ptr deletes the object that the handle owns.                       *)
Deleted(handle) == handle.own

(* operator=: a temporary copy of the other, exchanged with this one, which dies
   with what this one had.  A view so becomes one no more, and what it viewed
   stays as it was.                                                        *)
Assign(h, v) ==
  LET freed == Within(Deleted(handles[h]))
  IN /\ Exists(h) /\ Usable(v) /\ CanCopy(handles[v].params)
     /\ Deleted(handles[h]) # Gone
     /\ cores' = [d \in Cores |-> IF d \in freed THEN Dead ELSE CopiedCores(handles[v].params)[d]]
     /\ handles' = WithoutViews([handles EXCEPT ![h] = [own |-> Fresh(1), params |-> Fresh(1)]], freed)
     /\ references' = {r \in references : r.core \notin freed}
     /\ lost' = lost \ freed /\ Did("delete", handles[h].own, Names)

Swap(h, v) ==
  /\ Exists(h) /\ Exists(v) /\ h # v
  /\ handles' = [handles EXCEPT ![h] = handles[v], ![v] = handles[h]]
  /\ Did("swap", Gone, {}) /\ UNCHANGED <<cores, references, lost>>

Destroy(h) ==
  LET freed == Within(Deleted(handles[h]))
  IN /\ Exists(h) /\ Deleted(handles[h]) # Gone
     /\ cores' = [d \in Cores |-> IF d \in freed THEN Dead ELSE cores[d]]
     /\ handles' = WithoutViews([handles EXCEPT ![h] = NoHandle], freed)
     /\ references' = {r \in references : r.core \notin freed}
     /\ lost' = lost \ freed /\ Did("delete", handles[h].own, Names)

-----------------------------------------------------------------------------
(* Entries.  What a handle works on is at params_.                         *)

At(h) == handles[h].params

(* The types whose value is in the table.                                  *)
SetScalar(h, n) == Usable(h) /\ Put(At(h), n, Item("plain"))

(* A shallow string stays where the program has it.                        *)
SetText(h, n) ==
  /\ Usable(h)
  /\ \E kind \in {"block", "plain"} : Put(At(h), n, Item(kind))

(* So does a shallow array, "plain"; but the overloads for a const char * name copy
   it, though parameters.h:292 says "not copied".                          *)
SetArray(h, n) ==
  /\ Usable(h)
  /\ \E kind \in {"block", "plain"} : Put(At(h), n, Item(kind))

CreateStringArray(h, n) == Usable(h) /\ Put(At(h), n, Item("strings"))

(* The element that was there is freed, the array stays.                   *)
SetElement(h, n) ==
  /\ Usable(h) /\ cores[At(h)][n].kind = "strings"
  /\ references' = {r \in references : ~(r.core = At(h) /\ r.name = n /\ r.kind = "element")}
  /\ Did("set", At(h), {n}) /\ UNCHANGED <<handles, cores, lost>>

(* Bound: nothing is nested in what is nested.                             *)
CreateNested(h, n) ==
  /\ Usable(h) /\ Available(1) /\ ~IsNested(At(h)) /\ At(h) \notin lost
  /\ Put(At(h), n, NestedItem(Fresh(1)))

(* clear_item leaves what is nested where it is.                           *)
Remove(c, n) ==
  /\ cores' = [cores EXCEPT ![c][n] = Unused]
  /\ lost' = IF n \in Nested(cores[c]) THEN lost \cup {cores[c][n].core} ELSE lost
  /\ references' = Remaining({}, c, {n}, Kinds, FALSE)
  /\ Did("remove", c, {n}) /\ UNCHANGED handles

RemoveByName(h, n) == Usable(h) /\ cores[At(h)][n].kind # "unused" /\ Remove(At(h), n)

RemoveByIterator(r) == r.kind = "entry" /\ Remove(r.core, r.name)

Clear(h) ==
  LET freed == Within(At(h)) \ {At(h)}
  IN /\ Usable(h)
     /\ cores' = [d \in Cores |-> IF d \in freed THEN Dead
                                  ELSE IF d = At(h) THEN Empty ELSE cores[d]]
     /\ handles' = WithoutViews(handles, freed)
     /\ references' = Remaining(freed, At(h), Names, Kinds, TRUE)
     /\ lost' = lost \ freed /\ Did("clear", At(h), Names)

(* The other is written out first, so that it may be anything.             *)
Merge(h, v) ==
  LET c == At(h)
      other == cores[At(v)]
      copies == Copies(other, 1)
      entries == Merged(cores[c], other, copies)
      freed == UNION {FreedAt(c, n) : n \in UsedNames(other)}
  IN /\ Usable(h) /\ Usable(v)
     /\ Available(Cardinality(Nested(other))) /\ Shallow(At(v))
     /\ (Nested(other) # {} => ~IsNested(c) /\ c \notin lost)
     /\ cores' = [d \in Cores |-> IF d = c THEN entries
                                  ELSE IF d \in freed THEN Dead
                                  ELSE WithCopies(copies, other)[d]]
     /\ handles' = WithoutViews(handles, freed)
     /\ \E grows \in Grows(c, UsedNames(other)) :
          references' = Remaining(freed, c, UsedNames(other), {"value", "element"}, grows)
     /\ lost' = lost \ freed /\ Did("merge", c, UsedNames(other))

-----------------------------------------------------------------------------
(* What the program may keep: get_string and its like that return pointers,
   get_string_in_array, find and begin.                                    *)

Keep(kind, h, n) ==
  /\ Cardinality(references) < MaxReferences
  /\ references' = references \cup {[kind |-> kind, core |-> At(h), name |-> n]}
  /\ Did("get", At(h), {}) /\ UNCHANGED <<handles, cores, lost>>

GetText(h, n) == Usable(h) /\ cores[At(h)][n].kind = "block" /\ Keep("value", h, n)
GetArray(h, n) == Usable(h) /\ cores[At(h)][n].kind = "block" /\ Keep("value", h, n)
GetElement(h, n) == Usable(h) /\ cores[At(h)][n].kind = "strings" /\ Keep("element", h, n)
FindEntry(h, n) == Usable(h) /\ cores[At(h)][n].kind # "unused" /\ Keep("entry", h, n)

(* The same by the entry, which the program then needs no more.            *)
KeepInstead(r, kind) ==
  /\ references' = (references \ {r}) \cup {[r EXCEPT !.kind = kind]}
  /\ Did("get", r.core, {r.name}) /\ UNCHANGED <<handles, cores, lost>>

GetByEntry(r) ==
  r.kind = "entry" /\ cores[r.core][r.name].kind = "block" /\ KeepInstead(r, "value")
GetElementByEntry(r) ==
  r.kind = "entry" /\ cores[r.core][r.name].kind = "strings" /\ KeepInstead(r, "element")

ViewByEntry(h, r) ==
  /\ ~Exists(h) /\ Available(1)
  /\ r.kind = "entry" /\ cores[r.core][r.name].kind = "nested"
  /\ handles' = [handles EXCEPT ![h] = [own |-> Fresh(1), params |-> cores[r.core][r.name].core]]
  /\ cores' = [cores EXCEPT ![Fresh(1)] = Empty]
  /\ Did("new", Fresh(1), {}) /\ UNCHANGED <<references, lost>>

Next ==
  \/ \E h \in Handles : New(h) \/ Destroy(h) \/ Clear(h)
  \/ \E h, v \in Handles : Copy(h, v) \/ Assign(h, v) \/ Swap(h, v) \/ Merge(h, v)
  \/ \E h, v \in Handles, n \in Names : View(h, v, n)
  \/ \E h \in Handles, n \in Names :
       \/ SetScalar(h, n) \/ SetText(h, n) \/ SetArray(h, n)
       \/ CreateStringArray(h, n) \/ SetElement(h, n) \/ CreateNested(h, n)
       \/ RemoveByName(h, n) \/ GetText(h, n) \/ GetArray(h, n) \/ GetElement(h, n) \/ FindEntry(h, n)
  \/ \E r \in references :
       \/ RemoveByIterator(r) \/ GetByEntry(r) \/ GetElementByEntry(r)
       \/ \E h \in Handles : ViewByEntry(h, r)

Bounded ==
  Cardinality({p \in Live \X Names : cores[p[1]][p[2]].kind # "unused"}) <= MaxEntries

Spec == Init /\ [][Next /\ Bounded']_viewVars

-----------------------------------------------------------------------------
(* Properties.                                                             *)

(* Every core object is deleted once: each that lives is owned by one handle or by
   one entry of an object that lives, or is one of those lost with the entry that
   was removed; and a handle owns an object that lives.                    *)
Owners(c) ==
  Cardinality({h \in Handles : handles[h].own = c}) +
  Cardinality({p \in Live \X Names : cores[p[1]][p[2]].core = c})

OwnedOnce ==
  /\ \A c \in Live : Owners(c) = IF c \in lost THEN 0 ELSE 1
  /\ \A h \in Handles : Exists(h) => handles[h].own \in Live

(* A reference, or an object and the views of it, is lost only by what is done at
   its name or above it: not by an assignment to a view, an exchange, the death of
   a copy or of a view, nor what is done to other names, but that a table which
   grows takes the references to its entries along.                        *)
RECURSIVE Above(_)
Above(c) == {c} \cup UNION {Above(d) : d \in {e \in Live : \E n \in Names : cores[e][n].core = c}}

DoneAbove(c) ==
  /\ done'.core \in Above(c)
  /\ \/ done'.op = "delete"
     \/ \E n \in done'.names : n \in Nested(cores[done'.core]) /\ cores[done'.core][n].core \in Above(c)

DoneTo(r) ==
  \/ DoneAbove(r.core)
  \/ done'.core = r.core /\ r.name \in done'.names
  \/ r.kind = "entry" /\ r.core = done'.core /\ MayGrow(cores[r.core], done'.names)

ReferencesStay ==
  [][/\ \A r \in references \ references' : done'.op # "get" => DoneTo(r)
     /\ \A c \in Live : cores'[c] = Dead => DoneAbove(c)]_viewVars

=============================================================================
