-------------------------------- MODULE Json --------------------------------
(***************************************************************************)
(* Json: a type tag and a union, which for a string, an array or an object *)
(* is a pointer to a block on the heap.  There is no destructor; clear()   *)
(* deletes the block, not what its elements point to; the copy constructor *)
(* copies the pointer and leaves m_type as the memory happens to be.       *)
(*                                                                         *)
(* A Json object lives in a variable or in an element of a block, its      *)
(* place.  As in List, jsonLegal says whether every call so far was one    *)
(* that works, and no call is made after another one.                      *)
(***************************************************************************)
EXTENDS Integers, FiniteSets

CONSTANTS Docs,         \* variables of the caller
          ScalarTypes,  \* json_bool, json_int, json_double
          Keys, MaxBlocks

VARIABLES json,   \* [at |-> the Json of a place, blocks |-> the kind of each block, ok]
          jsonLegal
jsonVars == <<json, jsonLegal>>

Nil == 0
Blocks == 1 .. MaxBlocks
BlockTypes == {"string", "array", "object"}
Unset == "indeterminate"     \* an m_type that was never written
ASSUME JsonAssumption ==
    MaxBlocks \in Nat /\ ScalarTypes \cap (BlockTypes \cup {Unset}) = {}

Var(d) == <<Nil, d>>
Elem(b, k) == <<b, k>>
NullJson == [type |-> "null", ptr |-> Nil]

JsonInit ==
    /\ json = [at |-> [p \in {Var(d) : d \in Docs} |-> NullJson],
               blocks |-> [b \in Blocks |-> "free"], ok |-> TRUE]
    /\ jsonLegal = TRUE

-----------------------------------------------------------------------------
Put(s, p, j) == [s EXCEPT !.at = [q \in DOMAIN @ \cup {p} |-> IF q = p THEN j ELSE @[q]]]
ElementsOf(s, b) == {p \in DOMAIN s.at : p[1] = b}
HasBlock(s, p) == s.at[p].type \in BlockTypes
\* delete: the elements of the block go, what they point to stays.
FreeBlock(s, b) == [s EXCEPT !.at = [q \in DOMAIN @ \ ElementsOf(s, b) |-> @[q]], !.blocks[b] = "free"]
SomeFree(s) == \E b \in Blocks : s.blocks[b] = "free"
New(s, p, t) ==
    LET b == CHOOSE b \in Blocks : s.blocks[b] = "free" /\ \A c \in Blocks : s.blocks[c] = "free" => b <= c
    IN  Put([s EXCEPT !.blocks[b] = t], p, [type |-> t, ptr |-> b])

\* Mutant: the type and the pointer stay.
Mut_ClearJson(s, p) == IF HasBlock(s, p) THEN FreeBlock(s, s.at[p].ptr) ELSE s
ClearJson(s, p) ==
    LET t == IF HasBlock(s, p) THEN FreeBlock(s, s.at[p].ptr) ELSE s
    IN  Put(t, p, NullJson)

\* What the copy constructor makes of an element: its union, and any type.
Copied(j) == IF j.type = Unset THEN j ELSE [type |-> Unset, ptr |-> j.ptr]
\* new vector<Json>(other) and new map(other), with every element copied.
CopyElements(s, from, to) ==
    [s EXCEPT !.at = [q \in DOMAIN @ \cup {Elem(to, p[2]) : p \in ElementsOf(s, from)} |->
                         IF q[1] = to THEN Copied(@[Elem(from, q[2])]) ELSE @[q]]]

SetType(s, p, t) == IF s.at[p].type = t THEN s
                    ELSE IF t \in BlockTypes THEN New(ClearJson(s, p), p, t)
                    ELSE Put(ClearJson(s, p), p, [type |-> t, ptr |-> Nil])

\* this # &other: clear first, then copy by the type that other has now.
AssignJson(s, p, q) ==
    LET t == ClearJson(s, p)
    IN  IF q \notin DOMAIN t.at THEN [t EXCEPT !.ok = FALSE]
        ELSE IF ~HasBlock(t, q) THEN Put(t, p, t.at[q])
        ELSE LET u == New(t, p, t.at[q].type)
             IN  CopyElements(u, t.at[q].ptr, u.at[p].ptr)

-----------------------------------------------------------------------------
JsonCall(s, works) == json' = s /\ jsonLegal' = works

\* Nothing that the block of this place holds has a block of its own.
Flat(p) == HasBlock(json, p) => \A e \in ElementsOf(json, json.at[p].ptr) : ~HasBlock(json, e)
Places == DOMAIN json.at
EmptyHere(p) == HasBlock(json, p) => ElementsOf(json, json.at[p].ptr) = {}

\* Json(type), Json("..."): a new variable, of any type.
construct(d, t) ==
    /\ json.at[Var(d)].type = "null" /\ (t \in BlockTypes => SomeFree(json))
    /\ JsonCall(SetType(json, Var(d), t), TRUE)

\* The variable goes out of scope; without a destructor its block is lost.
ScopeEnds(d) == JsonCall(Put(json, Var(d), NullJson), ~HasBlock(json, Var(d)))

clear_json(p) == JsonCall(ClearJson(json, p), Flat(p))

\* operator= of a scalar or a string: a place that has the type keeps it.
assign_value(p, t) ==
    /\ t \in BlockTypes /\ json.at[p].type # t => SomeFree(ClearJson(json, p))
    /\ JsonCall(SetType(json, p, t), json.at[p].type = t \/ Flat(p))

\* operator[](key): another type is cleared; a missing key gets Json().
at_key(p, k) ==
    /\ json.at[p].type = "object" \/ SomeFree(ClearJson(json, p))
    /\ LET s == SetType(json, p, "object")
           e == Elem(s.at[p].ptr, k)
       IN  JsonCall(IF e \in DOMAIN s.at THEN s ELSE Put(s, e, NullJson), json.at[p].type = "object" \/ Flat(p))

\* operator[](index): the array is made even if the index is then refused; the
\* missing elements are copies of Json(), of indeterminate type.
at_index(p, i) ==
    /\ json.at[p].type = "array" \/ SomeFree(ClearJson(json, p))
    /\ LET s == SetType(json, p, "array")
           b == s.at[p].ptr
           n == Cardinality(ElementsOf(s, b))
       IN  JsonCall([s EXCEPT !.at = [q \in DOMAIN @ \cup {Elem(b, k) : k \in n .. i} |->
                                         IF q \in DOMAIN @ THEN @[q] ELSE Copied(NullJson)]],
                    (json.at[p].type = "array" \/ Flat(p)) /\ i < n)

\* append does not clear what was there before, and copies the element.
append(p, q) ==
    /\ json.at[p].type = "array" \/ SomeFree(json)
    /\ LET s == IF json.at[p].type = "array" THEN json ELSE New(json, p, "array")
           b == s.at[p].ptr
       IN  JsonCall(Put(s, Elem(b, Cardinality(ElementsOf(s, b))), Copied(s.at[q])), FALSE)

\* operator=(const Json &): an element of this is gone before it is copied.
assign_json(p, q) ==
    /\ HasBlock(json, q) => SomeFree(ClearJson(json, p))
    /\ IF p = q THEN UNCHANGED jsonVars
       ELSE JsonCall(AssignJson(json, p, q),
                     Flat(p) /\ EmptyHere(q) /\ ~(HasBlock(json, p) /\ q[1] = json.at[p].ptr))

\* remove(key) erases the element from the map, and not its block.
remove_key(p, k) ==
    /\ json.at[p].type = "object"
    /\ LET e == Elem(json.at[p].ptr, k)
       IN  /\ e \in Places
           /\ JsonCall([json EXCEPT !.at = [q \in DOMAIN @ \ {e} |-> @[q]]], ~HasBlock(json, e))

JsonNext ==
    /\ jsonLegal
    /\ \/ \E d \in Docs : ScopeEnds(d) \/ \E t \in ScalarTypes \cup BlockTypes : construct(d, t)
       \/ \E p \in Places :
             \/ clear_json(p)
             \/ \E t \in ScalarTypes \cup {"string"} : assign_value(p, t)
             \/ \E k \in Keys : at_key(p, k) \/ remove_key(p, k)
             \/ \E i \in -1 .. 1 : at_index(p, i)
             \/ \E q \in Places : append(p, q) \/ assign_json(p, q)

-----------------------------------------------------------------------------
\* Safety.  Every block has exactly one Json that points to it, of its kind,
\* and every Json has a type -- exactly as long as no array got an element, no
\* object or array with elements was copied, and nothing was cleared, replaced
\* or left whose elements own blocks.
JsonOwnership ==
    jsonLegal <=>
        /\ json.ok
        /\ \A p \in Places : json.at[p].type # Unset
        /\ \A p \in Places : HasBlock(json, p) => json.blocks[json.at[p].ptr] = json.at[p].type
        /\ \A b \in Blocks : Cardinality({p \in Places : json.at[p].ptr = b}) =
                                 IF json.blocks[b] = "free" THEN 0 ELSE 1

=============================================================================
