--------------------------------- MODULE Xml --------------------------------
(***************************************************************************)
(* XML: an element with pointers to its name, attributes, text and list of *)
(* children, each a block on the heap.  The copy constructor and operator= *)
(* copy the four pointers; there is no destructor, so that a temporary     *)
(* leaves its blocks to its copy; clear() deletes an element with all that *)
(* is below it.  An element lives in a variable or in a list of children.  *)
(***************************************************************************)
EXTENDS Integers, Sequences, FiniteSets

CONSTANTS Roots, Names, MaxXml, MaxChildren   \* bounds of the blocks and of a list

VARIABLES xml,       \* [root, lists, names, live, ok]; ok: what was assigned is there
          xmlLegal
xmlVars == <<xml, xmlLegal>>

NoBlock == 0
XmlBlocks == 1 .. MaxXml
NoElement == [m_name |-> NoBlock, m_attrs |-> NoBlock, m_text |-> NoBlock, m_children |-> NoBlock]
Fields == DOMAIN NoElement
Pointers(e) == {e[f] : f \in Fields} \ {NoBlock}

XmlInit ==
    /\ xml = [root |-> [r \in Roots |-> NoElement],        \* the variables
              lists |-> [b \in XmlBlocks |-> <<>>],        \* the list in a block
              names |-> [b \in XmlBlocks |-> ""],          \* the name in a block
              live |-> {}, ok |-> TRUE]
    /\ xmlLegal = TRUE

-----------------------------------------------------------------------------
\* Where an element is: <<NoBlock, r>> for a variable, <<b, i>> in a list.
Spots(s) == {<<NoBlock, r>> : r \in Roots} \cup {<<b, i>> \in s.live \X (1 .. MaxChildren) : i <= Len(s.lists[b])}
Get(s, p) == IF p[1] = NoBlock THEN s.root[p[2]] ELSE s.lists[p[1]][p[2]]
Store(s, p, e) == IF p[1] = NoBlock THEN [s EXCEPT !.root[p[2]] = e] ELSE [s EXCEPT !.lists[p[1]][p[2]] = e]

NextBlock(s) == CHOOSE b \in XmlBlocks \ s.live : \A c \in XmlBlocks \ s.live : b <= c
\* new string(n), new map or new list for one of the pointers of an element.
NewBlock(s, p, f, n) ==
    LET b == NextBlock(s)
    IN  Store([s EXCEPT !.live = @ \cup {b}, !.names[b] = n], p, [Get(s, p) EXCEPT ![f] = b])
DeleteBlocks(s, bs) == [s EXCEPT !.live = @ \ bs, !.lists = [b \in XmlBlocks |-> IF b \in bs THEN <<>> ELSE @[b]],
                                 !.names = [b \in XmlBlocks |-> IF b \in bs THEN "" ELSE @[b]]]

\* The blocks of an element and of all that are below it.
Below(s, e) ==
    LET reach[k \in 0 .. MaxXml] ==
            IF k = 0 THEN Pointers(e)
            ELSE reach[k - 1] \cup UNION {UNION {Pointers(s.lists[b][i]) : i \in 1 .. Len(s.lists[b])} : b \in reach[k - 1]}
    IN  reach[MaxXml]

\* Mutant: the children are not cleared before their list is deleted.
Mut_ClearXml(s, p) == DeleteBlocks(Store(s, p, NoElement), Pointers(Get(s, p)))

ClearXml(s, p) == DeleteBlocks(Store(s, p, NoElement), Below(s, Get(s, p)))

name(s, e) == IF e.m_name = NoBlock THEN "" ELSE s.names[e.m_name]
WithChildren(s, p) == IF Get(s, p).m_children = NoBlock THEN NewBlock(s, p, "m_children", "") ELSE s
Children(s, p) == s.lists[Get(s, p).m_children]
PushChild(s, p, e) == [s EXCEPT !.lists[Get(s, p).m_children] = Append(@, e)]
\* push_back(XML(n)): the copy in the list keeps the temporary's block.
PushNew(s, p, n) == LET t == PushChild(s, p, NoElement)
                    IN  NewBlock(t, <<Get(s, p).m_children, Len(Children(t, p))>>, "m_name", n)

DropChild(s, p, i) ==
    LET b == Get(s, p).m_children
        t == ClearXml(s, <<b, i>>)
    IN  [t EXCEPT !.lists[b] = SubSeq(@, 1, i - 1) \o SubSeq(@, i + 1, Len(@))]

-----------------------------------------------------------------------------
XmlCall(s, works) == xml' = s /\ xmlLegal' = works
FreeXml(n) == Cardinality(xml.live) + n <= MaxXml
FreeChild(p) == Get(xml, p).m_children # NoBlock => Len(Children(xml, p)) < MaxChildren

\* setName and setText delete the old string; setAttr and attr make the map.
setName(p, n) ==
    /\ FreeXml(1)
    /\ LET old == Get(xml, p).m_name
       IN  XmlCall(NewBlock(IF old = NoBlock THEN xml ELSE DeleteBlocks(xml, {old}), p, "m_name", n), TRUE)
setText(p) ==
    /\ FreeXml(1)
    /\ LET old == Get(xml, p).m_text
       IN  XmlCall(NewBlock(IF old = NoBlock THEN xml ELSE DeleteBlocks(xml, {old}), p, "m_text", ""), TRUE)
setAttr(p) ==
    /\ FreeXml(1)
    /\ XmlCall(IF Get(xml, p).m_attrs = NoBlock THEN NewBlock(xml, p, "m_attrs", "") ELSE xml, TRUE)

clear_xml(p) == XmlCall(ClearXml(xml, p), TRUE)

\* append(XML(n)) and append(x): of an element that stays, the pointers are
\* in two places afterwards.
append_new(p, n) == FreeXml(2) /\ FreeChild(p) /\ XmlCall(PushNew(WithChildren(xml, p), p, n), TRUE)
append_copy(p, q) ==
    /\ FreeXml(1) /\ FreeChild(p)
    /\ LET s == WithChildren(xml, p)
       IN  XmlCall(PushChild(s, p, Get(s, q)), Get(s, q) = NoElement)

\* operator[](index) appends nameless elements; operator[](name) finds the
\* first child of that name or appends one.
at_child(p, i) ==
    /\ FreeXml(1)
    /\ LET s == WithChildren(xml, p)
           missing == IF i >= Len(Children(s, p)) THEN i + 1 - Len(Children(s, p)) ELSE 0
       IN  XmlCall([s EXCEPT !.lists[Get(s, p).m_children] = @ \o [k \in 1 .. missing |-> NoElement]], TRUE)
at_name(p, n) ==
    /\ FreeXml(2) /\ FreeChild(p)
    /\ LET s == WithChildren(xml, p)
       IN  XmlCall(IF \E i \in 1 .. Len(Children(s, p)) : name(s, Children(s, p)[i]) = n THEN s ELSE PushNew(s, p, n),
                   TRUE)

\* operator=: clear, then the pointers of other.  An element of this list is
\* gone by then, and an element assigned to itself is cleared.
assign_xml(p, q) ==
    LET s == ClearXml(xml, p)
        inside == q[1] \in Below(xml, Get(xml, p))
        t == IF inside THEN s ELSE Store(s, p, Get(s, q))
    IN  XmlCall([t EXCEPT !.ok = ~inside /\ Get(t, p) = Get(xml, q)],
                ~inside /\ Get(xml, q) = NoElement)
assign_new(p, n) == FreeXml(1) /\ XmlCall(NewBlock(ClearXml(xml, p), p, "m_name", n), TRUE)

remove_at(p, i) == /\ Get(xml, p).m_children # NoBlock
                   /\ i <= Len(Children(xml, p))
                   /\ XmlCall(DropChild(xml, p, i), TRUE)
\* remove(name) takes out every child of that name.
remove_name(p, n) ==
    /\ Get(xml, p).m_children # NoBlock
    /\ LET len == Len(Children(xml, p))
           sweep[k \in 0 .. len] ==
               IF k = 0 THEN xml
               ELSE LET s == sweep[k - 1]
                        i == len + 1 - k
                    IN  IF name(s, Children(s, p)[i]) = n THEN DropChild(s, p, i) ELSE s
       IN  XmlCall(sweep[len], TRUE)

\* The variable goes out of scope; its blocks stay behind.
XmlScopeEnds(r) == XmlCall([xml EXCEPT !.root[r] = NoElement], xml.root[r] = NoElement)

XmlNext ==
    /\ xmlLegal
    /\ \/ \E r \in Roots : XmlScopeEnds(r)
       \/ \E p \in Spots(xml) :
             \/ setText(p) \/ setAttr(p) \/ clear_xml(p)
             \/ \E n \in Names : \/ setName(p, n) \/ append_new(p, n) \/ at_name(p, n)
                                 \/ assign_new(p, n) \/ remove_name(p, n)
             \/ \E q \in Spots(xml) : append_copy(p, q) \/ assign_xml(p, q)
             \/ \E i \in 0 .. MaxChildren - 1 : at_child(p, i)
             \/ \E i \in 1 .. MaxChildren : remove_at(p, i)

-----------------------------------------------------------------------------
\* Safety.  Every block has exactly one pointer to it and every pointer a
\* block, and what is assigned is there afterwards -- exactly as long as only
\* temporaries and empty elements were copied and nothing went out of scope
\* before it was cleared.
XmlOwnership ==
    xmlLegal <=>
        /\ xml.ok
        /\ \A b \in XmlBlocks :
              Cardinality({x \in Spots(xml) \X Fields : Get(xml, x[1])[x[2]] = b}) = IF b \in xml.live THEN 1 ELSE 0

=============================================================================
