-------------------------------- MODULE List --------------------------------
(***************************************************************************)
(* List<T>: a doubly linked list with a count.  The state is the heap of   *)
(* nodes and the m_head, m_tail and m_size of the lists.  Beside it runs a *)
(* sequence for each list: what the calls made so far should have left.    *)
(*                                                                         *)
(* Several calls do not do that for all arguments.  listLegal says whether *)
(* every call so far was one that works; after another one no more calls   *)
(* are made, for the program's state is then undefined.                    *)
(***************************************************************************)
EXTENDS Integers, Sequences, FiniteSets

CONSTANTS Lists, Items, Blank,   \* Blank is the value T()
          MaxNodes

VARIABLES
    list,        \* the heap and the lists
    listRef,     \* listRef[l]: what list l should hold
    listWant,    \* <<l, i>>: the call should have returned element i of l
    listLegal

listVars == <<list, listRef, listWant, listLegal>>

Null == 0
Throw == -1
Wild == -2      \* a pointer that was never set, and is not null
NoResult == <<0, 0>>
Addrs == 1 .. MaxNodes

ListInit ==
    /\ list = [next |-> [a \in Addrs |-> Null], prev |-> [a \in Addrs |-> Null],
               val |-> [a \in Addrs |-> Blank], live |-> {},
               head |-> [l \in Lists |-> Null], tail |-> [l \in Lists |-> Null],
               size |-> [l \in Lists |-> 0], ok |-> TRUE, ret |-> Null, cur |-> Null]
    /\ listRef = [l \in Lists |-> <<>>]
    /\ listWant = NoResult
    /\ listLegal = TRUE

-----------------------------------------------------------------------------
\* A loop that runs n times, or that has ended before.
Times(Step(_), s, n) ==
    LET after[i \in 0 .. n] == IF i = 0 THEN s ELSE Step(after[i - 1])
    IN  after[n]

Crash(s) == [s EXCEPT !.ok = FALSE]
Fresh(s) == CHOOSE a \in Addrs \ s.live : \A b \in Addrs \ s.live : a <= b
NewNode(s, v) == LET a == Fresh(s) IN
    [s EXCEPT !.live = @ \cup {a}, !.val[a] = v, !.next[a] = Null, !.prev[a] = Null]
Delete(s, a) == [s EXCEPT !.live = @ \ {a}, !.val[a] = Blank, !.next[a] = Null, !.prev[a] = Null]

\* end() of an empty list is an iterator whose pointer is never set, and it may
\* differ from call to call.
begin(s, l) == s.head[l]
Ends(s, l) == IF s.size[l] = 0 THEN {Null, Wild} ELSE {s.next[s.tail[l]]}

\* The node of the i-th element.
At(s, l, i) ==
    LET node[k \in 0 .. i] == IF k = 0 THEN Null
                              ELSE IF k = 1 THEN s.head[l]
                              ELSE IF node[k - 1] \in Addrs THEN s.next[node[k - 1]] ELSE Null
    IN  node[i]

PushFront(s, l, v) ==
    LET a == Fresh(s)
        t == NewNode(s, v)
    IN  IF s.size[l] = 0
        THEN [t EXCEPT !.head[l] = a, !.tail[l] = a, !.size[l] = @ + 1]
        ELSE [t EXCEPT !.prev[s.head[l]] = a, !.next[a] = s.head[l], !.head[l] = a, !.size[l] = @ + 1]

\* Mutant: the new node does not point back.
Mut_PushBack(s, l, v) ==
    LET a == Fresh(s)
        t == NewNode(s, v)
    IN  IF s.size[l] = 0
        THEN [t EXCEPT !.head[l] = a, !.tail[l] = a, !.size[l] = @ + 1]
        ELSE [t EXCEPT !.next[s.tail[l]] = a, !.tail[l] = a, !.size[l] = @ + 1]

PushBack(s, l, v) ==
    LET a == Fresh(s)
        t == NewNode(s, v)
    IN  IF s.size[l] = 0
        THEN [t EXCEPT !.head[l] = a, !.tail[l] = a, !.size[l] = @ + 1]
        ELSE [t EXCEPT !.next[s.tail[l]] = a, !.prev[a] = s.tail[l], !.tail[l] = a, !.size[l] = @ + 1]

\* The only node of a list is deleted by both pops.
PopOnly(s, l) == [Delete(s, s.head[l]) EXCEPT !.head[l] = Null, !.tail[l] = Null, !.size[l] = @ - 1]

\* With two or more nodes it is the second that is deleted, and made the head.
PopFront(s, l) ==
    IF s.size[l] = 0 THEN s
    ELSE IF s.size[l] = 1 THEN PopOnly(s, l)
    ELSE LET second == s.next[s.head[l]]
         IN  [Delete(s, second) EXCEPT !.head[l] = second, !.size[l] = @ - 1]

PopBack(s, l) ==
    IF s.size[l] = 0 THEN s
    ELSE IF s.size[l] = 1 THEN PopOnly(s, l)
    ELSE LET last == s.prev[s.tail[l]]
         IN  [Delete(s, s.tail[l]) EXCEPT !.next[last] = Null, !.tail[l] = last, !.size[l] = @ - 1]

Clear(s, l) == Times(LAMBDA t : PopBack(t, l), s, s.size[l])

InsertBefore(s, v, pos) ==
    LET a == Fresh(s)
        before == s.prev[pos]
    IN  IF pos = Wild THEN Crash(s)
        ELSE [NewNode(s, v) EXCEPT !.prev[a] = before, !.next[before] = a, !.next[a] = pos, !.prev[pos] = a,
                                   !.cur = a]

\* `end' is what end() returns inside the call, here and in Erase.
Insert(s, l, pos, n, v, end) ==
    IF pos = begin(s, l)
    THEN LET t == Times(LAMBDA u : PushFront(u, l, v), s, n) IN [t EXCEPT !.ret = begin(t, l)]
    ELSE IF pos = end
    THEN [Times(LAMBDA u : PushBack(u, l, v), s, n) EXCEPT !.ret = s.tail[l]]
    ELSE LET t == Times(LAMBDA u : InsertBefore(u, v, u.cur), [s EXCEPT !.cur = pos], n)
         IN  [t EXCEPT !.size[l] = @ + n, !.ret = t.cur, !.cur = Null]

\* m_tail is left alone: it points to the deleted node if that was the last.
EraseMiddle(s, l, node) ==
    LET before == s.prev[node]
        after == s.next[node]
        t == [s EXCEPT !.next = IF before = Null THEN @ ELSE [@ EXCEPT ![before] = after],
                       !.prev = IF after = Null THEN @ ELSE [@ EXCEPT ![after] = before]]
    IN  [Delete(t, node) EXCEPT !.size[l] = @ - 1, !.ret = after]

Erase(s, l, pos, end) ==
    IF pos = begin(s, l)
    THEN IF s.size[l] > 1
         THEN LET second == s.next[pos]
              IN  [Delete(s, pos) EXCEPT !.head[l] = second, !.prev[second] = Null,
                                         !.size[l] = @ - 1, !.ret = second]
         ELSE [(IF pos = Null THEN s ELSE Delete(s, pos)) EXCEPT
                  !.head[l] = Null, !.tail[l] = Null, !.size[l] = @ - 1, !.ret = Null]
    ELSE IF pos = end THEN [s EXCEPT !.ret = pos]
    ELSE IF pos = Wild THEN Crash(s)
    ELSE EraseMiddle(s, l, pos)

\* The loop steps on from the node it has just erased.
EraseRange(s, l, first, last, end) ==
    IF first = last THEN [s EXCEPT !.ret = last] ELSE Crash(Erase(s, l, first, end))

\* What an argument that is a reference reads as: arg.value, but arg.then once
\* the node arg.own it is a part of, if any, has been deleted.
Argument(s, arg) == IF arg.own \in s.live \cup {Null} THEN arg.value ELSE arg.then

\* The head is replaced as long as it matches; `node -> m_prev == nullptr'
\* assigns nothing, and reads a null pointer when no node is left: a build
\* that keeps the read traps.
RemoveHead(s, l, arg, trap) ==
    IF ~s.ok \/ s.head[l] = Null THEN s
    ELSE IF s.val[s.head[l]] # Argument(s, arg) THEN s
    ELSE LET second == s.next[s.head[l]]
         IN  IF second = Null /\ trap THEN Crash(s)
             ELSE [Delete(s, s.head[l]) EXCEPT !.head[l] = second, !.size[l] = @ - 1]

RemoveAfter(s, l, arg) ==
    IF ~s.ok \/ s.cur = Null THEN s
    ELSE LET second == s.next[s.cur] IN
         IF second = Null THEN s
         ELSE IF s.val[second] # Argument(s, arg) THEN [s EXCEPT !.cur = second]
         ELSE LET third == s.next[second] IN
              IF third = Null THEN Crash(s)
              ELSE [Delete(s, second) EXCEPT !.next[s.cur] = third, !.prev[third] = s.cur,
                                             !.size[l] = @ - 1, !.cur = third]

Remove(s, l, arg, trap) ==
    IF s.size[l] = 0 THEN s
    ELSE LET t == Times(LAMBDA u : RemoveHead(u, l, arg, trap), s, s.size[l])
             w == Times(LAMBDA u : RemoveAfter(u, l, arg), [t EXCEPT !.cur = t.head[l]], s.size[l])
         IN  [w EXCEPT !.cur = Null]

\* The bound of the loops is computed again in every round, from the new
\* m_size: half of the difference is made up.
Resize(s, l, n) ==
    IF n < s.size[l]
    THEN Times(LAMBDA t : PopBack(t, l), s, (s.size[l] - n + 1) \div 2)
    ELSE Times(LAMBDA t : PushBack(t, l, Blank), s, (n - s.size[l] + 1) \div 2)

Merge(s, l, o) ==
    IF s.tail[l] = Null \/ s.head[o] = Null THEN Crash(s)
    ELSE LET t == [s EXCEPT !.next[s.tail[l]] = s.head[o], !.prev[s.head[o]] = s.tail[l]]
             u == [t EXCEPT !.tail[l] = s.tail[o], !.size[l] = @ + s.size[o]]
         IN  [u EXCEPT !.head[o] = Null, !.tail[o] = Null, !.size[o] = 0]

SwapLists(s, l, o) ==
    [s EXCEPT !.head = [@ EXCEPT ![l] = s.head[o], ![o] = s.head[l]],
              !.tail = [@ EXCEPT ![l] = s.tail[o], ![o] = s.tail[l]],
              !.size = [@ EXCEPT ![l] = s.size[o], ![o] = s.size[l]]]

\* reserve() reverses the list.
Turn(s) == IF s.cur = Null THEN s
           ELSE [s EXCEPT !.next[s.cur] = s.prev[s.cur], !.prev[s.cur] = s.next[s.cur], !.cur = s.prev[s.cur]]
ReverseList(s, l) ==
    IF s.size[l] \in {0, 1} THEN s
    ELSE [Times(Turn, [s EXCEPT !.cur = s.tail[l]], s.size[l]) EXCEPT
             !.head[l] = s.tail[l], !.tail[l] = s.head[l], !.cur = Null]

Find(s, l, v) ==
    LET Passed(i) == \A j \in 1 .. i - 1 : s.val[At(s, l, j)] # v
        i == CHOOSE i \in 1 .. s.size[l] + 1 : Passed(i) /\ (i <= s.size[l] => s.val[At(s, l, i)] = v)
    IN  [s EXCEPT !.ret = At(s, l, i)]

-----------------------------------------------------------------------------
\* A call: the new lists, what they should hold and return, and whether the
\* call is one that works.
ListCall(s, r, w, works) ==
    /\ list' = IF w = NoResult THEN [s EXCEPT !.ret = Null] ELSE s
    /\ listRef' = r
    /\ listWant' = w
    /\ listLegal' = works

Room(n) == Cardinality(list.live) + n <= MaxNodes
Repeated(v, n) == [i \in 1 .. n |-> v]
Holds(l) == Len(listRef[l])
\* The sequence s with the elements i to j - 1 replaced by those of t.
Splice(s, i, j, t) == SubSeq(s, 1, i - 1) \o t \o SubSeq(s, j, Len(s))
With(l, s) == [listRef EXCEPT ![l] = s]

push_front(l, v) == Room(1) /\ ListCall(PushFront(list, l, v), With(l, <<v>> \o listRef[l]), NoResult, TRUE)
push_back(l, v) == Room(1) /\ ListCall(PushBack(list, l, v), With(l, Append(listRef[l], v)), NoResult, TRUE)
pop_front(l) == ListCall(PopFront(list, l), With(l, SubSeq(listRef[l], 2, Holds(l))), NoResult, Holds(l) <= 1)
pop_back(l) == ListCall(PopBack(list, l), With(l, SubSeq(listRef[l], 1, Holds(l) - 1)), NoResult, TRUE)
clear(l) == ListCall(Clear(list, l), With(l, <<>>), NoResult, TRUE)

\* front() and back() throw on an empty list; the reference they return is
\* that of a node.
front(l) == ListCall([list EXCEPT !.ret = IF list.size[l] = 0 THEN Throw ELSE list.head[l]],
                     listRef, <<l, IF Holds(l) = 0 THEN Throw ELSE 1>>, TRUE)
back(l) == ListCall([list EXCEPT !.ret = IF list.size[l] = 0 THEN Throw ELSE list.tail[l]],
                    listRef, <<l, IF Holds(l) = 0 THEN Throw ELSE Holds(l)>>, TRUE)

find(l, v) ==
    LET matches == {i \in 1 .. Holds(l) : listRef[l][i] = v} \cup {Holds(l) + 1}
    IN  ListCall(Find(list, l, v), listRef, <<l, CHOOSE i \in matches : \A j \in matches : i <= j>>, TRUE)

\* The iterators that stand for position i: on an empty list begin() or end().
Iterators(l, i) == IF Holds(l) = 0 THEN {Null, Wild} ELSE {At(list, l, i)}

\* The end of an empty list cannot be told from other pointers.
get_end(l) ==
    \E e \in Ends(list, l) : ListCall([list EXCEPT !.ret = e], listRef, <<l, Holds(l) + 1>>, e = Null)

\* insert at end() returns the old last element, not the first new one, and the
\* uninitialised end() of an empty list is found only by chance.
insert(l, i, n, v) ==
    /\ Room(n)
    /\ \E pos \in Iterators(l, i), end \in Ends(list, l) :
          ListCall(Insert(list, l, pos, n, v, end), With(l, Splice(listRef[l], i, i, Repeated(v, n))), <<l, i>>,
                   i <= Holds(l) \/ (Holds(l) = 0 /\ (pos = Null \/ (n = 0 /\ end = Wild))))

\* The insert of one value returns nothing: a build may keep its effect, and the
\* result is not looked at, or do anything else.
insert_one(l, i, v, kept) ==
    /\ Room(1)
    /\ \E pos \in Iterators(l, i), end \in Ends(list, l) :
          ListCall(IF kept THEN Insert(list, l, pos, 1, v, end) ELSE Crash(list),
                   With(l, Splice(listRef[l], i, i, <<v>>)), NoResult,
                   kept /\ (pos = Wild => end = Wild))

erase(l, i) ==
    \E pos \in Iterators(l, i), end \in Ends(list, l) :
       ListCall(Erase(list, l, pos, end), With(l, Splice(listRef[l], i, i + 1, <<>>)),
                <<l, i>>, Holds(l) > 0 /\ (i = Holds(l) => i = 1))

erase_range(l, i, j) ==
    \E first \in Iterators(l, i), last \in Iterators(l, j), end \in Ends(list, l) :
       ListCall(EraseRange(list, l, first, last, end), With(l, Splice(listRef[l], i, j, <<>>)),
                <<l, i>>, i = j /\ first = last /\ last # Wild)

assign(l, n, v) ==
    /\ Cardinality(list.live) - Holds(l) + n <= MaxNodes
    /\ ListCall(Times(LAMBDA s : PushBack(s, l, v), Clear(list, l), n), With(l, Repeated(v, n)), NoResult, TRUE)

\* An argument that is element k of the list is freed by clear() before it is
\* read, as whatever is there then.
assign_own(l, n, k, then) ==
    /\ Cardinality(list.live) - Holds(l) + n <= MaxNodes
    /\ ListCall(Times(LAMBDA s : PushBack(s, l, then), Clear(list, l), n), With(l, Repeated(listRef[l][k], n)),
                NoResult, n = 0 \/ then = listRef[l][k])

\* remove works for elements that are neither first, last nor next to another.
Apart(r, v) ==
    LET Hit(i) == i \in 1 .. Len(r) /\ r[i] = v
    IN  ~Hit(1) /\ ~Hit(Len(r)) /\ \A i \in 1 .. Len(r) : ~(Hit(i) /\ Hit(i + 1))
Without(r, v) == SelectSeq(r, LAMBDA x : x # v)

remove(l, v, trap) ==
    ListCall(Remove(list, l, [own |-> Null, value |-> v, then |-> v], trap),
             With(l, Without(listRef[l], v)), NoResult, Apart(listRef[l], v))

\* With element k of the list as its argument, which reads as something else
\* once its node has been deleted.
remove_own(l, k, then, trap) ==
    LET r == listRef[l]
    IN  ListCall(Remove(list, l, [own |-> At(list, l, k), value |-> r[k], then |-> then], trap),
                 With(l, Without(r, r[k])), NoResult,
                 Apart(r, r[k]) /\ (then = r[k] \/ \A j \in k + 2 .. Len(r) : r[j] \notin {r[k], then}))

resize(l, n) ==
    /\ Room(n - Holds(l))
    /\ ListCall(Resize(list, l, n),
                With(l, [i \in 1 .. n |-> IF i <= Holds(l) THEN listRef[l][i] ELSE Blank]),
                NoResult, n - Holds(l) \in -1 .. 1)

merge(l, o) ==
    ListCall(Merge(list, l, o),
             [listRef EXCEPT ![l] = listRef[l] \o listRef[o], ![o] = IF o = l THEN @ ELSE <<>>],
             NoResult, l # o /\ Holds(l) > 0 /\ Holds(o) > 0)

swap(l, o) == /\ l # o
              /\ ListCall(SwapLists(list, l, o), [listRef EXCEPT ![l] = listRef[o], ![o] = listRef[l]],
                          NoResult, TRUE)

reserve(l) == ListCall(ReverseList(list, l), With(l, [i \in 1 .. Holds(l) |-> listRef[l][Holds(l) + 1 - i]]),
                       NoResult, TRUE)

ListNext ==
    /\ listLegal
    /\ \E l \in Lists :
          \/ \E v \in Items : \/ push_front(l, v) \/ push_back(l, v) \/ find(l, v)
                              \/ \E n \in 0 .. MaxNodes :
                                    assign(l, n, v) \/ \E k \in 1 .. Holds(l) : assign_own(l, n, k, v)
                              \/ \E i \in 1 .. Holds(l) + 1, n \in 0 .. 2 : insert(l, i, n, v)
                              \/ \E i \in 1 .. Holds(l) + 1, kept \in BOOLEAN : insert_one(l, i, v, kept)
                              \/ \E trap \in BOOLEAN :
                                    remove(l, v, trap) \/ \E k \in 1 .. Holds(l) : remove_own(l, k, v, trap)
          \/ pop_front(l) \/ pop_back(l) \/ clear(l) \/ front(l) \/ back(l) \/ get_end(l) \/ reserve(l)
          \/ \E i \in 1 .. Holds(l) + 1 : \/ erase(l, i)
                                          \/ \E j \in i .. Holds(l) + 1 : erase_range(l, i, j)
          \/ \E n \in 0 .. MaxNodes : resize(l, n)
          \/ \E o \in Lists : merge(l, o) \/ swap(l, o)

-----------------------------------------------------------------------------
\* List l is linked both ways and holds what it should.
Linked(l) ==
    LET n == Holds(l)
        Node(i) == IF i \in 1 .. n THEN At(list, l, i) ELSE Null
    IN  /\ list.size[l] = n
        /\ list.head[l] = Node(1) /\ list.tail[l] = Node(n)
        /\ \A i \in 1 .. n : /\ Node(i) \in list.live
                             /\ list.val[Node(i)] = listRef[l][i]
                             /\ list.next[Node(i)] = Node(i + 1)
                             /\ list.prev[Node(i)] = Node(i - 1)
\* Every allocated node is in one list.
NodesOwned ==
    LET InLists == {<<l, i>> \in Lists \X Addrs : i <= Holds(l)}
    IN  /\ list.live = {At(list, x[1], x[2]) : x \in InLists}
        /\ Cardinality(list.live) = Cardinality(InLists)

ReturnsRight ==
    listWant # NoResult =>
        list.ret = (IF listWant[2] = Throw THEN Throw
                    ELSE IF listWant[2] > Holds(listWant[1]) THEN Null
                    ELSE At(list, listWant[1], listWant[2]))

\* Safety.  The lists hold what the calls should leave, linked both ways, with
\* no node lost, shared or freed too early, and the last call returned what it
\* should -- exactly as long as only calls that work were made: the conditions
\* of pop_front, end, insert, erase, assign, remove, resize and merge say
\* precisely when they fail.
ListMatches == listLegal <=> (list.ok /\ (\A l \in Lists : Linked(l)) /\ NodesOwned /\ ReturnsRight)

=============================================================================
