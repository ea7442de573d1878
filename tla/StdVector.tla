------------------------------ MODULE StdVector -----------------------------
(***************************************************************************)
(* vector<T, Allocator>, version 3: raw memory from an allocator, in which *)
(* elements are constructed and destroyed one by one.  A vector is its     *)
(* cells (as many as capacity_), size_, and whether a call so far has      *)
(* constructed an object over another one, destroyed or read one that is   *)
(* not there, or given memory back with objects in it.                     *)
(***************************************************************************)
EXTENDS Integers, Sequences

CONSTANTS StdVectors, StdElems, StdDefault,
          MaxSlots      \* bound of the cells of all vectors

VARIABLES std, stdRef, stdOut, stdWant, stdLegal   \* as in MyVector
stdVars == <<std, stdRef, stdOut, stdWant, stdLegal>>

Raw == "raw"           \* memory without an object
Moved == "moved"       \* an object that was moved from
Aborted == "out_of_range"
None == "none"

ASSUME StdAssumption ==
    MaxSlots \in Nat /\ StdDefault \in StdElems /\ Raw \notin StdElems /\ Moved \notin StdElems

Empty == [cells |-> <<>>, size |-> 0, fault |-> FALSE]
StdInit ==
    /\ std = [v \in StdVectors |-> Empty]
    /\ stdRef = [v \in StdVectors |-> <<>>]
    /\ stdOut = None /\ stdWant = None
    /\ stdLegal = TRUE

-----------------------------------------------------------------------------
Cap(x) == Len(x.cells)
Objects(x) == SubSeq(x.cells, 1, x.size)
RawCells(n) == [i \in 1 .. n |-> Raw]

\* std::destroy of the cells after f up to l; construct objects after f.
DestroyCells(x, f, l) ==
    [x EXCEPT !.cells = [i \in 1 .. Cap(x) |-> IF i \in f + 1 .. l THEN Raw ELSE @[i]],
              !.fault = @ \/ \E i \in f + 1 .. l : x.cells[i] = Raw]
ConstructCells(x, f, objects) ==
    [x EXCEPT !.cells = [i \in 1 .. Cap(x) |-> IF i \in f + 1 .. f + Len(objects) THEN objects[i - f] ELSE @[i]],
              !.fault = @ \/ \E i \in 1 .. Len(objects) : x.cells[f + i] # Raw \/ objects[i] = Raw]
deallocate(x) == [x EXCEPT !.cells = <<>>, !.fault = @ \/ \E i \in 1 .. Cap(x) : x.cells[i] # Raw]
allocate(x, n) == [x EXCEPT !.cells = RawCells(n)]
\* Mutant: the elements are not destroyed.
Mut_ClearStd(x) == [x EXCEPT !.size = 0]
ClearStd(x) == [DestroyCells(x, 0, x.size) EXCEPT !.size = 0]
Destructor(x) == deallocate(ClearStd(x))

\* The elements are moved to new memory, then the old ones destroyed.
reallocate(x, cap) == ConstructCells(allocate(deallocate(DestroyCells(x, 0, x.size)), cap), 0, Objects(x))

\* Arguments by reference, as in MyVector; cell 0 is a value outside.
Value(e) == [cell |-> 0, value |-> e]
Self(i) == [cell |-> i, value |-> Raw]
Load(arg, x) == IF arg.cell = 0 THEN arg.value ELSE x.cells[arg.cell]
LoadFreed(arg) == IF arg.cell = 0 THEN arg.value ELSE Raw
Doubled(x) == IF Cap(x) = 0 THEN 1 ELSE 2 * Cap(x)

EmplaceBack(x, arg) ==
    LET full == x.size >= Cap(x)
        y == IF full THEN reallocate(x, Doubled(x)) ELSE x
    IN  [ConstructCells(y, x.size, <<IF full THEN LoadFreed(arg) ELSE Load(arg, y)>>) EXCEPT !.size = @ + 1]

\* The last element is moved to the raw cell behind it, the others up to `at'
\* one cell up; then the element at `at' is replaced.
Emplace(x, at, arg) ==
    IF at = x.size THEN EmplaceBack(x, arg)
    ELSE LET full == x.size >= Cap(x)
             y == IF full THEN reallocate(x, Doubled(x)) ELSE x
             last == ConstructCells(y, x.size, <<y.cells[x.size]>>)
             up == [last EXCEPT !.cells = [i \in 1 .. Cap(y) |-> IF i \in at + 2 .. x.size THEN y.cells[i - 1]
                                                                 ELSE IF i = at + 1 THEN Moved ELSE @[i]]]
             gap == DestroyCells(up, at, at + 1)
         IN  [ConstructCells(gap, at, <<IF full THEN LoadFreed(arg) ELSE Load(arg, gap)>>) EXCEPT !.size = @ + 1]

PopBackStd(x) == IF x.size > 0 THEN [DestroyCells(x, x.size - 1, x.size) EXCEPT !.size = @ - 1] ELSE x

\* std::move down, destroy the last ones.
EraseStd(x, f, l) ==
    LET n == l - f
        moved == [x EXCEPT !.cells = [i \in 1 .. Cap(x) |-> IF i > f /\ i <= x.size - n THEN @[i + n]
                                                            ELSE IF i > l /\ i <= x.size THEN Moved ELSE @[i]]]
    IN  [DestroyCells(moved, x.size - n, x.size) EXCEPT !.size = @ - n]

ResizeStd(x, n, arg) ==
    IF n > x.size
    THEN LET grows == n > Cap(x)
             y == IF grows THEN reallocate(x, n) ELSE x
             e == IF grows THEN LoadFreed(arg) ELSE Load(arg, y)
         IN  [ConstructCells(y, x.size, [i \in 1 .. n - x.size |-> e]) EXCEPT !.size = n]
    ELSE [DestroyCells(x, n, x.size) EXCEPT !.size = n]

\* Only when the memory is too small are the old elements destroyed.
CopyAssign(x, o) ==
    LET y == IF o.size > Cap(x) THEN allocate(Destructor(x), o.size) ELSE x
    IN  ConstructCells([y EXCEPT !.size = o.size], 0, Objects(o))

-----------------------------------------------------------------------------
StdCall(v, x, r, works) ==
    /\ std' = [std EXCEPT ![v] = x]
    /\ stdRef' = [stdRef EXCEPT ![v] = r]
    /\ stdLegal' = works
    /\ stdOut' = None /\ stdWant' = None

Count(v) == Len(stdRef[v])
FitsStd(v, n) == \A o \in StdVectors \ {v} : n <= MaxSlots /\ n + Cap(std[o]) <= MaxSlots
FitsOneMore(v) == FitsStd(v, IF Count(v) < Cap(std[v]) THEN Cap(std[v]) ELSE Doubled(std[v]))
StdArgs(v) == {Value(e) : e \in StdElems} \cup {Self(i) : i \in 1 .. Count(v)}
Intended(v, arg) == IF arg.cell = 0 THEN arg.value ELSE stdRef[v][arg.cell]

\* A vector is destroyed and another one constructed in its place.
vector_count(v, n, e) ==
    /\ FitsStd(v, n)
    /\ StdCall(v, [ConstructCells(allocate(Destructor(std[v]), n), 0, [i \in 1 .. n |-> e]) EXCEPT !.size = n],
               [i \in 1 .. n |-> e], TRUE)
vector_copy(v, o) ==
    /\ v # o /\ FitsStd(v, std[o].size)
    /\ StdCall(v, CopyAssign(Destructor(std[v]), std[o]), stdRef[o], TRUE)

Steal(v, o) == /\ std' = [std EXCEPT ![v] = [std[o] EXCEPT !.fault = @ \/ Destructor(std[v]).fault],
                                     ![o] = Empty]
               /\ stdRef' = [stdRef EXCEPT ![v] = stdRef[o], ![o] = <<>>]
               /\ stdOut' = None /\ stdWant' = None
               /\ UNCHANGED stdLegal
vector_move(v, o) == v # o /\ Steal(v, o)
move_assign(v, o) == IF v = o THEN UNCHANGED stdVars ELSE Steal(v, o)

copy_assign(v, o) ==
    /\ FitsStd(v, IF std[o].size > Cap(std[v]) THEN std[o].size ELSE Cap(std[v]))
    /\ IF v = o THEN UNCHANGED stdVars
       ELSE StdCall(v, CopyAssign(std[v], std[o]), stdRef[o], Count(v) = 0 \/ Count(o) > Cap(std[v]))

std_reserve(v, n) == /\ FitsStd(v, n)
                     /\ StdCall(v, IF n > Cap(std[v]) THEN reallocate(std[v], n) ELSE std[v], stdRef[v], TRUE)
shrink_to_fit(v) == StdCall(v, IF std[v].size < Cap(std[v]) THEN reallocate(std[v], std[v].size) ELSE std[v],
                            stdRef[v], TRUE)
std_clear(v) == StdCall(v, ClearStd(std[v]), <<>>, TRUE)
std_pop_back(v) == StdCall(v, PopBackStd(std[v]), SubSeq(stdRef[v], 1, Count(v) - 1), TRUE)

std_erase(v, f, l) ==
    StdCall(v, IF f = l THEN std[v] ELSE EraseStd(std[v], f, l),
            SubSeq(stdRef[v], 1, f) \o SubSeq(stdRef[v], l + 1, Count(v)), TRUE)

\* An element of the vector as argument is gone when the memory is replaced.
emplace_back(v, arg) ==
    /\ FitsOneMore(v)
    /\ StdCall(v, EmplaceBack(std[v], arg), Append(stdRef[v], Intended(v, arg)),
               arg.cell = 0 \/ std[v].size < Cap(std[v]))

\* In place, an element from `at' on has been moved when it is read.
emplace(v, at, arg) ==
    /\ FitsOneMore(v)
    /\ StdCall(v, Emplace(std[v], at, arg),
               SubSeq(stdRef[v], 1, at) \o <<Intended(v, arg)>> \o SubSeq(stdRef[v], at + 1, Count(v)),
               \/ arg.cell = 0
               \/ /\ std[v].size < Cap(std[v])
                  /\ \/ arg.cell <= at
                     \/ arg.cell > at + 1 /\ stdRef[v][arg.cell - 1] = stdRef[v][arg.cell])

std_resize(v, n, arg) ==
    /\ FitsStd(v, IF n > Cap(std[v]) THEN n ELSE Cap(std[v]))
    /\ StdCall(v, ResizeStd(std[v], n, arg),
               [i \in 1 .. n |-> IF i <= Count(v) THEN stdRef[v][i] ELSE Intended(v, arg)],
               arg.cell = 0 \/ n <= Cap(std[v]))

std_at(v, i) ==
    /\ stdOut' = IF i >= std[v].size THEN Aborted ELSE std[v].cells[i + 1]
    /\ stdWant' = IF i < Count(v) THEN stdRef[v][i + 1] ELSE Aborted
    /\ UNCHANGED <<std, stdRef, stdLegal>>

std_swap(v, o) ==
    /\ std' = [std EXCEPT ![v] = std[o], ![o] = std[v]]
    /\ stdRef' = [stdRef EXCEPT ![v] = stdRef[o], ![o] = stdRef[v]]
    /\ stdOut' = None /\ stdWant' = None
    /\ UNCHANGED stdLegal

StdNext ==
    /\ stdLegal
    /\ \E v \in StdVectors :
          \/ shrink_to_fit(v) \/ std_clear(v) \/ std_pop_back(v)
          \/ \E o \in StdVectors : \/ vector_copy(v, o) \/ vector_move(v, o)
                                   \/ copy_assign(v, o) \/ move_assign(v, o) \/ std_swap(v, o)
          \/ \E n \in 0 .. MaxSlots : \/ std_reserve(v, n) \/ std_resize(v, n, Value(StdDefault))
                                      \/ \E e \in StdElems : vector_count(v, n, e)
          \/ \E arg \in StdArgs(v) : \/ emplace_back(v, arg)
                                     \/ \E at \in 0 .. Count(v) : emplace(v, at, arg)
                                     \/ \E n \in 0 .. MaxSlots : std_resize(v, n, arg)
          \/ \E f \in 0 .. Count(v) : \E l \in f .. Count(v) : std_erase(v, f, l)
          \/ \E i \in 0 .. Count(v) : std_at(v, i)

-----------------------------------------------------------------------------
\* Safety.  Exactly the first size_ cells hold objects, those the calls should
\* leave; none was lost, constructed twice or used after its end -- exactly as
\* long as no argument was an element that the call itself destroys, and no
\* vector with elements was assigned one that fits into its memory.
LifetimesSound ==
    stdLegal <=> /\ \A v \in StdVectors : /\ ~std[v].fault
                                          /\ std[v].cells = stdRef[v] \o RawCells(Cap(std[v]) - std[v].size)
                 /\ stdOut = stdWant

=============================================================================
