------------------------------ MODULE MyVector ------------------------------
(***************************************************************************)
(* myVector<T>, version 2: m_data, m_size and m_capacity, with new T[] and *)
(* assignment of elements.  A vector is its array of m_capacity cells and  *)
(* m_size.  Values are passed by reference: an argument may be an element  *)
(* of the vector itself, and then reads what its cell holds by then.       *)
(***************************************************************************)
EXTENDS Integers, Sequences

CONSTANTS Vectors, Elems, Default,   \* Default is T()
          MaxCells                   \* bound of the cells of all vectors

VARIABLES vec, vecRef,   \* the vectors, and the sequences they should hold
          vecOut, vecWant,   \* what the last call returned, and should have
          vecLegal       \* no argument so far was destroyed before its use
vecVars == <<vec, vecRef, vecOut, vecWant, vecLegal>>

Junk == "junk"         \* a cell of new T[] or of freed memory
Thrown == "throw"
Nothing == "nothing"

ASSUME VecAssumption == MaxCells \in Nat /\ Default \in Elems /\ Junk \notin Elems

VecInit ==
    /\ vec = [v \in Vectors |-> [data |-> <<>>, size |-> 0]]
    /\ vecRef = [v \in Vectors |-> <<>>]
    /\ vecOut = Nothing /\ vecWant = Nothing
    /\ vecLegal = TRUE

-----------------------------------------------------------------------------
Capacity(x) == Len(x.data)
Contents(x) == SubSeq(x.data, 1, x.size)
Grow(c, n) == LET cap[k \in 0 .. n + 1] == IF k = 0 THEN c
                                           ELSE IF cap[k - 1] >= n THEN cap[k - 1]
                                           ELSE IF cap[k - 1] = 0 THEN 1 ELSE 2 * cap[k - 1]
              IN  cap[n + 1]

\* An argument is a value outside of the vector or a reference to a cell.
Outside(v) == [cell |-> 0, value |-> v]
Element(i) == [cell |-> i, value |-> Junk]
Read(arg, data) == IF arg.cell = 0 THEN arg.value ELSE data[arg.cell]
ReadFreed(arg) == IF arg.cell = 0 THEN arg.value ELSE Junk

\* new T[cap] with the given cells copied in front.
Fill(cells, cap) == [i \in 1 .. cap |-> IF i <= Len(cells) THEN cells[i] ELSE Junk]

\* The old array is deleted before the value is stored.
PushBackV(x, arg) ==
    IF x.size < Capacity(x)
    THEN [data |-> [x.data EXCEPT ![x.size + 1] = Read(arg, x.data)], size |-> x.size + 1]
    ELSE LET cap == IF Capacity(x) = 0 THEN 1 ELSE 2 * Capacity(x)
         IN  [data |-> Fill(Append(Contents(x), ReadFreed(arg)), cap), size |-> x.size + 1]

PopBackV(x) == IF x.size > 0 THEN [x EXCEPT !.size = @ - 1] ELSE x

\* In place, cell after cell from the first; or after the old array is gone.
AssignV(x, n, arg) ==
    IF Capacity(x) >= n
    THEN [data |-> [i \in 1 .. Capacity(x) |-> IF i <= n THEN Read(arg, x.data) ELSE x.data[i]], size |-> n]
    ELSE [data |-> Fill([i \in 1 .. n |-> ReadFreed(arg)], Grow(0, n)), size |-> n]

ResizeV(x, n, arg) ==
    IF n < x.size THEN [x EXCEPT !.size = n]
    ELSE LET cells == Contents(x) \o [i \in 1 .. n - x.size |-> Read(arg, x.data)]
         IN  IF n < Capacity(x)
             THEN [data |-> cells \o SubSeq(x.data, n + 1, Capacity(x)), size |-> n]
             ELSE [data |-> Fill(cells, Grow(Capacity(x), n)), size |-> n]

ReserveV(x, n) == IF Capacity(x) > n THEN x
                  ELSE [data |-> Fill(Contents(x), Grow(Capacity(x), n)), size |-> x.size]

\* Mutant: the first one first.
Mut_Shift(x, at, n) ==
    [i \in 1 .. Capacity(x) |-> IF i > at + n /\ i <= x.size + n /\ n > 0 THEN x.data[at + 1 + ((i - at - 1) % n)]
                                ELSE x.data[i]]
\* The elements from `at' on move up by n cells, the last one first.
Shift(x, at, n) ==
    [i \in 1 .. Capacity(x) |-> IF i > at + n /\ i <= x.size + n THEN x.data[i - n] ELSE x.data[i]]

InsertV(x, at, n, arg) ==
    IF x.size + n <= Capacity(x)
    THEN LET moved == Shift(x, at, n)
         IN  [data |-> [i \in 1 .. Capacity(x) |-> IF i \in at + 1 .. at + n THEN Read(arg, moved) ELSE moved[i]],
              size |-> x.size + n]
    ELSE [data |-> Fill(SubSeq(x.data, 1, at) \o [i \in 1 .. n |-> Read(arg, x.data)]
                        \o SubSeq(x.data, at + 1, x.size), Grow(Capacity(x), x.size + n)),
          size |-> x.size + n]

\* memmove for basic types, a loop from the front for others: the same.
EraseRangeV(x, f, l) ==
    [data |-> [i \in 1 .. Capacity(x) |-> IF i > f /\ i <= f + (x.size - l) THEN x.data[i + (l - f)] ELSE x.data[i]],
     size |-> x.size - (l - f)]

-----------------------------------------------------------------------------
VecCall(v, x, r, works) ==
    /\ vec' = [vec EXCEPT ![v] = x]
    /\ vecRef' = [vecRef EXCEPT ![v] = r]
    /\ vecLegal' = works
    /\ vecOut' = Nothing /\ vecWant' = Nothing

Len0(v) == Len(vecRef[v])
Fits(v, n) == LET cells == Grow(Capacity(vec[v]), n)
              IN  cells <= MaxCells /\ \A o \in Vectors \ {v} : cells + Capacity(vec[o]) <= MaxCells
Args(v) == {Outside(e) : e \in Elems} \cup {Element(i) : i \in 1 .. Len0(v)}
Meant(v, arg) == Read(arg, vecRef[v])
Copies(n, e) == [i \in 1 .. n |-> e]

my_push_back(v, arg) ==
    /\ Fits(v, Len0(v) + 1)
    /\ VecCall(v, PushBackV(vec[v], arg), Append(vecRef[v], Meant(v, arg)),
               arg.cell = 0 \/ vec[v].size < Capacity(vec[v]))

my_pop_back(v) == VecCall(v, PopBackV(vec[v]), SubSeq(vecRef[v], 1, Len0(v) - 1), TRUE)
my_clear(v) == VecCall(v, [vec[v] EXCEPT !.size = 0], <<>>, TRUE)

my_assign(v, n, arg) ==
    /\ Fits(v, n)
    /\ VecCall(v, AssignV(vec[v], n, arg), Copies(n, Meant(v, arg)), arg.cell = 0 \/ Capacity(vec[v]) >= n)

my_resize(v, n, arg) ==
    /\ Fits(v, n)
    /\ VecCall(v, ResizeV(vec[v], n, arg),
               IF n <= Len0(v) THEN SubSeq(vecRef[v], 1, n)
               ELSE vecRef[v] \o Copies(n - Len0(v), Meant(v, arg)), TRUE)

my_reserve(v, n) == Fits(v, n) /\ VecCall(v, ReserveV(vec[v], n), vecRef[v], TRUE)

\* In place, an argument at or behind at + n has been overwritten by then.
my_insert(v, at, n, arg) ==
    /\ Fits(v, Len0(v) + n)
    /\ VecCall(v, InsertV(vec[v], at, n, arg),
               SubSeq(vecRef[v], 1, at) \o Copies(n, Meant(v, arg)) \o SubSeq(vecRef[v], at + 1, Len0(v)),
               \/ n = 0 \/ arg.cell <= at + n \/ Len0(v) + n > Capacity(vec[v])
               \/ vecRef[v][arg.cell - n] = vecRef[v][arg.cell])

my_erase_range(v, f, l) ==
    VecCall(v, EraseRangeV(vec[v], f, l), SubSeq(vecRef[v], 1, f) \o SubSeq(vecRef[v], l + 1, Len0(v)), TRUE)

\* erase(end()) throws; the last element only lowers m_size.
my_erase(v, at) ==
    IF at = vec[v].size
    THEN /\ vecOut' = Thrown /\ vecWant' = IF at = Len0(v) THEN Thrown ELSE Nothing
         /\ UNCHANGED <<vec, vecRef, vecLegal>>
    ELSE VecCall(v, EraseRangeV(vec[v], at, at + 1),
                 SubSeq(vecRef[v], 1, at) \o SubSeq(vecRef[v], at + 2, Len0(v)), TRUE)

\* at, operator[], front and back check the index against m_size.
my_at(v, i) ==
    /\ vecOut' = IF i < 0 \/ i >= vec[v].size THEN Thrown ELSE vec[v].data[i + 1]
    /\ vecWant' = IF i + 1 \in 1 .. Len0(v) THEN vecRef[v][i + 1] ELSE Thrown
    /\ UNCHANGED <<vec, vecRef, vecLegal>>

my_swap(v, o) ==
    /\ v # o
    /\ vec' = [vec EXCEPT ![v] = vec[o], ![o] = vec[v]]
    /\ vecRef' = [vecRef EXCEPT ![v] = vecRef[o], ![o] = vecRef[v]]
    /\ vecOut' = Nothing /\ vecWant' = Nothing
    /\ UNCHANGED vecLegal

VecNext ==
    /\ vecLegal
    /\ \E v \in Vectors :
          \/ my_pop_back(v) \/ my_clear(v)
          \/ \E arg \in Args(v) :
                \/ my_push_back(v, arg)
                \/ \E n \in 0 .. MaxCells : my_assign(v, n, arg) \/ my_resize(v, n, arg)
                \/ \E at \in 0 .. Len0(v), n \in 0 .. 2 : my_insert(v, at, n, arg)
          \/ \E n \in 0 .. MaxCells : my_reserve(v, n) \/ my_resize(v, n, Outside(Default))
          \/ \E f \in 0 .. Len0(v) : \/ my_erase(v, f)
                                     \/ \E l \in f .. Len0(v) : my_erase_range(v, f, l)
          \/ \E i \in -1 .. Len0(v) : my_at(v, i)
          \/ \E o \in Vectors : my_swap(v, o)

-----------------------------------------------------------------------------
\* Safety.  A vector holds what the calls should leave, and a read returns it
\* or throws -- exactly as long as no argument by reference was destroyed by
\* the call before it was used.
VectorMatches == vecLegal <=> /\ \A v \in Vectors : Contents(vec[v]) = vecRef[v]
                              /\ vecOut = vecWant

=============================================================================
