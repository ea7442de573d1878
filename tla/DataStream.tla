----------------------------- MODULE DataStream ------------------------------
(***************************************************************************)
(* The tagged binary stream of cpp-serialize/DataStream.h: a byte buffer   *)
(* that grows by doubling, writers that append a type tag and a payload,   *)
(* readers that test the tag and advance m_pos, and display, which walks   *)
(* the buffer.                                                             *)
(*                                                                         *)
(* The buffer is modelled byte by byte because the positions are what can  *)
(* go wrong.  memcpy copies object representations, so the value of a      *)
(* scalar is its sequence of bytes; a string is a sequence of bytes; a     *)
(* vector, list or set of int32_t is the sequence of its elements in       *)
(* iteration order and a map the sequence k1, v1, k2, v2, ...              *)
(*                                                                         *)
(* A read outside the buffer or of a variable that was never set is        *)
(* undefined: IsDefined says when a read is not, and the model goes no     *)
(* further than that.  A read that returns false changes nothing here, so  *)
(* it is no action.                                                        *)
(***************************************************************************)
EXTENDS Integers, Sequences, SequencesExt

CONSTANTS Items,     \* the values the program writes
          MaxItems   \* bound: how many it writes

VARIABLES m_buf, m_pos, cap,
          written, out,    \* history: what was written and what was read back
          cursor           \* i of a display under way, or -1

streamVars == <<m_buf, m_pos, cap, written, out, cursor>>

Width == [bool |-> 1, char |-> 1, int16 |-> 2, int32 |-> 4, int64 |-> 8,
          float |-> 4, double |-> 8]
DataType == [bool |-> 0, char |-> 1, int16 |-> 2, int32 |-> 3, int64 |-> 4,
             float |-> 5, double |-> 6, string |-> 7, vector |-> 8, list |-> 9,
             set |-> 10, map |-> 11]
Scalars == DOMAIN Width
Containers == {"vector", "list", "set", "map"}
Byte == 0 .. 255
Int32 == [1 .. 4 -> Byte]

TypeOf(t) == IF t \in Scalars THEN [1 .. Width[t] -> Byte]
             ELSE IF t = "string" THEN Seq(Byte) ELSE Seq(Int32)

ASSUME ItemsAssumption ==
  \A x \in Items : x.type \in DOMAIN DataType /\ x.val \in TypeOf(x.type)
ASSUME MaxItemsAssumption == MaxItems \in Nat

Types == {x.type : x \in Items}

StreamType ==
  /\ m_buf \in Seq(Byte)
  /\ m_pos \in Nat
  /\ written \in Seq(Items)
  /\ cursor \in -1 .. Len(m_buf)

StreamInit ==
  /\ m_buf = <<>> /\ m_pos = 0 /\ cap = 0
  /\ written = <<>> /\ out = <<>> /\ cursor = -1

-----------------------------------------------------------------------------
(* write(int32_t) of a length.                                             *)
LittleEndian(n) == [i \in 1 .. 4 |-> (n \div 256 ^ (i - 1)) % 256]
LengthField(n) == <<DataType.int32>> \o LittleEndian(n)

(* The tag that each write puts first: that of a list is VECTOR.           *)
TagWritten(t) == IF t = "list" THEN DataType.vector ELSE DataType[t]

(* value.size(): for a map, the number of pairs.                           *)
SizeOf(t, val) == IF t = "map" THEN Len(val) \div 2 ELSE Len(val)

Elements(val) ==
  FlattenSeq([i \in 1 .. Len(val) |-> <<DataType.int32>> \o val[i]])

Encoded(t, val) ==
  <<TagWritten(t)>> \o
    CASE t \in Scalars -> val
      [] t = "string" -> LengthField(Len(val)) \o val
      [] t \in Containers -> LengthField(SizeOf(t, val)) \o Elements(val)

(* reserve: the capacity doubles until size + len fits.  Growing for each  *)
(* piece in turn ends where growing for all of them does.                  *)
Reserved(size, len) ==
  LET grow[c \in Nat] == IF c = 0 THEN grow[1]
                         ELSE IF size + len > c THEN grow[2 * c] ELSE c
  IN  IF size + len > cap THEN grow[cap] ELSE cap

Write(x) ==
  LET bytes == Encoded(x.type, x.val)
  IN  /\ cursor = -1
      /\ Len(written) < MaxItems
      /\ cap' = Reserved(Len(m_buf), Len(bytes))
      /\ m_buf' = m_buf \o bytes
      /\ written' = Append(written, x)
      /\ UNCHANGED <<m_pos, out, cursor>>

-----------------------------------------------------------------------------
(* Indices into m_buf start at 0, as in the code.                          *)
Within(p, n) == p + n <= Len(m_buf)
Bytes(p, n) == SubSeq(m_buf, p + 1, p + n)
TagIs(p, t) == m_buf[p + 1] = DataType[t]
LengthAt(p) == LET b == Bytes(p + 1, 4)
               IN  b[1] + 256 * b[2] + 65536 * b[3] + 16777216 * b[4]
HasLength(p) == Within(p, 5) /\ TagIs(p, "int32") /\ m_buf[p + 5] < 128

(* How many elements the loop of a container's read reads: the one of a    *)
(* map counts two for each pair.                                           *)
ElementsRead(t, n) == IF t = "map" THEN 2 * ((n + 1) \div 2) ELSE n
HasElements(p, n) ==
  Within(p, 5 * n) /\ \A k \in 0 .. n - 1 : TagIs(p + 5 * k, "int32")

(* A read of type t uses only bytes of the buffer and variables that were  *)
(* set.                                                                    *)
IsDefined(t) ==
  /\ Within(m_pos, 1)
  /\ TagIs(m_pos, t) =>
       IF t \in Scalars THEN Within(m_pos, 1 + Width[t])
       ELSE /\ HasLength(m_pos + 1)
            /\ IF t = "string" THEN Within(m_pos + 6, LengthAt(m_pos + 1))
               ELSE HasElements(m_pos + 6, ElementsRead(t, LengthAt(m_pos + 1)))

Mut_ValueAt(t) ==
  Bytes(m_pos + (IF t \in Scalars THEN 1 ELSE 5),
        IF t \in Scalars THEN Width[t] ELSE LengthAt(m_pos + 1))
ValueAt(t) ==
  CASE t \in Scalars -> Bytes(m_pos + 1, Width[t])
    [] t = "string" -> Bytes(m_pos + 6, LengthAt(m_pos + 1))
    [] t \in Containers ->
         [k \in 1 .. ElementsRead(t, LengthAt(m_pos + 1)) |->
            Bytes(m_pos + 2 + 5 * k, 4)]

(* m_pos after a read; a container adds its length once more at the end.   *)
PosAfter(t) ==
  m_pos + 1 +
    CASE t \in Scalars -> Width[t]
      [] t = "string" -> 5 + LengthAt(m_pos + 1)
      [] t \in Containers ->
           5 + 5 * ElementsRead(t, LengthAt(m_pos + 1)) + LengthAt(m_pos + 1)

(* The program reads no more values than it wrote, and may ask for any     *)
(* type it uses.                                                           *)
Read(t) ==
  /\ cursor = -1
  /\ Len(out) < Len(written)
  /\ IsDefined(t)
  /\ TagIs(m_pos, t)
  /\ out' = Append(out, [type |-> t, val |-> ValueAt(t)])
  /\ m_pos' = PosAfter(t)
  /\ UNCHANGED <<m_buf, cap, written, cursor>>

-----------------------------------------------------------------------------
(* display: the switch has no case that moves past a container, or past a  *)
(* byte that is no tag.                                                    *)
Display ==
  /\ cursor = -1
  /\ cursor' = 0
  /\ UNCHANGED <<m_buf, m_pos, cap, written, out>>

Mut_CursorAfter(i) ==
  IF \E t \in Scalars : TagIs(i, t)
  THEN i + 1 + Width[CHOOSE t \in Scalars : TagIs(i, t)]
  ELSE i
CursorAfter(i) ==
  IF \E t \in Scalars : TagIs(i, t)
  THEN i + 1 + Width[CHOOSE t \in Scalars : TagIs(i, t)]
  ELSE IF TagIs(i, "string") THEN i + 6 + LengthAt(i + 1) ELSE i

DisplayStep ==
  /\ cursor >= 0
  /\ cursor' = IF cursor < Len(m_buf) THEN CursorAfter(cursor) ELSE -1
  /\ UNCHANGED <<m_buf, m_pos, cap, written, out>>

-----------------------------------------------------------------------------
StreamNext ==
  \/ \E x \in Items : Write(x)
  \/ \E t \in Types : Read(t)
  \/ Display \/ DisplayStep

-----------------------------------------------------------------------------
(* Between calls m_pos is at the first byte of the first value that was    *)
(* not read yet.                                                           *)
InStep ==
  m_pos = Len(FlattenSeq([i \in 1 .. Len(out) |->
                            Encoded(written[i].type, written[i].val)]))

(* The buffer's capacity holds its contents, and less than twice them.     *)
CapacityIsTight == cap >= Len(m_buf) /\ (cap = 0 \/ cap < 2 * Len(m_buf))

(* The values that survive: a list is tagged as a vector, and the reader   *)
(* of a container that has elements moves past its end, or stops early.    *)
Faithful(x) == x.type \notin Containers \/ (x.type # "list" /\ x.val = <<>>)
Kept == \A i \in 1 .. Len(out) : Faithful(written[i])

(* A value that was written and not yet read can be read with the type     *)
(* that its tag names and with no other, without leaving the buffer and    *)
(* without using a length or an element that was never read.               *)
NextIsReadable ==
  Len(out) < Len(written) =>
    \A t \in Types : /\ IsDefined(t)
                     /\ TagIs(m_pos, t) <=> DataType[t] = TagWritten(written[Len(out) + 1].type)

(* What is read back is what was written, same types, values and order,    *)
(* and the position is that of the next value, however writes and reads    *)
(* alternate, exactly as long as no list and no container with an element  *)
(* has been read; until then the next value is readable.                   *)
RoundTrip ==
  /\ StreamType /\ CapacityIsTight
  /\ Kept <=> InStep /\ IsPrefix(out, written)
  /\ Kept => NextIsReadable

(* display comes to the end of the buffer, unless a container was written: *)
(* then it never does.                                                     *)
Displayable == \A i \in 1 .. Len(written) : written[i].type \notin Containers
DisplayEnds ==
  /\ (cursor >= 0 /\ Displayable) ~> cursor = -1
  /\ [][cursor >= 0 /\ ~Displayable => cursor' >= 0]_streamVars
=============================================================================
