------------------------------- MODULE IniFile ------------------------------
(***************************************************************************)
(* IniFile: sections of keys and values, written as "[section]" and "key = *)
(* value" lines and read back.  A text is a sequence of characters; only   *)
(* what the parser tells apart matters: a blank, a line break, '=', '[',   *)
(* ']' and others.                                                         *)
(* iniRef is what the object should hold; iniLegal and iniFresh say        *)
(* whether the last load or set can succeed and began with nothing.        *)
(***************************************************************************)
EXTENDS Integers, Sequences, FiniteSets
LOCAL INSTANCE FiniteSetsExt
LOCAL INSTANCE SequencesExt
LOCAL INSTANCE Functions

CONSTANTS SectionNames, KeyNames, Texts, Number,   \* Number is the text of an int
          MaxEntries

VARIABLES ini, iniRef,      \* m_sections, and what it should be
          disk, diskRef,    \* the lines of the file, and what was to be saved
          iniLegal, iniFresh
iniVars == <<ini, iniRef, disk, diskRef, iniLegal, iniFresh>>

NoEntries == [k \in {} |-> <<>>]
NoFile == <<"none">>

IniInit ==
    /\ ini = NoEntries /\ iniRef = NoEntries
    /\ disk = NoFile /\ diskRef = NoEntries
    /\ iniLegal = TRUE /\ iniFresh = TRUE

-----------------------------------------------------------------------------
Bind(m, k, v) == [x \in DOMAIN m \cup {k} |-> IF x = k THEN v ELSE m[x]]
Unbind(m, k) == [x \in DOMAIN m \ {k} |-> m[x]]
\* m_sections[section][key] = value makes the section if need be.
SetIn(m, s, k, v) == Bind(m, s, Bind(IF s \in DOMAIN m THEN m[s] ELSE NoEntries, k, v))

Positions(s, c) == {i \in 1 .. Len(s) : s[i] = c}
trim(s) == LET kept == {i \in 1 .. Len(s) : s[i] \notin {" ", "\n", "\r"}}
           IN  IF kept = {} THEN <<>> ELSE SubSeq(s, Min(kept), Max(kept))

\* str(): the sections and keys in the order of the map; any order will do.
str(m) ==
    LET Entries(s) == LET ks == SetToSeq(DOMAIN m[s])
                      IN  [i \in 1 .. Len(ks) |-> ks[i] \o <<" ", "=", " ">> \o m[s][ks[i]]]
        secs == SetToSeq(DOMAIN m)
    IN  FlattenSeq([i \in 1 .. Len(secs) |-> <<(<<"[">> \o secs[i] \o <<"]">>)>> \o Entries(secs[i])])

\* What getline makes of a line that was written: the pieces between its breaks.
Pieces(line) ==
    LET breaks == <<0>> \o SetToSortSeq(Positions(line, "\n"), <) \o <<Len(line) + 1>>
    IN  [i \in 1 .. Len(breaks) - 1 |-> SubSeq(line, breaks[i] + 1, breaks[i + 1] - 1)]
LinesOf(lines) == FlattenSeq([i \in 1 .. Len(lines) |-> Pieces(lines[i])])

\* Without '=' both substr() calls return the whole line.
ParseEntry(st, line) ==
    LET eq == Positions(line, "=")
        key == IF eq = {} THEN line ELSE SubSeq(line, 1, Min(eq) - 1)
        value == IF eq = {} THEN line ELSE SubSeq(line, Min(eq) + 1, Len(line))
    IN  [st EXCEPT !.m = SetIn(@, st.section, trim(key), trim(value))]

\* A section line empties a section that is there already.
ParseSection(st, line) ==
    LET close == Positions(line, "]")
        section == trim(IF close = {} THEN Tail(line) ELSE SubSeq(line, 2, Min(close) - 1))
    IN  [section |-> section, m |-> Bind(st.m, section, NoEntries)]

ParseLine(st, raw) ==
    LET line == trim(raw)
    IN  IF line = <<>> THEN st
        ELSE IF line[1] = "[" THEN ParseSection(st, line) ELSE ParseEntry(st, line)

LoadLines(m, lines) == FoldLeft(ParseLine, [section |-> <<>>, m |-> m], lines).m

-----------------------------------------------------------------------------
Size(m) == FoldFunction(LAMBDA e, n : n + 1 + Cardinality(DOMAIN e), 0, m)
Both(m, r) == ini' = m /\ iniRef' = r /\ iniFresh' = TRUE /\ UNCHANGED <<disk, diskRef>>

set(s, k, v) == Both(SetIn(ini, s, k, v), SetIn(iniRef, s, k, v)) /\ UNCHANGED iniLegal
\* Value(int) compares where it should assign: the text stays empty.
set_int(s, k) == Both(SetIn(ini, s, k, <<>>), SetIn(iniRef, s, k, Number)) /\ iniLegal' = FALSE
\* get() of what is not there makes it, with an empty value.
get(s, k) == LET Made(m) == IF s \in DOMAIN m /\ k \in DOMAIN m[s] THEN m ELSE SetIn(m, s, k, <<>>)
             IN  Both(Made(ini), Made(iniRef)) /\ UNCHANGED iniLegal
has(m, s, k) == s \in DOMAIN m /\ k \in DOMAIN m[s]

remove_section(s) == Both(Unbind(ini, s), Unbind(iniRef, s)) /\ UNCHANGED iniLegal
remove_entry(s, k) ==
    /\ has(ini, s, k)
    /\ Both(Bind(ini, s, Unbind(ini[s], k)), Bind(iniRef, s, Unbind(iniRef[s], k)))
    /\ UNCHANGED iniLegal
clear_ini == Both(NoEntries, NoEntries) /\ UNCHANGED iniLegal

save == disk' = LinesOf(str(ini)) /\ diskRef' = iniRef /\ UNCHANGED <<ini, iniRef, iniLegal, iniFresh>>

\* Names and values that the format can carry.
Plain(s) == trim(s) = s /\ Positions(s, "\n") = {}
PlainSection(s) == Plain(s) /\ Positions(s, "]") = {}
PlainKey(k) == Plain(k) /\ Positions(k, "=") = {} /\ (k # <<>> => k[1] # "[")
PlainFile(m) == \A s \in DOMAIN m : /\ PlainSection(s)
                                    /\ \A k \in DOMAIN m[s] : PlainKey(k) /\ Plain(m[s][k])

\* load adds to what is there; a section of the file replaces the old one.
load ==
    /\ disk # NoFile
    /\ ini' = LoadLines(ini, disk)
    /\ iniRef' = [s \in DOMAIN iniRef \cup DOMAIN diskRef |->
                     IF s \in DOMAIN diskRef THEN diskRef[s] ELSE iniRef[s]]
    /\ iniLegal' = PlainFile(diskRef)
    /\ iniFresh' = (ini = NoEntries)
    /\ UNCHANGED <<disk, diskRef>>

IniNext ==
    /\ iniLegal
    /\ \/ \E s \in SectionNames :
             \/ remove_section(s)
             \/ \E k \in KeyNames : \/ remove_entry(s, k)
                                    \/ Size(ini) < MaxEntries /\ (get(s, k) \/ set_int(s, k))
                                    \/ \E v \in Texts : Size(SetIn(ini, s, k, v)) <= MaxEntries /\ set(s, k, v)
       \/ clear_ini \/ save \/ load

-----------------------------------------------------------------------------
\* Safety.  What was saved is what a load brings back, and what the file does
\* not name stays -- exactly when every name can be told from the format
\* around it (a load into an object with sections may also succeed by
\* accident, because the wrong section was there already).
IniRoundTrip == /\ iniLegal => ini = iniRef
                /\ ~iniLegal /\ iniFresh => ini # iniRef

=============================================================================
