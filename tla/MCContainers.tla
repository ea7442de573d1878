---------------------------- MODULE MCContainers ----------------------------
(* The list, the vectors, the documents, the ini file and the logger are     *)
(* independent of each other; a behaviour is one of one of them, chosen by   *)
(* `which'.                                                                  *)
EXTENDS List, MyVector, StdVector, Json, Xml, IniFile, Logger

MCSections == {<<"a">>, <<"a", "]">>}
MCKeyNames == {<<"a">>, <<"a", "=">>, <<"[", "a">>}
MCTexts == {<<" ">>, <<"=", "a">>, <<"a", "\n", "a">>}
MCNumber == <<"1">>

VARIABLE which
all == <<listVars, vecVars, stdVars, jsonVars, xmlVars, iniVars, logVars>>

Init ==
    /\ which \in {"list", "vector2", "vector3", "json", "xml", "ini", "log"}
    /\ ListInit /\ VecInit /\ StdInit /\ JsonInit /\ XmlInit /\ IniInit /\ LogInit

Next ==
    /\ which' = which
    /\ \/ which = "list" /\ ListNext /\ UNCHANGED <<vecVars, stdVars, jsonVars, xmlVars, iniVars, logVars>>
       \/ which = "vector2" /\ VecNext /\ UNCHANGED <<listVars, stdVars, jsonVars, xmlVars, iniVars, logVars>>
       \/ which = "vector3" /\ StdNext /\ UNCHANGED <<listVars, vecVars, jsonVars, xmlVars, iniVars, logVars>>
       \/ which = "json" /\ JsonNext /\ UNCHANGED <<listVars, vecVars, stdVars, xmlVars, iniVars, logVars>>
       \/ which = "xml" /\ XmlNext /\ UNCHANGED <<listVars, vecVars, stdVars, jsonVars, iniVars, logVars>>
       \/ which = "ini" /\ IniNext /\ UNCHANGED <<listVars, vecVars, stdVars, jsonVars, xmlVars, logVars>>
       \/ which = "log" /\ LogNext /\ UNCHANGED <<listVars, vecVars, stdVars, jsonVars, xmlVars, iniVars>>

Spec == Init /\ [][Next]_<<which, all>>

-----------------------------------------------------------------------------
\* Safety.  The elements of XML documents have one owner each, exactly as long
\* as nothing was copied or left that their constructors, operator= and clear()
\* do not handle; and what IniFile saves it loads again, exactly if its format
\* can carry it.
DocumentsSound == XmlOwnership /\ IniRoundTrip
=============================================================================
