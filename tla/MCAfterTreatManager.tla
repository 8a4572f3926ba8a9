------------------------ MODULE MCAfterTreatManager ------------------------
(* Instances of AfterTreatManager for TLC: the words, files and requests.   *)
EXTENDS AfterTreatManager

CONSTANTS g1, g2, p1, p2, news, all, nowhere, a, b, empty

\* A new file, and one with a word twice.
MCFile == {<<a, b>>, <<a, a>>}

MCType == {"CreateDict", "ModifyDict", "DeleteDict", "RecoverDict", "InsertWord",
           "LoadWordFile", "ModifyWord", "DeleteWord", "RecoverWord"}
MCFailsAt == MCType \cup {"Initialize"}
NoRecovery == MCType \ {"RecoverDict", "RecoverWord"}

\* A dictionary with a word and a deleted word.
MCDicts == <<[domain |-> news, isdeleted |-> FALSE]>>
MCWords == <<[dict |-> 1, word |-> a, isdeleted |-> FALSE],
             [dict |-> 1, word |-> b, isdeleted |-> TRUE]>>
=============================================================================
