------------------------------ MODULE MCConsole ------------------------------
(* Strings of one character, and of a control character after a printable one. *)
EXTENDS Console

Printable == {"a"}
Control == {"BELL", "BS", "TAB", "CR", "FF", "LF"}

MCTexts == {<<ch>> : ch \in Printable \cup Control} \cup
           {<<"a", ch>> : ch \in Control}
=============================================================================
