----------------------------- MODULE MCToolChat -----------------------------
(* An instance of ToolChat for TLC.                                         *)
EXTENDS ToolChat
Call(given, name, args, sig) == [given |-> given, name |-> name, args |-> args, sig |-> sig]
GeminiDef == {Call(TRUE, "f", "object", "s1"), Call(FALSE, "f", Absent, Absent),
              Call(FALSE, "g", "object", "s2")}
OtherDef == {Call(TRUE, "f", "object", Absent), Call(TRUE, "g", "broken", Absent)}
=============================================================================
