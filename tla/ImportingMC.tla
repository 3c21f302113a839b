---------------------------- MODULE ImportingMC ----------------------------
(***************************************************************************)
(* Instances of Importing for TLC: memories that differ in what refuses    *)
(* them, and limits that differ in each cap.                               *)
(***************************************************************************)
EXTENDS Importing

Memory(id, whole, entries, text) ==
    [id |-> id, whole |-> whole, entries |-> entries, text |-> text]
Limits(memories, entries, text) ==
    [memories |-> memories, entries |-> entries, text |-> text]

FewMemories == {Memory("plain", TRUE, 1, 1), Memory("long", TRUE, 1, 2),
                Memory("many", TRUE, 2, 1), Memory("blank", FALSE, 1, 1)}
FewLimits == {Limits(1, 0, 2), Limits(2, 1, 1)}
=============================================================================
