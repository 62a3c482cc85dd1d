---------------------------- MODULE MCSkillRuns -----------------------------
(***************************************************************************)
(* Small instances of SkillRuns for TLC.                                   *)
(***************************************************************************)
EXTENDS MCRunQueue, SkillRuns

CONSTANTS ca, cb

\* The plan of the first content names an input that the form of the second lacks,
\* and an edit of the form brings them together; another edits both.
FitPairs == {<<ca, ca>>, <<cb, cb>>, <<cb, ca>>}
SomeEdits == {<<NoContent, cb>>, <<ca, ca>>}
=============================================================================
