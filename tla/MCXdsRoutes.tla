---------------------------- MODULE MCXdsRoutes ----------------------------
(***************************************************************************)
(* Instances of XdsRoutes for TLC.  Project pe stands for the id           *)
(* "project-", which NewProjectID rejects when it is read back, and p2 for *)
(* the id of p1 with ":" and more behind it, whose messages read as        *)
(* updates of p1.                                                          *)
(***************************************************************************)
EXTENDS XdsRoutes

CONSTANTS p1, p2, pe

CleanIds == [p \in Projects |-> IF p = pe THEN NoProject ELSE p]

ParseParts ==
    [m \in Messages |->
        CASE m.project = p1 -> m
          [] m.project = p2 -> [project |-> p1, removal |-> FALSE]
          [] m.project = pe -> NoMessage]

\* Ids without a colon.
ParsePlain == [m \in Messages |-> m]
=============================================================================
