--------------------------- MODULE MCShellSession ---------------------------
(***************************************************************************)
(* ShellSession with commands that move, remove their directory, are given *)
(* one, never end, ignore SIGTERM, and leave processes behind.             *)
(***************************************************************************)
EXTENDS ShellSession

Commands == {
    Job("terminal", 1, FALSE, {}, {}, FALSE, FALSE, FALSE),
    Job("terminal", 2, FALSE, {}, {}, FALSE, FALSE, TRUE),
    Job("terminal", 2, TRUE, {}, {}, FALSE, FALSE, FALSE),
    Job("terminal", 1, FALSE, {"session"}, {"session"}, TRUE, TRUE, FALSE) }
Scripts == {
    Job("code", 2, FALSE, {"child"}, {"leader", "child"}, TRUE, TRUE, FALSE),
    Job("code", 2, FALSE, {"orphan"}, {}, TRUE, FALSE, FALSE),
    Job("code", 2, FALSE, {"orphan"}, {"orphan"}, FALSE, TRUE, FALSE) }
SomeJobs == Commands \cup Scripts
=============================================================================
