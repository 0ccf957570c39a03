---------------------------- MODULE MCWorkspace ----------------------------
(* Workspace and Lookups with a small tree for TLC: "/", "/1", "/1/1" and "/2".  The
   skills are in "/", as "/1/1" of the skill "1", the roles in "/1"; AGENTS.md is "/2".
   "/1" is shared: the reader edits and removes there what the session writes and edits. *)
EXTENDS Lookups

MCPaths    == {<<>>, <<1>>, <<1, 1>>, <<2>>}
MCWritten  == [c \in {"session", "app", "reader"} |->
                 CASE c = "session" -> {<<"x", "x">>, <<"x", "y">>}
                   [] c = "app"     -> {<<"y", "y", "y">>}
                   [] c = "reader"  -> {}]
MCRoots    == {<<>>, <<1>>}
MCArgs     == {-8, 0, 1, 2, 3, 7}
MCRoot     == <<>>
MCRolesDir == <<1>>
MCAgents   == << <<2>> >>
MCEdits    == {<<"x", "y">>}
MCPatterns == {{1, 2}, {2}}
MCOwn      == [c \in {"session", "app", "reader"} |->
                 CASE c = "session" -> {<<1>>, <<1, 1>>}
                   [] c = "app"     -> {<<>>, <<2>>}
                   [] c = "reader"  -> {<<1>>}]
=============================================================================
