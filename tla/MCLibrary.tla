------------------------------- MODULE MCLibrary -------------------------------
(***************************************************************************)
(* The library on a small instance: two directories and two file names in     *)
(* FILES and SHARED, one company with two vacancies, two runs.                *)
(***************************************************************************)
EXTENDS LibrarySections

Ask(op, user, at, to, body) ==
    [op |-> op, user |-> user, at |-> at, to |-> to, body |-> body, parts |-> <<>>]
AskParts(op, user, at, to, parts) ==
    [Ask(op, user, at, to, 0) EXCEPT !.parts = parts]

Company == <<"land", "firm">>
RunParts(b) == <<<<"meta", 1>>, <<"png", b>>>>

MCFiles ==
    {Ask("upload", "ann", <<"d">>, n, b) : n \in {"x", "y"}, b \in {1, 2}} \cup
    {AskParts("zip", "ann", Root, "e", <<<<"x", 1>>, <<"y", 1>>>>),
     Ask("mkdir", "ann", Root, "e", 0),
     Ask("rename", "ann", <<"d">>, "e", 0), Ask("rename", "ann", <<"e">>, "d", 0),
     Ask("rename", "ann", <<"d", "x">>, "y", 0)} \cup
    {Ask("delete", "ann", p, None, 0) : p \in {<<"d">>, <<"d", "x">>, <<"e", "x">>}}

MCShared ==
    {Ask("upload", u, <<"d">>, "x", 1) : u \in {"ann", "bob"}} \cup
    {Ask("upload", "ann", Root, "y", 2), Ask("rename", "bob", <<"d">>, "e", 0),
     Ask("purge", "adm", Root, None, 0)} \cup
    {Ask("delete", u, p, None, 0) :
        u \in {"ann", "bob", "adm"}, p \in {<<"d">>, <<"d", "x">>, <<"y">>}}

MCResumes ==
    {Ask("create", "ann", Company, v, 0) : v \in {"v", "w"}} \cup
    {Ask("create", "ann", <<"land">>, "corp", 0), Ask("renameNode", "ann", <<"land">>, "isle", 0),
     Ask("renameNode", "ann", Append(Company, "v"), "w", 0),
     Ask("deleteNode", "ann", Append(Company, "v"), None, 0),
     Ask("read", "ann", Append(Company, "v"), None, 0),
     Ask("browse", "ann", Root, None, 0), Ask("browse", "ann", Company, None, 0),
     Ask("statuses", "ann", Root, None, 0), Ask("saveStatuses", "ann", Root, None, 2),
     Ask("upload", "ann", Append(Company, "w"), "meta", 3)} \cup
    {Ask("save", "ann", Append(Company, v), None, 2) : v \in {"v", "w"}}

MCRuns ==
    {AskParts("store", "ann", <<n>>, None, RunParts(b)) : n \in {"run1", "run2"}, b \in {1, 3}} \cup
    {Ask("listRuns", "ann", Root, None, 0)} \cup
    {Ask("getRun", "ann", <<"run1">>, None, 0), Ask("getFile", "ann", <<"run1">>, "png", 0)} \cup
    {Ask("deleteRun", "ann", <<n>>, None, 0) : n \in {"run1", "run2"}}

MCRequests ==
    [s \in Sections |->
        CASE s = "FILES" -> MCFiles [] s = "SHARED" -> MCShared
          [] s = "RESUMES" -> MCResumes [] s = "GENERATED" -> MCRuns]

MCStart ==
    [s \in Sections |->
        CASE s \in {"FILES", "SHARED"} -> {<<"d">>}
          [] s = "RESUMES" -> {<<"land">>, Company}
          [] OTHER -> {}]

MCFaults ==
    [s \in Sections |->
        CASE s = "GENERATED" -> {"store", "abort"}
          [] s = "RESUMES" -> {} [] OTHER -> {"entry", "abort"}]
MCNoFaults == [s \in Sections |-> {}]

MCInFlight == [s \in Sections |-> IF s = "RESUMES" THEN 1 ELSE 2]
=============================================================================
