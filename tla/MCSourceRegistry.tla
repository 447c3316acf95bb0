-------------------------- MODULE MCSourceRegistry --------------------------
(***************************************************************************)
(* A GitLab server whose repositories moved from `old' to the group `g' of *)
(* `new', a GitHub owner with a team, TFS with two ways to write a name,   *)
(* and Jira and Quality-time servers.                                      *)
(***************************************************************************)
EXTENDS SourceRegistry, Sequences

Src(type, name, host, space, repo, team) ==
    [type |-> type, name |-> name, host |-> host, space |-> space, repo |-> repo, team |-> team]
Repo(host, space, repo, team) == [host |-> host, space |-> space, repo |-> repo, team |-> team]

AllRepos ==
    {Repo("new", "g", "n-x", FALSE), Repo("gh", "o", "y", TRUE), Repo("tfs", "c", "z", FALSE)}
SomeListed ==
    {Src("git", "x", "old", "n", "x", None), Src("quality-time", "subject", "qt", "p", "", None)}
SomeDropins ==
    {{Src("git", "x", "old", "n", "x", None), Src("git", "y", "gh", "o", "y", None),
      Src("github", "y", "gh", "o", "y", "t"), Src("tfs", "z", "tfs", "C", "Z", None)}}
TheDefinitions == {Src("quality-time", "project", "qt", "p", "", None)}
TheJira == {Src("jira", "project", "jira", "p", "", None)}
AllSources ==
    SomeListed \cup UNION SomeDropins \cup TheDefinitions \cup TheJira
    \cup {SourceOf("gitlab", r, None) : r \in {q \in AllRepos : q.host = "new"}}
    \cup {SourceOf("github", r, team) : r \in {q \in AllRepos : q.host = "gh"}, team \in {None, "t"}}
    \cup {SourceOf("tfs", r, None) : r \in {q \in AllRepos : q.host = "tfs"}}

Hosts == {"old", "new", "gh", "tfs", "jira", "qt"}
HostChanges == [h \in Hosts |-> IF h = "old" THEN "new" ELSE h]
Groups == [h \in Hosts |-> IF h = "old" THEN "g" ELSE None]
Classes == [h \in Hosts |-> CASE h = "new" -> "gitlab" [] h = "gh" -> "github"
                              [] h = "tfs" -> "tfs" [] OTHER -> "none"]
Names == {"c", "C", "z", "Z", "g", "o", "n", "p", "x", "y", "n-x"}
LowerCase == [n \in Names |-> CASE n = "C" -> "c" [] n = "Z" -> "z" [] OTHER -> n]
Joined(space, repo) == space \o "-" \o repo
=============================================================================
