---- MODULE MCVersionRelease ----
(***************************************************************************)
(* An instance of VersionRelease for TLC.                                  *)
(***************************************************************************)
EXTENDS VersionRelease

P(exact, version) == [table |-> "project", exact |-> exact, version |-> version]
T(version) == [table |-> "tool", exact |-> TRUE, version |-> version]

\* One line, a second table with the same or another version, a line in a form of its
\* own with and without a second table, a version that is not canonical.
SomeProjects == {<<P(TRUE, <<0, 0, 1>>)>>,
                 <<P(TRUE, <<0, 0, 1>>), T(<<0, 0, 1>>)>>,
                 <<T(<<0, 1, 0>>), P(TRUE, <<0, 0, 1>>)>>,
                 <<P(FALSE, <<0, 0, 1>>)>>,
                 <<P(FALSE, <<0, 0, 1>>), T(<<0, 0, 1>>)>>,
                 <<P(TRUE, NoVersion)>>}

\* The version of the project, another one and one that is not canonical.
SomeNamed == {<<0, 0, 1>>, <<0, 1, 0>>, NoVersion}
====
