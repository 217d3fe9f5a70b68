---- MODULE VersionRelease ----
(***************************************************************************)
(* version.py: one run of the release helper after another in one work     *)
(* tree, with the git commands and file writes of each as separate steps,  *)
(* any of which may fail or be interrupted, and a developer who works on   *)
(* the repository meanwhile.                                               *)
(*                                                                         *)
(* pyproject.toml is the sequence of its lines that set a version: the one *)
(* of [project] and those of other tables. A line in the form the helper   *)
(* writes reads version = "X.Y.Z"; TOML allows others. git is external.    *)
(***************************************************************************)
EXTENDS Integers, Sequences, FiniteSets

CONSTANTS MaxPart,     \* bound of the parts of a version
          MaxCommits,  \* bound of the history
          Named,       \* versions that callers ask for by name
          Projects     \* contents pyproject.toml may have at first

Version == (0..MaxPart) \X (0..MaxPart) \X (0..MaxPart)
NoVersion == <<>>

Line == [table : {"project", "tool"}, exact : BOOLEAN, version : Version \cup {NoVersion}]

\* TOML allows one version in the table [project].
OneProject(text) == \A i, j \in DOMAIN text :
  text[i].table = "project" /\ text[j].table = "project" => i = j

ASSUME ReleaseAssumption ==
  /\ MaxPart \in Nat /\ MaxCommits \in Nat
  /\ Named \subseteq Version \cup {NoVersion}
  /\ Projects \subseteq Seq(Line) /\ \A text \in Projects : OneProject(text)

VARIABLES file,      \* pyproject.toml in the work tree
          index,     \* pyproject.toml in the index
          staged,    \* whether a change of another file is in the index
          loose,     \* whether another file was changed or added, and not staged
          log,       \* the commits of the branch
          tags,      \* the commit each tag vX.Y.Z names, 0 if there is none
          pc,        \* where the run is
          current, new, original,  \* locals of main
          answer,    \* what the last run printed and returned
          before,    \* the work tree and the history as the run found them
          damaged,   \* whether a write of this run failed, or the index could not be reset
          late       \* whether the developer staged or tagged something after this run's checks

repository == <<file, index, staged, loose, log, tags>>
locals == <<current, new, original>>
observed == <<before, damaged, late>>
vars == <<repository, pc, locals, answer, observed>>

-----------------------------------------------------------------------------
(* Texts and versions *)

Head1 == log[Len(log)].text

\* [project].version, NoVersion if the text does not parse or has none that is canonical.
ProjectVersion(text) ==
  IF \E i \in DOMAIN text : text[i].table = "project"
  THEN text[CHOOSE i \in DOMAIN text : text[i].table = "project"].version
  ELSE NoVersion

\* What callers ask for; at least one part grows, or the version is named.
Request == [release : {"major", "minor", "patch"}, version : {NoVersion}]
           \cup [release : {"named"}, version : Named]

Bump(v, release) ==
  CASE release = "major" -> <<v[1] + 1, 0, 0>>
    [] release = "minor" -> <<v[1], v[2] + 1, 0>>
    [] OTHER -> <<v[1], v[2], v[3] + 1>>

Requested(v, r) == IF r.release = "named" THEN r.version ELSE Bump(v, r.release)

\* Mutant of Acceptable: the version there is may be asked for.
AcceptableAgain(v, r) == v # NoVersion /\ Requested(v, r) # NoVersion

\* Both versions are canonical, and there is something to change.
Acceptable(v, r) == v # NoVersion /\ Requested(v, r) \notin {NoVersion, v}

\* The lines that read version = "v".
Matching(text, v) == {i \in DOMAIN text : text[i].exact /\ text[i].version = v}

\* Mutant of Replaceable: the first of several lines is taken.
ReplaceableFirst(text, v) == Matching(text, v) # {}
Replaceable(text, v) == Cardinality(Matching(text, v)) = 1

\* Every matching line: there is one when the text is Replaceable.
Replaced(text, v, w) ==
  [i \in DOMAIN text |-> IF i \in Matching(text, v) THEN [text[i] EXCEPT !.version = w]
                         ELSE text[i]]

\* What before holds while nothing runs.
NoRun == [file |-> <<>>, index |-> <<>>, commits |-> 0]

\* git status --porcelain prints nothing.
Clean == file = index /\ index = Head1 /\ ~staged /\ ~loose

\* What opening the file for writing leaves when the write fails: open fails and the
\* text stays, or it was truncated and a part was written.
Torn(text) == {file} \cup {SubSeq(text, 1, n) : n \in 0..Len(text) - 1}

-----------------------------------------------------------------------------
(* The steps of main *)

Init ==
  /\ file \in Projects /\ index = file
  /\ staged = FALSE /\ loose = FALSE
  /\ log = <<[text |-> file, others |-> FALSE, late |-> FALSE, release |-> NoVersion]>>
  /\ tags = [v \in Version |-> 0]
  /\ pc = "idle" /\ current = NoVersion /\ new = NoVersion /\ original = <<>>
  /\ answer = "none"
  /\ before = NoRun
  /\ damaged = FALSE /\ late = FALSE

\* main returns, and its locals are gone.
Ends(said) == /\ answer' = said /\ pc' = "idle"
              /\ current' = NoVersion /\ new' = NoVersion /\ original' = <<>>
              /\ before' = NoRun /\ late' = FALSE

\* A VersionError: the run prints it and returns 1.
Refuse == Ends("error") /\ UNCHANGED <<repository, damaged>>

Run == /\ pc = "idle"
       /\ pc' = "check" /\ answer' = "none"
       /\ before' = [file |-> file, index |-> index, commits |-> Len(log)]
       /\ damaged' = FALSE /\ late' = FALSE
       /\ UNCHANGED <<repository, locals>>

\* ensure_clean_worktree.
CheckTree == /\ pc = "check" /\ Clean
             /\ pc' = "load" /\ UNCHANGED <<repository, locals, answer, observed>>

\* load_project_version, requested_version and the comparison of the two.
Plan(r) ==
  /\ pc = "load"
  /\ Acceptable(ProjectVersion(file), r)
  /\ Requested(ProjectVersion(file), r) \in Version
  /\ current' = ProjectVersion(file)
  /\ new' = Requested(ProjectVersion(file), r)
  /\ pc' = "rev-parse"
  /\ UNCHANGED <<repository, original, answer, observed>>

CannotPlan(r) == pc = "load" /\ ~Acceptable(ProjectVersion(file), r) /\ Refuse

\* ensure_tag_is_available.
CheckTag == /\ pc = "rev-parse" /\ tags[new] = 0
            /\ pc' = "read" /\ UNCHANGED <<repository, locals, answer, observed>>

\* read_project_text and replace_version_line.
ReadText == /\ pc = "read" /\ Replaceable(file, current)
            /\ original' = file /\ pc' = "write"
            /\ UNCHANGED <<repository, current, new, answer, observed>>

\* A dirty tree, a tag that exists, a text without exactly one such line, or a git
\* command or a read that fails.
CheckFails == pc \in {"check", "load", "rev-parse", "read"} /\ Refuse

Write == /\ pc = "write"
         /\ file' = Replaced(original, current, new) /\ pc' = "add"
         /\ UNCHANGED <<index, staged, loose, log, tags, locals, answer, observed>>

\* An OSError while writing is not followed by a restoration.
WriteFails ==
  /\ pc = "write"
  /\ file' \in Torn(Replaced(original, current, new))
  /\ damaged' = (file' # file)
  /\ Ends("error")
  /\ UNCHANGED <<index, staged, loose, log, tags>>

Add == /\ pc = "add"
       /\ index' = file /\ pc' = "commit"
       /\ UNCHANGED <<file, staged, loose, log, tags, locals, answer, observed>>

\* git commit takes the whole index, also what the developer staged meanwhile.
Commit ==
  /\ pc = "commit" /\ Len(log) < MaxCommits
  /\ index # Head1 \/ staged
  /\ log' = Append(log, [text |-> index, others |-> staged, late |-> late, release |-> new])
  /\ staged' = FALSE /\ pc' = "tag"
  /\ UNCHANGED <<file, index, loose, tags, locals, answer, observed>>

\* A hook, a lock or a missing identity: restore_after_git_failure follows.
GitFails == /\ pc \in {"add", "commit"}
            /\ pc' = "restore" /\ UNCHANGED <<repository, locals, answer, observed>>

\* git restore --staged, whose own failure is ignored.
Restore == /\ pc = "restore" /\ pc' = "rewrite"
           /\ \/ index' = Head1 /\ UNCHANGED damaged
              \/ UNCHANGED index /\ damaged' = (damaged \/ index # Head1)
           /\ UNCHANGED <<file, staged, loose, log, tags, locals, answer, before, late>>

\* Mutant of Rewritten: the new version stays in the work tree.
RewrittenNot == file
Rewritten == original

Rewrite == /\ pc = "rewrite"
           /\ file' = Rewritten /\ Ends("error")
           /\ UNCHANGED <<index, staged, loose, log, tags, damaged>>

RewriteFails == /\ pc = "rewrite"
                /\ file' \in Torn(original) /\ damaged' = TRUE
                /\ Ends("error")
                /\ UNCHANGED <<index, staged, loose, log, tags>>

\* git tag names the commit the branch ends with, and never moves a tag.
Tag == /\ pc = "tag" /\ tags[new] = 0
       /\ tags' = [tags EXCEPT ![new] = Len(log)]
       /\ Ends("released")
       /\ UNCHANGED <<file, index, staged, loose, log, damaged>>

\* The message says that the commit was created, without its tag.
TagFails == pc = "tag" /\ Ends("untagged") /\ UNCHANGED <<repository, damaged>>

\* Ctrl-C, or the machine goes down; the file may be half written.
Interrupt ==
  /\ pc # "idle" /\ Ends("none")
  /\ file' \in CASE pc = "write" -> Torn(Replaced(original, current, new))
                 [] pc = "rewrite" -> Torn(original)
                 [] OTHER -> {file}
  /\ UNCHANGED <<index, staged, loose, log, tags, damaged>>

-----------------------------------------------------------------------------
(* The developer *)

Stage == /\ staged' = TRUE /\ late' = (late \/ pc \notin {"idle", "check"})
         /\ UNCHANGED <<file, index, loose, log, tags, pc, locals, answer, before, damaged>>

\* What is not staged matters to the look at the work tree alone.
Touch == /\ pc \in {"idle", "check"} /\ loose' = TRUE
         /\ UNCHANGED <<file, index, staged, log, tags, pc, locals, answer, observed>>

TagElsewhere(v) ==
  /\ tags[v] = 0 /\ tags' = [tags EXCEPT ![v] = Len(log)]
  /\ late' = (late \/ pc \notin {"idle", "check", "load", "rev-parse"})
  /\ UNCHANGED <<file, index, staged, loose, log, pc, locals, answer, before, damaged>>

\* What a run left is committed, or thrown away.
CommitAll ==
  /\ pc = "idle" /\ ~Clean /\ Len(log) < MaxCommits
  /\ ProjectVersion(file) # NoVersion
  /\ log' = Append(log, [text |-> file, others |-> staged \/ loose, late |-> FALSE,
                         release |-> NoVersion])
  /\ index' = file /\ staged' = FALSE /\ loose' = FALSE
  /\ UNCHANGED <<file, tags, pc, locals, answer, observed>>

CleanUp == /\ pc = "idle" /\ ~Clean
           /\ file' = Head1 /\ index' = Head1 /\ staged' = FALSE /\ loose' = FALSE
           /\ UNCHANGED <<log, tags, pc, locals, answer, observed>>

Developer == Stage \/ Touch \/ CommitAll \/ CleanUp \/ \E v \in Named \cap Version : TagElsewhere(v)

Tool == \/ Run \/ CheckTree \/ CheckTag \/ ReadText \/ CheckFails
        \/ \E r \in Request : Plan(r) \/ CannotPlan(r)
        \/ Write \/ WriteFails \/ Add \/ Commit \/ GitFails \/ Restore \/ Rewrite \/ RewriteFails
        \/ Tag \/ TagFails \/ Interrupt

Next == Tool \/ Developer

Spec == Init /\ [][Next]_vars

-----------------------------------------------------------------------------
(* Properties *)

Answer == {"none", "error", "untagged", "released"}
Place == {"idle", "check", "load", "rev-parse", "read", "write", "add", "commit",
          "restore", "rewrite", "tag"}

\* Types. Texts keep their lines or are a part of them; tags name commits.
TypeOK ==
  /\ file \in Seq(Line) /\ index \in Seq(Line) /\ original \in Seq(Line)
  /\ \A b \in {staged, loose, damaged, late} : b \in BOOLEAN
  /\ \A c \in {log[i] : i \in DOMAIN log} :
       c.text \in Seq(Line) /\ c.others \in BOOLEAN /\ c.release \in Version \cup {NoVersion}
  /\ tags \in [Version -> 0..Len(log)]
  /\ pc \in Place /\ answer \in Answer
  /\ pc \notin {"idle", "check", "load"} => current \in Version /\ new \in Version \ {current}

\* One line of a text was changed, and only its version.
OneLineChanged(old, text, version) ==
  /\ Cardinality({j \in DOMAIN old : text[j] # old[j]}) = 1
  /\ \E j \in DOMAIN old : old[j].exact /\ text = [old EXCEPT ![j].version = version]

\* The commit of a release (git add and git commit, version.py:178-182) holds the text it
\* follows with exactly one line changed, to the new version, whatever earlier runs left
\* half done. Only if the developer staged or tagged something after this run had looked
\* may it hold another file, or its version have a tag on an earlier commit.
ReleasesOnlyTheVersion ==
  \A i \in DOMAIN log : log[i].release # NoVersion =>
    /\ OneLineChanged(log[i - 1].text, log[i].text, log[i].release)
    /\ log[i].others \/ tags[log[i].release] \in 1..i - 1 => log[i].late

\* What a run answers is what it did: an error leaves file, index and history as the run
\* found them unless a write or the reset of the index failed too (version.py:184), a
\* release has a tag on the commit that holds it, and a missing tag is told
\* (version.py:192). A project line in the form the helper writes holds the version.
AnswersAreTrue ==
  [][pc # "idle" /\ pc' = "idle" /\ answer' # "none" =>
       /\ answer' = "error" =>
            /\ Len(log') = before.commits
            /\ damaged' \/ (file' = before.file /\ index' = before.index)
       /\ answer' # "error" =>
            /\ Len(log') = before.commits + 1 /\ log'[Len(log')].release = new
            /\ file' = log'[Len(log')].text /\ index' = file'
            /\ (\E j \in DOMAIN file' : file'[j].table = "project" /\ file'[j].exact)
                 => ProjectVersion(file') = new
       /\ answer' = "released" => tags'[new] = Len(log')]_vars
====
