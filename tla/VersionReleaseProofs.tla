---- MODULE VersionReleaseProofs ----
(***************************************************************************)
(* What is proved of VersionRelease for every value of its constants.      *)
(***************************************************************************)
EXTENDS VersionRelease, FiniteSetTheorems, SequenceTheorems, TLAPS

USE DEF repository, locals, observed

-----------------------------------------------------------------------------
(* The inductive invariant: what a run that has come to a step can rely on,  *)
(* whatever the developer does meanwhile                                     *)

Text == {text \in Seq(Line) : OneProject(text)}

CommitType == [text : Text, others : BOOLEAN, late : BOOLEAN, release : Version \cup {NoVersion}]

Texts == /\ log \in Seq(CommitType) /\ log # <<>> /\ log[1].release = NoVersion
         /\ file \in Text /\ index \in Text /\ original \in Text

\* Before anything is changed.
Untouched == /\ file = before.file /\ index = before.index
             /\ Len(log) = before.commits /\ ~damaged

\* After the look at the work tree.
Looked == Untouched /\ index = file /\ file = Head1 /\ (staged => late)

\* After the text was changed, and before the commit.
Changed == /\ original = before.file /\ original = before.index /\ original = Head1
           /\ Len(log) = before.commits /\ ~damaged /\ (staged => late)
           /\ file = Replaced(original, current, new) /\ Replaceable(original, current)
           /\ current = ProjectVersion(original)
           /\ index \in {original, file}

\* After the index was reset, or could not be.
Reset == /\ original = before.file /\ Len(log) = before.commits
         /\ damaged \/ index = before.index

\* After the commit.
Committed == /\ Len(log) = before.commits + 1 /\ log[Len(log)].release = new
             /\ Head1 = file /\ index = file
             /\ file = Replaced(original, current, new) /\ current = ProjectVersion(original)

Progress ==
  /\ pc = "check" => Untouched
  /\ pc \in {"load", "rev-parse", "read", "write"} => Looked
  /\ pc \in {"rev-parse", "read", "write"} => current = ProjectVersion(file)
  /\ pc = "write" => original = file /\ Replaceable(original, current)
  /\ pc \in {"add", "commit", "restore"} => Changed
  /\ pc = "add" => index = original
  /\ pc = "commit" => index = file
  /\ pc = "rewrite" => Reset
  /\ pc = "tag" => Committed
  /\ pc \in {"read", "write", "add", "commit"} => (tags[new] # 0 => late)

IInv == TypeOK /\ Texts /\ Progress /\ ReleasesOnlyTheVersion

-----------------------------------------------------------------------------
(* What the operators on texts do *)

VersionType == Version \cup {NoVersion}

\* The lines of a text.
LEMMA Lines ==
  ASSUME NEW text \in Text
  PROVE  /\ text \in Seq(Line) /\ OneProject(text)
         /\ Len(text) \in Nat /\ DOMAIN text = 1..Len(text)
         /\ text \in [1..Len(text) -> Line]
         /\ \A i \in DOMAIN text : /\ text[i] \in Line
                                   /\ text[i].version \in VersionType
                                   /\ text[i].exact \in BOOLEAN
<1>1. text \in Seq(Line) /\ OneProject(text)
  BY DEF Text
<1>2. /\ Len(text) \in Nat /\ DOMAIN text = 1..Len(text)
      /\ text \in [1..Len(text) -> Line]
  BY <1>1, LenProperties
<1>3. ASSUME NEW i \in DOMAIN text
      PROVE  text[i] \in Line /\ text[i].version \in VersionType /\ text[i].exact \in BOOLEAN
  <2>1. text[i] \in Line
    BY <1>2
  <2> QED BY <2>1 DEF Line, VersionType
<1> QED BY <1>1, <1>2, <1>3

\* The version of a text is that of its line in [project].
LEMMA TheProjectVersion ==
  ASSUME NEW text \in Text
  PROVE  /\ ProjectVersion(text) \in VersionType
         /\ \A i \in DOMAIN text :
              text[i].table = "project" => ProjectVersion(text) = text[i].version
<1>1. CASE \E i \in DOMAIN text : text[i].table = "project"
  <2> DEFINE j == CHOOSE i \in DOMAIN text : text[i].table = "project"
  <2>1. j \in DOMAIN text /\ text[j].table = "project"
    BY <1>1
  <2>2. ProjectVersion(text) = text[j].version
    BY <1>1, Zenon DEF ProjectVersion
  <2>3. \A i \in DOMAIN text : text[i].table = "project" => i = j
    BY <2>1, Lines DEF OneProject
  <2> HIDE DEF j
  <2> QED BY <2>1, <2>2, <2>3, Lines
<1>2. CASE ~ \E i \in DOMAIN text : text[i].table = "project"
  BY <1>2 DEF ProjectVersion, VersionType
<1> QED BY <1>1, <1>2

\* A text with its version replaced is a text of the same lines.
LEMMA ReplacedText ==
  ASSUME NEW text \in Text, NEW v \in VersionType, NEW w \in VersionType
  PROVE  /\ Replaced(text, v, w) \in Text
         /\ DOMAIN Replaced(text, v, w) = DOMAIN text
         /\ \A i \in DOMAIN text :
              /\ Replaced(text, v, w)[i].table = text[i].table
              /\ Replaced(text, v, w)[i].exact = text[i].exact
              /\ i \in Matching(text, v) => Replaced(text, v, w)[i].version = w
              /\ i \notin Matching(text, v) => Replaced(text, v, w)[i] = text[i]
<1> DEFINE changed(i) == IF i \in Matching(text, v) THEN [text[i] EXCEPT !.version = w] ELSE text[i]
<1>1. Replaced(text, v, w) = [i \in DOMAIN text |-> changed(i)]
  BY DEF Replaced
<1>2. ASSUME NEW i \in DOMAIN text
      PROVE  /\ changed(i) \in Line
             /\ changed(i).table = text[i].table /\ changed(i).exact = text[i].exact
             /\ i \in Matching(text, v) => changed(i).version = w
             /\ i \notin Matching(text, v) => changed(i) = text[i]
  <2>1. text[i] \in Line
    BY Lines
  <2>2. [text[i] EXCEPT !.version = w] \in Line
    BY <2>1 DEF Line, VersionType
  <2>3. /\ [text[i] EXCEPT !.version = w].table = text[i].table
        /\ [text[i] EXCEPT !.version = w].exact = text[i].exact
        /\ [text[i] EXCEPT !.version = w].version = w
    BY <2>1 DEF Line
  <2> QED BY <2>1, <2>2, <2>3
<1> HIDE DEF changed
<1>3. Replaced(text, v, w) \in [1..Len(text) -> Line] /\ Len(text) \in Nat
  BY <1>1, <1>2, Lines
<1>4. Replaced(text, v, w) \in Seq(Line)
  BY <1>3, SeqDef
<1>5. OneProject(Replaced(text, v, w))
  BY <1>1, <1>2, Lines DEF OneProject
<1> QED BY <1>1, <1>2, <1>4, <1>5 DEF Text

\* A text that can be replaced has one such line, and no other line changes.
LEMMA ReplacedOne ==
  ASSUME NEW text \in Text, NEW v \in VersionType, NEW w \in VersionType, v # w,
         Replaceable(text, v)
  PROVE  OneLineChanged(text, Replaced(text, v, w), w)
<1>1. IsFiniteSet(Matching(text, v))
  <2>1. IsFiniteSet(DOMAIN text)
    <3>1. IsFiniteSet(1..Len(text))
      BY Lines, FS_Interval
    <3> QED BY <3>1, Lines
  <2>2. Matching(text, v) \in SUBSET DOMAIN text
    BY DEF Matching
  <2> QED BY <2>1, <2>2, FS_Subset
<1>2. PICK j : Matching(text, v) = {j}
  BY <1>1, FS_Singleton DEF Replaceable
<1>3. j \in DOMAIN text /\ text[j].exact /\ text[j].version = v
  BY <1>2 DEF Matching
<1>4. {i \in DOMAIN text : Replaced(text, v, w)[i] # text[i]} = {j}
  BY <1>2, <1>3, ReplacedText
<1>5. Replaced(text, v, w) = [text EXCEPT ![j].version = w]
  <2>1. Replaced(text, v, w) = [i \in DOMAIN text |->
                                  IF i = j THEN [text[i] EXCEPT !.version = w] ELSE text[i]]
    BY <1>2 DEF Replaced
  <2> QED BY <1>3, <2>1, Lines
<1> QED BY <1>3, <1>4, <1>5, FS_Singleton DEF OneLineChanged

\* The line of [project] reads the new version, if it was in the form that is replaced.
LEMMA ReplacedProject ==
  ASSUME NEW text \in Text, NEW w \in VersionType,
         NEW i \in DOMAIN text, text[i].table = "project", text[i].exact
  PROVE  ProjectVersion(Replaced(text, ProjectVersion(text), w)) = w
<1>1. i \in Matching(text, ProjectVersion(text))
  BY TheProjectVersion DEF Matching
<1>2. ProjectVersion(text) \in VersionType
  BY TheProjectVersion
<1> DEFINE now == Replaced(text, ProjectVersion(text), w)
<1>3. now \in Text /\ i \in DOMAIN now /\ now[i].table = "project" /\ now[i].version = w
  BY <1>1, <1>2, ReplacedText
<1> HIDE DEF now
<1>4. ProjectVersion(now) = w
  BY <1>3, TheProjectVersion
<1> QED BY <1>4 DEF now

\* What a write that fails leaves is a text.
LEMMA TornText ==
  ASSUME file \in Text, NEW text \in Text, NEW torn \in Torn(text)
  PROVE  torn \in Text
<1>1. CASE torn = file
  BY <1>1
<1>2. CASE torn # file
  <2>1. PICK n \in 0..Len(text) - 1 : torn = SubSeq(text, 1, n)
    BY <1>2 DEF Torn
  <2>2. n \in Nat /\ \A i \in 1..n : i \in DOMAIN text
    BY <2>1, Lines
  <2>3. \A i \in 1..n : text[i] \in Line
    BY <2>2, Lines
  <2>4. /\ torn \in Seq(Line) /\ Len(torn) = n
        /\ \A i \in 1..n : torn[i] = text[i]
    <3>1. /\ SubSeq(text, 1, n) \in Seq(Line)
          /\ Len(SubSeq(text, 1, n)) = IF 1 <= n THEN n - 1 + 1 ELSE 0
          /\ \A i \in 1..n - 1 + 1 : SubSeq(text, 1, n)[i] = text[1 + i - 1]
      BY <2>2, <2>3, SubSeqProperties
    <3> QED BY <2>1, <2>2, <3>1
  <2>5. DOMAIN torn = 1..n
    BY <2>4, LenProperties
  <2> QED BY <2>2, <2>4, <2>5, Lines DEF Text, OneProject
<1> QED BY <1>1, <1>2

-----------------------------------------------------------------------------
(* What every step relies on *)

\* The history: it is not empty, and its commits hold texts.
LEMMA History ==
  ASSUME Texts
  PROVE  /\ Len(log) \in Nat \ {0} /\ DOMAIN log = 1..Len(log)
         /\ \A i \in DOMAIN log : log[i] \in CommitType
         /\ Len(log) \in DOMAIN log
         /\ Head1 \in Text
<1>1. /\ Len(log) \in Nat \ {0} /\ DOMAIN log = 1..Len(log)
      /\ log \in [1..Len(log) -> CommitType]
  BY LenProperties, EmptySeq DEF Texts
<1>2. log[Len(log)] \in CommitType
  BY <1>1
<1>3. Head1 \in Text
  BY <1>2 DEF Head1, CommitType
<1> QED BY <1>1, <1>3

\* The commits that hold a release stay as they are, and tags that come name the last commit.
LEMMA ReleasesStay ==
  ASSUME IInv, UNCHANGED log,
         \A v \in Version : tags'[v] = tags[v] \/ tags'[v] = Len(log)
  PROVE  ReleasesOnlyTheVersion'
<1>1. ASSUME NEW i \in DOMAIN log, log[i].release # NoVersion,
             tags'[log[i].release] \in 1..i - 1
      PROVE  tags[log[i].release] \in 1..i - 1
  <2>1. log[i].release \in Version /\ i <= Len(log) /\ i \in Nat /\ Len(log) \in Nat
    BY <1>1, History DEF IInv, CommitType
  <2> QED BY <1>1, <2>1
<1>2. ReleasesOnlyTheVersion
  BY DEF IInv
<1> QED BY <1>1, <1>2 DEF ReleasesOnlyTheVersion

\* A commit is added to the history.
LEMMA LogGrows ==
  ASSUME Texts, NEW c \in CommitType, log' = Append(log, c)
  PROVE  /\ log' \in Seq(CommitType) /\ log' # <<>> /\ log'[1] = log[1]
         /\ Len(log') = Len(log) + 1 /\ DOMAIN log' = 1..Len(log) + 1
         /\ log'[Len(log) + 1] = c /\ \A i \in DOMAIN log : log'[i] = log[i]
<1>1. /\ log' \in Seq(CommitType) /\ log' # <<>> /\ Len(log') = Len(log) + 1
      /\ \A i \in 1..Len(log) : log'[i] = log[i]
      /\ log'[Len(log) + 1] = c
  BY AppendProperties DEF Texts
<1>2. DOMAIN log' = 1..Len(log')
  BY <1>1, LenProperties
<1>3. DOMAIN log = 1..Len(log) /\ 1 \in DOMAIN log
  BY History
<1> QED BY <1>1, <1>2, <1>3

\* The commits before a new one keep what they were.
LEMMA EarlierReleases ==
  ASSUME IInv, NEW c \in CommitType, log' = Append(log, c), UNCHANGED tags,
         NEW i \in DOMAIN log, log'[i].release # NoVersion
  PROVE  /\ OneLineChanged(log'[i - 1].text, log'[i].text, log'[i].release)
         /\ log'[i].others \/ tags'[log'[i].release] \in 1..i - 1 => log'[i].late
<1>1. log'[i] = log[i] /\ i # 1 /\ i \in 1..Len(log)
  BY LogGrows, History DEF IInv, Texts
<1>2. i - 1 \in DOMAIN log
  BY <1>1, History DEF IInv
<1>3. log'[i - 1] = log[i - 1]
  BY <1>2, LogGrows DEF IInv
<1>4. ReleasesOnlyTheVersion
  BY DEF IInv
<1> QED BY <1>1, <1>3, <1>4 DEF ReleasesOnlyTheVersion

\* Where a run ends, texts and tags are all there is to keep.
LEMMA EndIInv ==
  ASSUME IInv, NEW said \in Answer, Ends(said), file' \in Text, damaged' \in BOOLEAN,
         UNCHANGED <<index, staged, loose, log>>, tags' \in [Version -> 0..Len(log)],
         \A v \in Version : tags'[v] = tags[v] \/ tags'[v] = Len(log)
  PROVE  IInv'
<1>1. /\ pc' = "idle" /\ answer' = said /\ current' = NoVersion /\ new' = NoVersion
      /\ original' = <<>> /\ late' = FALSE
  BY DEF Ends
<1>2. <<>> \in Text
  BY EmptySeq DEF Text, OneProject
<1>3. Texts'
  BY <1>1, <1>2 DEF IInv, Texts
<1>4. TypeOK'
  BY <1>1, <1>2, Lines DEF IInv, TypeOK, Place, Text
<1>5. Progress'
  BY <1>1 DEF Progress
<1>6. ReleasesOnlyTheVersion'
  BY ReleasesStay
<1> QED BY <1>3, <1>4, <1>5, <1>6 DEF IInv

\* Where history and tags stay, and the locals keep their types, so do releases and types.
LEMMA StepWithin ==
  ASSUME IInv, UNCHANGED <<log, tags>>, answer' \in Answer, pc' \in Place,
         file' \in Text, index' \in Text, original' \in Text,
         staged' \in BOOLEAN, loose' \in BOOLEAN, damaged' \in BOOLEAN, late' \in BOOLEAN,
         pc' \notin {"idle", "check", "load"} =>
           current' \in Version /\ new' \in Version \ {current'},
         Progress'
  PROVE  IInv'
<1>1. TypeOK'
  BY DEF IInv, TypeOK, Text
<1>2. Texts'
  BY DEF IInv, Texts
<1>3. ReleasesOnlyTheVersion'
  BY ReleasesStay
<1> QED BY <1>1, <1>2, <1>3 DEF IInv

\* The invariant holds before the first run.
LEMMA InitIInv == Init => IInv
<1> SUFFICES ASSUME Init PROVE IInv
  OBVIOUS
<1> DEFINE first == [text |-> file, others |-> FALSE, late |-> FALSE, release |-> NoVersion]
<1>1. file \in Text /\ <<>> \in Text
  BY ReleaseAssumption, EmptySeq DEF Init, Text, OneProject
<1>2. first \in CommitType /\ first.release = NoVersion
  BY <1>1 DEF CommitType
<1>3. log = <<first>>
  BY DEF Init
<1> HIDE DEF first
<1>4. log \in Seq(CommitType) /\ Len(log) = 1 /\ log[1] = first
  BY <1>2, <1>3
<1>5. Texts
  BY <1>1, <1>2, <1>4, EmptySeq DEF Init, Texts
<1>6. DOMAIN log = {1} /\ log[1] = first
  BY <1>4, <1>5, History
<1>7. TypeOK
  <2>1. \A i \in DOMAIN log : log[i] \in CommitType
    BY <1>2, <1>6
  <2>2. tags \in [Version -> 0..Len(log)]
    BY <1>4 DEF Init
  <2>3. /\ staged \in BOOLEAN /\ loose \in BOOLEAN /\ damaged \in BOOLEAN /\ late \in BOOLEAN
        /\ pc = "idle" /\ answer = "none" /\ original = <<>> /\ index = file
    BY DEF Init
  <2> QED BY <1>1, <2>1, <2>2, <2>3 DEF TypeOK, Text, CommitType, Place, Answer
<1>8. Progress
  BY DEF Init, Progress
<1>9. ReleasesOnlyTheVersion
  BY <1>2, <1>6 DEF ReleasesOnlyTheVersion
<1> QED BY <1>5, <1>7, <1>8, <1>9 DEF IInv

\* The parts of the types that a step may need.
LEMMA Parts ==
  ASSUME IInv
  PROVE  /\ file \in Text /\ index \in Text /\ original \in Text /\ Head1 \in Text
         /\ staged \in BOOLEAN /\ loose \in BOOLEAN /\ damaged \in BOOLEAN /\ late \in BOOLEAN
         /\ answer \in Answer /\ pc \in Place
         /\ Len(log) \in Nat /\ tags \in [Version -> 0..Len(log)]
         /\ pc \notin {"idle", "check", "load"} =>
              current \in Version /\ new \in Version \ {current}
  BY History DEF IInv, TypeOK, Texts

-----------------------------------------------------------------------------
(* The steps of main that look *)

\* Run preserves the invariant.
LEMMA RunIInv == ASSUME IInv, Run PROVE IInv'
<1>1. /\ pc' = "check" /\ answer' = "none" /\ damaged' = FALSE /\ late' = FALSE
      /\ before' = [file |-> file, index |-> index, commits |-> Len(log)]
      /\ UNCHANGED <<file, index, staged, loose, log, tags, current, new, original>>
  BY DEF Run
<1>2. Progress'
  BY <1>1 DEF Progress, Untouched
<1> QED BY <1>1, <1>2, Parts, StepWithin DEF Place, Answer

\* CheckTree preserves the invariant.
LEMMA CheckTreeIInv == ASSUME IInv, CheckTree PROVE IInv'
<1>1. /\ pc = "check" /\ pc' = "load" /\ file = index /\ index = Head1 /\ ~staged
      /\ UNCHANGED <<file, index, staged, loose, log, tags, current, new, original, answer,
                     before, damaged, late>>
  BY DEF CheckTree, Clean
<1>2. Progress'
  BY <1>1 DEF IInv, Progress, Untouched, Looked, Head1
<1> QED BY <1>1, <1>2, Parts, StepWithin DEF Place, Answer

\* Plan preserves the invariant.
LEMMA PlanIInv == ASSUME IInv, NEW r \in Request, Plan(r) PROVE IInv'
<1>1. /\ pc = "load" /\ pc' = "rev-parse" /\ current' = ProjectVersion(file)
      /\ new' = Requested(ProjectVersion(file), r)
      /\ UNCHANGED <<file, index, staged, loose, log, tags, original, answer,
                     before, damaged, late>>
  BY DEF Plan
<1>2. current' \in Version /\ new' \in Version \ {current'}
  <2>1. ProjectVersion(file) \in VersionType
    BY Parts, TheProjectVersion
  <2> QED BY <1>1, <2>1 DEF Plan, Acceptable, VersionType
<1>3. Progress'
  BY <1>1 DEF IInv, Progress, Untouched, Looked, Head1
<1> QED BY <1>1, <1>2, <1>3, Parts, StepWithin DEF Place, Answer

\* CheckTag preserves the invariant.
LEMMA CheckTagIInv == ASSUME IInv, CheckTag PROVE IInv'
<1>1. /\ pc = "rev-parse" /\ pc' = "read" /\ tags[new] = 0
      /\ UNCHANGED <<file, index, staged, loose, log, tags, current, new, original, answer,
                     before, damaged, late>>
  BY DEF CheckTag
<1>2. Progress'
  BY <1>1 DEF IInv, Progress, Untouched, Looked, Head1
<1> QED BY <1>1, <1>2, Parts, StepWithin DEF Place, Answer

\* ReadText preserves the invariant.
LEMMA ReadTextIInv == ASSUME IInv, ReadText PROVE IInv'
<1>1. /\ pc = "read" /\ pc' = "write" /\ original' = file /\ Replaceable(file, current)
      /\ UNCHANGED <<file, index, staged, loose, log, tags, current, new, answer,
                     before, damaged, late>>
  BY DEF ReadText
<1>2. Progress'
  BY <1>1 DEF IInv, Progress, Untouched, Looked, Head1
<1> QED BY <1>1, <1>2, Parts, StepWithin DEF Place, Answer

-----------------------------------------------------------------------------
(* The steps of main that change something *)

\* Write preserves the invariant.
LEMMA WriteIInv == ASSUME IInv, Write PROVE IInv'
<1>1. /\ pc = "write" /\ pc' = "add" /\ file' = Replaced(original, current, new)
      /\ UNCHANGED <<index, staged, loose, log, tags, current, new, original, answer,
                     before, damaged, late>>
  BY DEF Write
<1>2. file' \in Text
  BY <1>1, Parts, ReplacedText DEF VersionType
<1>3. /\ original = file /\ Replaceable(original, current) /\ current = ProjectVersion(file)
      /\ Looked /\ (tags[new] # 0 => late)
  BY <1>1 DEF IInv, Progress
<1>4. Changed'
  BY <1>1, <1>3 DEF Looked, Untouched, Changed, Head1
<1>5. Progress'
  BY <1>1, <1>3, <1>4 DEF Progress, Looked
<1> QED BY <1>1, <1>2, <1>5, Parts, StepWithin DEF Place, Answer

\* Add preserves the invariant.
LEMMA AddIInv == ASSUME IInv, Add PROVE IInv'
<1>1. /\ pc = "add" /\ pc' = "commit" /\ index' = file
      /\ UNCHANGED <<file, staged, loose, log, tags, current, new, original, answer,
                     before, damaged, late>>
  BY DEF Add
<1>2. Changed /\ (tags[new] # 0 => late)
  BY <1>1 DEF IInv, Progress
<1>3. Changed'
  BY <1>1, <1>2 DEF Changed, Head1
<1>4. Progress'
  BY <1>1, <1>2, <1>3 DEF Progress
<1> QED BY <1>1, <1>4, Parts, StepWithin DEF Place, Answer

\* GitFails preserves the invariant.
LEMMA GitFailsIInv == ASSUME IInv, GitFails PROVE IInv'
<1>1. /\ pc \in {"add", "commit"} /\ pc' = "restore"
      /\ UNCHANGED <<file, index, staged, loose, log, tags, current, new, original, answer,
                     before, damaged, late>>
  BY DEF GitFails
<1>2. Changed
  BY <1>1 DEF IInv, Progress
<1>3. Changed'
  BY <1>1, <1>2 DEF Changed, Head1
<1>4. Progress'
  BY <1>1, <1>3 DEF Progress
<1> QED BY <1>1, <1>4, Parts, StepWithin DEF Place, Answer

\* Restore preserves the invariant.
LEMMA RestoreIInv == ASSUME IInv, Restore PROVE IInv'
<1>1. /\ pc = "restore" /\ pc' = "rewrite"
      /\ UNCHANGED <<file, staged, loose, log, tags, current, new, original, answer,
                     before, late>>
  BY DEF Restore
<1>2. \/ index' = Head1 /\ damaged' = damaged
      \/ index' = index /\ damaged' = (damaged \/ index # Head1)
  BY DEF Restore
<1>3. Changed
  BY <1>1 DEF IInv, Progress
<1>4. Reset'
  BY <1>1, <1>2, <1>3 DEF Changed, Reset
<1>5. Progress'
  BY <1>1, <1>4 DEF Progress
<1>6. index' \in Text /\ damaged' \in BOOLEAN
  BY <1>2, Parts
<1> QED BY <1>1, <1>5, <1>6, Parts, StepWithin DEF Place, Answer

\* Commit preserves the invariant: what it records is the text it follows with one line
\* changed, and any other file or an earlier tag came after the run had looked.
LEMMA CommitIInv == ASSUME IInv, Commit PROVE IInv'
<1> DEFINE c == [text |-> index, others |-> staged, late |-> late, release |-> new]
<1>1. /\ pc = "commit" /\ pc' = "tag" /\ log' = Append(log, c) /\ staged' = FALSE
      /\ UNCHANGED <<file, index, loose, tags, current, new, original, answer,
                     before, damaged, late>>
  BY DEF Commit
<1>2. c \in CommitType /\ c.text = index /\ c.release = new
  BY <1>1, Parts DEF CommitType
<1>3. c.others = staged /\ c.late = late
  OBVIOUS
<1> HIDE DEF c
<1>4. /\ log' \in Seq(CommitType) /\ log' # <<>> /\ log'[1] = log[1]
      /\ Len(log') = Len(log) + 1 /\ DOMAIN log' = 1..Len(log) + 1
      /\ log'[Len(log) + 1] = c /\ \A i \in DOMAIN log : log'[i] = log[i]
  BY <1>1, <1>2, LogGrows DEF IInv
<1>5. Texts'
  BY <1>1, <1>4 DEF IInv, Texts
<1>6. Changed /\ index = file /\ (tags[new] # 0 => late)
  BY <1>1 DEF IInv, Progress
<1>7. Committed'
  <2>1. Head1' = index
    BY <1>2, <1>4 DEF Head1
  <2> QED BY <1>1, <1>2, <1>4, <1>6, <2>1, Parts DEF Changed, Committed
<1>8. Progress'
  BY <1>1, <1>7 DEF Progress
<1>9. TypeOK'
  <2>1. \A i \in DOMAIN log' : log'[i] \in CommitType
    <3>1. \A i \in DOMAIN log : log[i] \in CommitType
      BY History DEF IInv
    <3>2. \A i \in DOMAIN log' : i \in DOMAIN log \/ i = Len(log) + 1
      BY <1>4, History DEF IInv
    <3> QED BY <1>2, <1>4, <3>1, <3>2
  <2>2. tags' \in [Version -> 0..Len(log')]
    BY <1>1, <1>4, Parts
  <2>3. staged' \in BOOLEAN
    BY <1>1
  <2>4. \A d \in {log'[i] : i \in DOMAIN log'} :
          d.text \in Seq(Line) /\ d.others \in BOOLEAN /\ d.release \in Version \cup {NoVersion}
    BY <2>1 DEF CommitType, Text
  <2> QED BY <1>1, <2>2, <2>3, <2>4 DEF IInv, TypeOK, Place
<1>10. ReleasesOnlyTheVersion'
  <2>1. log'[Len(log) + 1 - 1] = log[Len(log)] /\ log[Len(log)].text = original
    BY <1>4, <1>6, History DEF IInv, Changed, Head1
  <2>2. OneLineChanged(original, file, new)
    BY <1>1, <1>6, Parts, ReplacedOne DEF Changed, VersionType
  <2>3. c.others \/ tags[new] \in 1..Len(log) + 1 - 1 => c.late
    BY <1>3, <1>6 DEF Changed
  <2>4. ASSUME NEW i \in DOMAIN log', log'[i].release # NoVersion
        PROVE  /\ OneLineChanged(log'[i - 1].text, log'[i].text, log'[i].release)
               /\ log'[i].others \/ tags'[log'[i].release] \in 1..i - 1 => log'[i].late
    <3>1. CASE i = Len(log) + 1
      <4>1. log'[i] = c /\ log'[i - 1].text = original /\ tags'[new] = tags[new]
        <5>1. log'[i] = c
          BY <1>4, <3>1
        <5>2. log'[i - 1] = log[Len(log)]
          BY <2>1, <3>1
        <5>3. tags'[new] = tags[new]
          BY <1>1
        <5> QED BY <2>1, <5>1, <5>2, <5>3
      <4>2. c.text = file /\ c.release = new
        BY <1>2, <1>6
      <4>3. c.others \/ tags'[new] \in 1..i - 1 => c.late
        BY <2>3, <3>1, <4>1
      <4>4. OneLineChanged(log'[i - 1].text, log'[i].text, log'[i].release)
        BY <2>2, <4>1, <4>2, Zenon
      <4>5. log'[i].others \/ tags'[log'[i].release] \in 1..i - 1 => log'[i].late
        BY <4>1, <4>2, <4>3, Zenon
      <4> QED BY <4>4, <4>5, Zenon
    <3>2. CASE i # Len(log) + 1
      <4>1. i \in DOMAIN log
        BY <1>4, <3>2, History DEF IInv
      <4> QED BY <1>1, <1>2, <2>4, <4>1, EarlierReleases
    <3> QED BY <3>1, <3>2
  <2> QED BY <2>4 DEF ReleasesOnlyTheVersion
<1> QED BY <1>5, <1>8, <1>9, <1>10 DEF IInv

-----------------------------------------------------------------------------
(* The steps of main with which a run ends *)

\* Every answer that leaves files and history as they are preserves the invariant.
LEMMA QuietEnd ==
  ASSUME IInv, NEW said \in Answer, Ends(said), UNCHANGED <<repository, damaged>>
  PROVE  IInv'
BY EndIInv, Parts

\* Refuse preserves the invariant.
LEMMA RefuseIInv == ASSUME IInv, Refuse PROVE IInv'
BY QuietEnd DEF Refuse, Answer

\* TagFails preserves the invariant.
LEMMA TagFailsIInv == ASSUME IInv, TagFails PROVE IInv'
BY QuietEnd DEF TagFails, Answer

\* The text that is about to be written.
LEMMA ToBeWritten ==
  ASSUME IInv, pc = "write"
  PROVE  Replaced(original, current, new) \in Text
BY Parts, ReplacedText DEF VersionType

\* WriteFails preserves the invariant.
LEMMA WriteFailsIInv == ASSUME IInv, WriteFails PROVE IInv'
<1>1. /\ pc = "write" /\ file' \in Torn(Replaced(original, current, new))
      /\ damaged' = (file' # file) /\ Ends("error")
      /\ UNCHANGED <<index, staged, loose, log, tags>>
  BY DEF WriteFails
<1>2. file' \in Text
  BY <1>1, Parts, ToBeWritten, TornText
<1> QED BY <1>1, <1>2, Parts, EndIInv DEF Answer

\* Rewrite preserves the invariant.
LEMMA RewriteIInv == ASSUME IInv, Rewrite PROVE IInv'
BY Parts, EndIInv DEF Rewrite, Rewritten, Answer

\* RewriteFails preserves the invariant.
LEMMA RewriteFailsIInv == ASSUME IInv, RewriteFails PROVE IInv'
<1>1. file' \in Torn(original) /\ damaged' = TRUE /\ Ends("error")
      /\ UNCHANGED <<index, staged, loose, log, tags>>
  BY DEF RewriteFails
<1>2. file' \in Text
  BY <1>1, Parts, TornText
<1> QED BY <1>1, <1>2, Parts, EndIInv DEF Answer

\* Tag preserves the invariant.
LEMMA TagIInv == ASSUME IInv, Tag PROVE IInv'
<1>1. /\ pc = "tag" /\ tags' = [tags EXCEPT ![new] = Len(log)] /\ Ends("released")
      /\ UNCHANGED <<file, index, staged, loose, log, damaged>>
  BY DEF Tag
<1>2. /\ tags' \in [Version -> 0..Len(log)]
      /\ \A v \in Version : tags'[v] = tags[v] \/ tags'[v] = Len(log)
  BY <1>1, Parts
<1> QED BY <1>1, <1>2, Parts, EndIInv DEF Answer

\* Interrupt preserves the invariant.
LEMMA InterruptIInv == ASSUME IInv, Interrupt PROVE IInv'
<1>1. Ends("none") /\ UNCHANGED <<index, staged, loose, log, tags, damaged>>
  BY DEF Interrupt
<1>2. file' \in Text
  <2>1. CASE pc = "write"
    <3>1. file' \in Torn(Replaced(original, current, new))
      BY <2>1 DEF Interrupt
    <3> QED BY <2>1, <3>1, Parts, ToBeWritten, TornText
  <2>2. CASE pc = "rewrite"
    <3>1. file' \in Torn(original)
      BY <2>2 DEF Interrupt
    <3> QED BY <3>1, Parts, TornText
  <2>3. CASE pc \notin {"write", "rewrite"}
    <3>1. file' = file
      BY <2>3 DEF Interrupt
    <3> QED BY <3>1, Parts
  <2> QED BY <2>1, <2>2, <2>3
<1> QED BY <1>1, <1>2, Parts, EndIInv DEF Answer

-----------------------------------------------------------------------------
(* The steps of the developer *)

\* Stage preserves the invariant: what is staged under a run's feet is late.
LEMMA StageIInv == ASSUME IInv, Stage PROVE IInv'
<1>1. /\ staged' = TRUE /\ late' = (late \/ pc \notin {"idle", "check"})
      /\ UNCHANGED <<file, index, loose, log, tags, pc, current, new, original, answer,
                     before, damaged>>
  BY DEF Stage
<1>2. pc \notin {"idle", "check"} => late' = TRUE
  BY <1>1
<1>3. late' \in BOOLEAN
  BY <1>1, Parts
<1>4. Progress'
  BY <1>1, <1>2 DEF IInv, Progress, Untouched, Looked, Changed, Reset, Committed, Head1
<1> QED BY <1>1, <1>3, <1>4, Parts, StepWithin

\* Touch preserves the invariant.
LEMMA TouchIInv == ASSUME IInv, Touch PROVE IInv'
<1>1. /\ loose' = TRUE
      /\ UNCHANGED <<file, index, staged, log, tags, pc, current, new, original, answer,
                     before, damaged, late>>
  BY DEF Touch
<1>2. Progress'
  BY <1>1 DEF IInv, Progress, Untouched, Looked, Changed, Reset, Committed, Head1
<1> QED BY <1>1, <1>2, Parts, StepWithin

\* TagElsewhere preserves the invariant: a tag that comes under a run's feet is late.
LEMMA TagElsewhereIInv == ASSUME IInv, NEW v \in Version, TagElsewhere(v) PROVE IInv'
<1>1. /\ tags' = [tags EXCEPT ![v] = Len(log)]
      /\ late' = (late \/ pc \notin {"idle", "check", "load", "rev-parse"})
      /\ UNCHANGED <<file, index, staged, loose, log, pc, current, new, original, answer,
                     before, damaged>>
  BY DEF TagElsewhere
<1>2. /\ tags' \in [Version -> 0..Len(log)]
      /\ \A w \in Version : tags'[w] = tags[w] \/ tags'[w] = Len(log)
  BY <1>1, Parts
<1>3. late' \in BOOLEAN /\ (late => late')
  BY <1>1, Parts
<1>4. pc \in {"read", "write", "add", "commit"} => late'
  BY <1>1
<1>5. Progress'
  BY <1>1, <1>3, <1>4
     DEF IInv, Progress, Untouched, Looked, Changed, Reset, Committed, Head1
<1>6. TypeOK'
  BY <1>1, <1>2, <1>3 DEF IInv, TypeOK
<1>7. Texts'
  BY <1>1 DEF IInv, Texts
<1> QED BY <1>1, <1>2, <1>5, <1>6, <1>7, ReleasesStay DEF IInv

\* CommitAll preserves the invariant: it records no release.
LEMMA CommitAllIInv == ASSUME IInv, CommitAll PROVE IInv'
<1> DEFINE c == [text |-> file, others |-> staged \/ loose, late |-> FALSE, release |-> NoVersion]
<1>1. /\ pc = "idle" /\ log' = Append(log, c) /\ index' = file
      /\ staged' = FALSE /\ loose' = FALSE
      /\ UNCHANGED <<file, tags, pc, current, new, original, answer, before, damaged, late>>
  BY DEF CommitAll
<1>2. c \in CommitType /\ c.release = NoVersion
  BY Parts DEF CommitType
<1> HIDE DEF c
<1>3. /\ log' \in Seq(CommitType) /\ log' # <<>> /\ log'[1] = log[1]
      /\ Len(log') = Len(log) + 1 /\ DOMAIN log' = 1..Len(log) + 1
      /\ log'[Len(log) + 1] = c /\ \A i \in DOMAIN log : log'[i] = log[i]
  BY <1>1, <1>2, LogGrows DEF IInv
<1>4. \A i \in DOMAIN log' : i \in DOMAIN log \/ i = Len(log) + 1
  BY <1>3, History DEF IInv
<1>5. Texts'
  BY <1>1, <1>3 DEF IInv, Texts
<1>6. Progress'
  BY <1>1 DEF Progress
<1>7. TypeOK'
  <2>1. \A i \in DOMAIN log : log[i] \in CommitType
    BY History DEF IInv
  <2>2. \A i \in DOMAIN log' : log'[i] \in CommitType
    BY <1>2, <1>3, <1>4, <2>1
  <2>3. \A d \in {log'[i] : i \in DOMAIN log'} :
          d.text \in Seq(Line) /\ d.others \in BOOLEAN /\ d.release \in Version \cup {NoVersion}
    BY <2>2 DEF CommitType, Text
  <2>4. tags' \in [Version -> 0..Len(log')]
    BY <1>1, <1>3, Parts
  <2> QED BY <1>1, <2>3, <2>4 DEF IInv, TypeOK
<1>8. ReleasesOnlyTheVersion'
  <2> SUFFICES ASSUME NEW i \in DOMAIN log', log'[i].release # NoVersion
               PROVE  /\ OneLineChanged(log'[i - 1].text, log'[i].text, log'[i].release)
                      /\ log'[i].others \/ tags'[log'[i].release] \in 1..i - 1 => log'[i].late
    BY DEF ReleasesOnlyTheVersion
  <2>1. i \in DOMAIN log
    BY <1>2, <1>3, <1>4
  <2> QED BY <1>1, <1>2, <2>1, EarlierReleases
<1> QED BY <1>5, <1>6, <1>7, <1>8 DEF IInv

\* CleanUp preserves the invariant.
LEMMA CleanUpIInv == ASSUME IInv, CleanUp PROVE IInv'
<1>1. /\ pc = "idle" /\ file' = Head1 /\ index' = Head1 /\ staged' = FALSE /\ loose' = FALSE
      /\ UNCHANGED <<log, tags, pc, current, new, original, answer, before, damaged, late>>
  BY DEF CleanUp
<1>2. Progress'
  BY <1>1 DEF Progress
<1> QED BY <1>1, <1>2, Parts, StepWithin

-----------------------------------------------------------------------------
(* Theorems *)

\* Every step preserves the invariant.
LEMMA StepIInv == IInv /\ [Next]_vars => IInv'
<1> SUFFICES ASSUME IInv, [Next]_vars PROVE IInv'
  OBVIOUS
<1>1. CASE Run
  BY <1>1, RunIInv
<1>2. CASE CheckTree
  BY <1>2, CheckTreeIInv
<1>3. CASE CheckTag
  BY <1>3, CheckTagIInv
<1>4. CASE ReadText
  BY <1>4, ReadTextIInv
<1>5. CASE CheckFails
  BY <1>5, RefuseIInv DEF CheckFails
<1>6. CASE \E r \in Request : Plan(r) \/ CannotPlan(r)
  <2>1. PICK r \in Request : Plan(r) \/ CannotPlan(r)
    BY <1>6
  <2> QED BY <2>1, PlanIInv, RefuseIInv DEF CannotPlan
<1>7. CASE Write
  BY <1>7, WriteIInv
<1>8. CASE WriteFails
  BY <1>8, WriteFailsIInv
<1>9. CASE Add
  BY <1>9, AddIInv
<1>10. CASE Commit
  BY <1>10, CommitIInv
<1>11. CASE GitFails
  BY <1>11, GitFailsIInv
<1>12. CASE Restore
  BY <1>12, RestoreIInv
<1>13. CASE Rewrite
  BY <1>13, RewriteIInv
<1>14. CASE RewriteFails
  BY <1>14, RewriteFailsIInv
<1>15. CASE Tag
  BY <1>15, TagIInv
<1>16. CASE TagFails
  BY <1>16, TagFailsIInv
<1>17. CASE Interrupt
  BY <1>17, InterruptIInv
<1>18. CASE Stage
  BY <1>18, StageIInv
<1>19. CASE Touch
  BY <1>19, TouchIInv
<1>20. CASE CommitAll
  BY <1>20, CommitAllIInv
<1>21. CASE CleanUp
  BY <1>21, CleanUpIInv
<1>22. CASE \E v \in Named \cap Version : TagElsewhere(v)
  BY <1>22, TagElsewhereIInv
<1>23. CASE UNCHANGED vars
  <2>1. UNCHANGED <<file, index, staged, loose, log, tags, pc, current, new, original, answer,
                    before, damaged, late>>
    BY <1>23 DEF vars
  <2>2. Progress'
    BY <2>1 DEF IInv, Progress, Untouched, Looked, Changed, Reset, Committed, Head1
  <2> QED BY <2>1, <2>2, Parts, StepWithin
<1> QED BY <1>1, <1>2, <1>3, <1>4, <1>5, <1>6, <1>7, <1>8, <1>9, <1>10, <1>11, <1>12, <1>13,
           <1>14, <1>15, <1>16, <1>17, <1>18, <1>19, <1>20, <1>21, <1>22, <1>23
        DEF Next, Tool, Developer

\* The invariant holds in every state.
LEMMA Invariance == Spec => []IInv
BY InitIInv, StepIInv, PTL DEF Spec

\* The variables of the release helper have their types in every state.
THEOREM Types == Spec => []TypeOK
<1>1. IInv => TypeOK
  BY DEF IInv
<1> QED BY <1>1, Invariance, PTL

\* However the runs fail and whatever the developer does between their steps, a release
\* commit changes one line of the text it follows, to the new version, and another file in
\* it, or a tag there already, came after the run had looked.
THEOREM Releases == Spec => []ReleasesOnlyTheVersion
<1>1. IInv => ReleasesOnlyTheVersion
  BY DEF IInv
<1> QED BY <1>1, Invariance, PTL

-----------------------------------------------------------------------------
(* What a run answers *)

\* What is promised of an error.
ErrorIsTrue == /\ Len(log') = before.commits
               /\ damaged' \/ (file' = before.file /\ index' = before.index)

\* What is promised of a commit, tagged or not.
CommitIsTrue ==
  /\ Len(log') = before.commits + 1 /\ log'[Len(log')].release = new
  /\ file' = log'[Len(log')].text /\ index' = file'
  /\ (\E j \in DOMAIN file' : file'[j].table = "project" /\ file'[j].exact)
       => ProjectVersion(file') = new

\* A refusal before the first write found nothing changed.
LEMMA RefusalIsTrue ==
  ASSUME IInv, Refuse, pc \in {"check", "load", "rev-parse", "read"}
  PROVE  answer' = "error" /\ ErrorIsTrue
BY DEF Refuse, Ends, IInv, Progress, Looked, Untouched, ErrorIsTrue

\* An error of the write tells of a text that may be damaged.
LEMMA WriteErrorIsTrue == ASSUME IInv, WriteFails PROVE answer' = "error" /\ ErrorIsTrue
<1>1. /\ pc = "write" /\ damaged' = (file' # file) /\ answer' = "error"
      /\ UNCHANGED <<index, log>>
  BY DEF WriteFails, Ends
<1>2. Untouched
  BY <1>1 DEF IInv, Progress, Looked
<1>3. damaged' \/ file' = file
  BY <1>1
<1> QED BY <1>1, <1>2, <1>3 DEF Untouched, ErrorIsTrue

\* After a git failure the text is back, and the index is unless the reset failed.
LEMMA RewriteIsTrue ==
  ASSUME IInv, Rewrite \/ RewriteFails
  PROVE  answer' = "error" /\ ErrorIsTrue
<1>1. /\ pc = "rewrite" /\ answer' = "error" /\ UNCHANGED <<index, log>>
      /\ damaged' = TRUE \/ (file' = original /\ damaged' = damaged)
  BY DEF Rewrite, RewriteFails, Rewritten, Ends
<1>2. Reset
  BY <1>1 DEF IInv, Progress
<1> QED BY <1>1, <1>2 DEF Reset, ErrorIsTrue

\* After the commit, the file, the index and the commit hold the new version.
LEMMA CommitWasTrue ==
  ASSUME IInv, pc = "tag", UNCHANGED <<file, index, log>>
  PROVE  CommitIsTrue
<1>1. Committed
  BY DEF IInv, Progress
<1>2. ASSUME NEW j \in DOMAIN file, file[j].table = "project", file[j].exact
      PROVE  ProjectVersion(file) = new
  <2>1. original \in Text /\ current \in VersionType /\ new \in VersionType
    BY Parts DEF VersionType
  <2>2. file = Replaced(original, current, new) /\ current = ProjectVersion(original)
    BY <1>1 DEF Committed
  <2>3. j \in DOMAIN original /\ original[j].table = "project" /\ original[j].exact
    BY <1>2, <2>1, <2>2, ReplacedText
  <2> QED BY <2>1, <2>2, <2>3, ReplacedProject
<1> QED BY <1>1, <1>2 DEF Committed, CommitIsTrue, Head1

\* Tag answers that the release is tagged, and it is.
LEMMA TagIsTrue ==
  ASSUME IInv, Tag
  PROVE  answer' = "released" /\ CommitIsTrue /\ tags'[new] = Len(log')
<1>1. /\ pc = "tag" /\ answer' = "released" /\ tags' = [tags EXCEPT ![new] = Len(log)]
      /\ UNCHANGED <<file, index, log>>
  BY DEF Tag, Ends
<1>2. tags'[new] = Len(log')
  BY <1>1, Parts
<1> QED BY <1>1, <1>2, CommitWasTrue

\* A run that returns an answer has done what it says: an error leaves file, index and
\* history as the run found them unless a write or the reset of the index failed too, a
\* commit holds the new version, and a release has its tag.
THEOREM Answers == Spec => AnswersAreTrue
<1> DEFINE Ended == pc # "idle" /\ pc' = "idle" /\ answer' # "none"
<1> DEFINE IsTrue == /\ answer' = "error" => ErrorIsTrue
                     /\ answer' # "error" => CommitIsTrue
                     /\ answer' = "released" => tags'[new] = Len(log')
<1>1. ASSUME IInv, [Next]_vars, Ended PROVE IsTrue
  <2>1. CASE CheckFails \/ \E r \in Request : CannotPlan(r)
    <3>1. Refuse /\ pc \in {"check", "load", "rev-parse", "read"}
      BY <2>1 DEF CheckFails, CannotPlan
    <3> QED BY <1>1, <3>1, RefusalIsTrue
  <2>2. CASE WriteFails
    BY <1>1, <2>2, WriteErrorIsTrue
  <2>3. CASE Rewrite \/ RewriteFails
    BY <1>1, <2>3, RewriteIsTrue
  <2>4. CASE Tag
    BY <1>1, <2>4, TagIsTrue
  <2>5. CASE TagFails
    <3>1. pc = "tag" /\ answer' = "untagged" /\ UNCHANGED <<file, index, log>>
      BY <2>5 DEF TagFails, Ends
    <3> QED BY <1>1, <3>1, CommitWasTrue
  <2>6. CASE Interrupt
    BY <1>1, <2>6 DEF Interrupt, Ends
  <2>7. CASE \/ Run \/ CheckTree \/ CheckTag \/ ReadText \/ Write \/ Add \/ Commit \/ GitFails
             \/ Restore \/ \E r \in Request : Plan(r)
    BY <1>1, <2>7
       DEF Run, CheckTree, CheckTag, ReadText, Write, Add, Commit, GitFails, Restore, Plan
  <2>8. CASE Developer \/ UNCHANGED vars
    <3>1. UNCHANGED pc
      BY <2>8 DEF Developer, Stage, Touch, CommitAll, CleanUp, TagElsewhere, vars
    <3> QED BY <1>1, <3>1
  <2> QED BY <1>1, <2>1, <2>2, <2>3, <2>4, <2>5, <2>6, <2>7, <2>8 DEF Next, Tool
<1>2. IInv /\ [Next]_vars =>
        [pc # "idle" /\ pc' = "idle" /\ answer' # "none" =>
          /\ answer' = "error" =>
               /\ Len(log') = before.commits
               /\ damaged' \/ (file' = before.file /\ index' = before.index)
          /\ answer' # "error" =>
               /\ Len(log') = before.commits + 1 /\ log'[Len(log')].release = new
               /\ file' = log'[Len(log')].text /\ index' = file'
               /\ (\E j \in DOMAIN file' : file'[j].table = "project" /\ file'[j].exact)
                    => ProjectVersion(file') = new
          /\ answer' = "released" => tags'[new] = Len(log')]_vars
  BY <1>1 DEF ErrorIsTrue, CommitIsTrue
<1> QED BY <1>2, Invariance, PTL DEF Spec, AnswersAreTrue
====
