\* Versions up to 1.1.1 and three commits: a release, what the developer makes of what a
\* run left, and another release.
CONSTANTS
  MaxPart = 1
  MaxCommits = 3
  Named <- SomeNamed
  Projects <- SomeProjects
SPECIFICATION Spec
INVARIANTS TypeOK ReleasesOnlyTheVersion
PROPERTIES AnswersAreTrue
