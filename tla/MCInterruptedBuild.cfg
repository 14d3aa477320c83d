CONSTANTS
  Files = 3
  Length <- LengthDef
  Commits <- CommitsDef
  Commands <- OneBuild
SPECIFICATION Spec
INVARIANT PublishedIsComplete
