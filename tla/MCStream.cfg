CONSTANTS
  Files = 3
  Length <- LengthDef
  Commits <- CommitsDef
  Commands <- EveryCommand
SPECIFICATION Spec
INVARIANTS TypeOK CompleteUnlessStopped
PROPERTIES InOrder Answered NoLeak
