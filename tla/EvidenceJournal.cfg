\* Slices: two handlers on one tree; one at a time on a changing tree.
SPECIFICATION JournalSpec
CONSTANTS
  Files = {f1, f2}
  Contents = {x, y}
  Absent = Absent
  None = None
  Invocations <- MCInvocations
  Scope <- MCScope
  Selects <- MCSelects
  Mentions <- MCMentions
  Handlers = {h1, h2}
  Outcomes = {"success", "compile_error", "test_failure"}
  MaxRecords = 2
  MaxAge = 1
  MaxTokens = 9
  MaxFilter = 9
  MaxObservations = 3
  MaxNow = 2
  MaxEdits = 2
  MaxCommits = 1
  MaxCorruptions = 1
INVARIANTS
  EvidenceKept CompletionBacked RerunUnblocks
SYMMETRY Symmetry
ACTION_CONSTRAINT Slices
CHECK_DEADLOCK FALSE
