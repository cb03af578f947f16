\* Two jobs, two commits, three versions.
SPECIFICATION Spec
CONSTANTS
  MaxJobs = 2
  Commits = {c1, c2}
  NoCommit = NoCommit
  Versions <- MCVersions
  Unparsed = Unparsed
  Types = {"release", "pre-release", "other"}
  Released <- MCReleased
  Bodies <- MCBodies
  NoNotes = NoNotes
SYMMETRY CommitSymmetry
INVARIANTS
  TagsNameTheirLine
PROPERTIES
  LatestMovesForward
  NotesKeepText
CHECK_DEADLOCK FALSE
