SPECIFICATION Spec
CONSTANTS
  MaxPresented = 2
  MaxExcerptSize = 5
  Writers = {p1, p2}
  Unset = Unset
  Code <- MCCode
  Answers <- MCAnswers
  Values = {"v1"}
  MaxEdits = 2
  Bodies <- MCBodies
  Projects <- MCProjects
SYMMETRY Processes
CHECK_DEADLOCK FALSE
INVARIANTS AuthorityIsOfCurrentCode  ModelSawEveryCandidate ControlFactsAreTrue 
PROPERTY OnlyRacingEditIsLost
