\* Expected violation: the directories that lead to the object are not fsynced.
CONSTANTS
  Files = {f1, f2}
  Callers = {p1, p2}
  NoFile = NoFile
SPECIFICATION Spec
PROPERTIES PublicationSurvives
CHECK_DEADLOCK FALSE
