\* Three callers, three staging files: two publishers and a healer at once.
CONSTANTS
  Files = {f1, f2, f3}
  Callers = {p1, p2, p3}
  NoFile = NoFile
SYMMETRY Interchangeable
SPECIFICATION Spec
INVARIANTS
  OnlyVerifiedBytes
  WinnerIsNotRefused
  LiveStagingStays
  AloneNeverRefused
PROPERTIES
  NeverOverwritten
  PublicationLasts
CHECK_DEADLOCK FALSE
