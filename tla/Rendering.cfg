SPECIFICATION Spec
CONSTANTS
  Ann = Ann
  Bob = Bob
  NoPerson = NoPerson
  NoFile = NoFile
  Gone = Gone
  NoBullet = NoBullet
  NoCaption = NoCaption
  People = {Ann, Bob}
  Grid = 10
  MaxPages = 2
  MaxEvents = 6
  ColumnChars = 5
  PageChars = 8
  Pages <- MCPages
  Boxes <- MCBoxes
  Captions <- MCCaptions
  Notes <- MCNotes
  Placements <- MCPlacements
  Drawings <- MCDrawings
  Events <- MCEvents
  Files <- MCFiles
  Documents <- MCDocuments
  Asked <- MCAsked
INVARIANTS MarksAreInPlace TextIsTruthful ReportIsWhole SignersListedOnce
CHECK_DEADLOCK FALSE
