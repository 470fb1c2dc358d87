SPECIFICATION Spec
CHECK_DEADLOCK FALSE
CONSTANTS
  Definitions = {"fed", "plain", "cyclic", "dangling", "vast"}
  Valid = {"fed", "plain"}
  Oversized = {"vast"}
  Unreferenced = {"dangling"}
  Accepts <- MCAccepts
  Makes <- MCMakes
  Types <- OpTypes
  LogTypes <- MCLogTypes
  Ids = {"v", "w"}
  Texts <- MCTexts
  MaxOps = 3
  MaxEdits = 1
  MaxDamage = 2
INVARIANTS
  OnlyBeginnings
  KitShowsJournals
