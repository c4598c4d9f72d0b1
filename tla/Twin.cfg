SPECIFICATION Spec
CONSTANTS
  Processes = {"s1", "s2"}
  Paths <- MCPaths
  Imports <- MCImports
  Uses <- MCUses
  Above <- MCAbove
  OtherModules = 3
  Scenarios <- MCScenarios
  MaxEdits = 3
  MaxRevisions = 9
 
PROPERTIES BuiltOnTheHead FullBuildReplacesAll RefreshNeverTurnsBack
