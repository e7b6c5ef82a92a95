SPECIFICATION Spec
CONSTANTS
  OrgId = "o"
  Histories <- MCHistories
  MaxFaults = 1
  IsLimited = TRUE
  RecognizedNames <- MCRecognizedNames
  ListedAppIds = {"a1"}
  SkippedKeys = {"title"}
INVARIANT SamlGraphIsWhole
INVARIANT RoutesAreProven
INVARIANT AssertionsAreHonest
INVARIANT RulesResolveAsOkta
