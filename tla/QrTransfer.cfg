SPECIFICATION FairSpec
INVARIANTS ImportInOrder FountainSound
PROPERTIES MixedOnlyWithoutDigest ScanEnds
CONSTANTS
  Apps = {"desktop", "phone"}
  Formats = {"balqr", "ur1", "ur2", "bbqr"}
  Wills = {"w1", "w2"}
  Sizes = {"small", "large"}
  Parts <- MCParts
  Packed = {"w1"}
  Chosen <- MCChosen
  ReadsPerCode = 2
  MaxChanges = 1
