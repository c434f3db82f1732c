\* A section and a status written line by line: what a passing status has met.
SPECIFICATION EvidenceSpec
CONSTANTS
  Texts = {"a", "b", " ", "b "}
  Blank = {" "}
  Padded = {"b "}
  NoScalar = NoScalar
  MaxFields = 3
  MaxLines = 2
  MaxValues = 2
INVARIANTS
  RequirementsHeld
  EvidenceIsOrderless
