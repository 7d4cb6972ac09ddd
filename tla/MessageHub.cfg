SPECIFICATION Spec
CONSTANTS
  PlayerId = {kirby, dedede}
  MaxLength = 2

INVARIANT NoDataRace
