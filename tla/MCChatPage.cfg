SPECIFICATION LiveSpec
CONSTANTS
  MaxOpenings = 2
  MaxRows = 2
  MaxChanges = 2
  MaxHolds = 2
  MaxWrites = 1
INVARIANTS TypeOK DialogAwaits FollowsUnlessLeft 
PROPERTY EndIsShown
