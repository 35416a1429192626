SPECIFICATION Spec
CONSTANTS
  Rows = {o1, o2}
  MaxAsks = 1
  MaxCrash = 0
PROPERTY RunsOnlyWhenAsked
