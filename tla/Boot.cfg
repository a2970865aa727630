CONSTANTS
  MaxTries = 2
  MaxCuts = 2
SPECIFICATION Spec
INVARIANTS OneSlotOrNone StartsArePaidFor
PROPERTIES SuccessfulSlotStays BootSettles
