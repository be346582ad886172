SPECIFICATION Spec
CONSTANTS
  MaxStream = 3
  StreamTypes = {5, 9, 15, 51, 54, 57}
INVARIANTS RoundTrip TakesAPrefix NothingLeaks
