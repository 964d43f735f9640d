SPECIFICATION Spec
CONSTANTS
  Rows = {1, 2}
  Mails = {"x", "y"}
  Envelopes <- MCEnvelopes
  Resembles <- MCResembles
  DateWindow = 2
INVARIANT ConfirmedIsTheRecord
INVARIANT FailuresSurface
INVARIANT AnswersAreOfOneMoment
CHECK_DEADLOCK FALSE
