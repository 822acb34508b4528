\* Sizes, values, settability, labels, activity and rate of every object
SPECIFICATION Spec
CONSTANTS
  NumInputStreams = 2
  NumOutputStreams = 1
  MaxRequests = 2
  MaxStart = 1
INVARIANT TypeOK
INVARIANT SwitchesAgree
INVARIANT RateReadsBack
PROPERTY ActiveReadsBack
