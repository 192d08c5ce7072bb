CONSTANTS
  Links <- MC_Links
  Periods = 2
  QLens = {0, 1}
  TrailerChoices = {TRUE}

SPECIFICATION Spec

INVARIANT OriginSumCoversLinks
