CONSTANTS
  Links <- MC_Links
  Periods = 2
  QLens = {0, 1}
  TrailerChoices = {FALSE, TRUE}

SPECIFICATION Spec

INVARIANT SeriesAreLinks
