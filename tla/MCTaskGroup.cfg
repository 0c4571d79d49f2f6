SPECIFICATION FairSpec
CONSTANTS
  Root = j0
  Jobs = {j0, j1, j2, j3}
  NoGroup = none
  Workers = {w1, w2}
  Main = main
INVARIANTS CountersAgree GroupOutlivesTasks NothingDropped NoLivelock
PROPERTIES ShutsDown ImplementsForkJoin
