SPECIFICATION Spec
CONSTANTS
  p1 = p1
  s1 = s1
  s2 = s2
  w1 = w1
  w2 = w2
  Projects <- MCProjects
  Scripts <- MCScripts
  Workers <- MCWorkers
  Job = Job
  Retention = 1
  Absent = Absent
  NoItem = NoItem
  MaxRequests = 3
  MaxTime = 3
  MaxFailures = 1
SYMMETRY MCIds
CHECK_DEADLOCK FALSE
PROPERTY LiveProjectsStay
