CONSTANT MaxTasks = 4
SPECIFICATION FairSpec
PROPERTY RoundRobin
