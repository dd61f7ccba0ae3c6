CONSTANT MaxTasks = 5
SPECIFICATION Spec
INVARIANTS
  RunningIsCurrent
  KernelThreadsSurvive
  UserOwnsSlot
  DeadOwnNoStack
  NoDanglingSender
PROPERTY ZombiesAreReaped
