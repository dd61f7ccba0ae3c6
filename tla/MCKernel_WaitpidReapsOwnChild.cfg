CONSTANT MaxTasks = 5
SPECIFICATION Spec
PROPERTY WaitpidReapsOwnChild
