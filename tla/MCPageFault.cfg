SPECIFICATION Spec
CONSTANTS
  t1 = t1
  t2 = t2
  Threads = {t1, t2}
  Callers = {t1, t2}
  NoThread = NoThread
  NoVma = NoVma
  Denied = {1}
  SMAP = TRUE
  OSPKE = TRUE
  K8 = TRUE
  MaxInstr = 3
  Accesses <- MCAccesses
  Mappings <- MCMappings
INVARIANTS SemaphoreBalanced NoSelfDeadlock PteWithinVma RefusalJustified 
PROPERTY FaultsEnd
CHECK_DEADLOCK FALSE
