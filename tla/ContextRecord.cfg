SPECIFICATION Spec
CONSTANTS
  None = None
  Agendas <- MCAgendas
INVARIANTS ContextInv RequestsRebuild CompactionKeeps
CHECK_DEADLOCK FALSE
