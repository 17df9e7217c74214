SPECIFICATION OptionsSpec
CONSTANTS
  Lines <- MCLines
CHECK_DEADLOCK FALSE
INVARIANTS SuppliedIsEvaluated
