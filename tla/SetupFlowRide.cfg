SPECIFICATION FlowSpec
CONSTANT MaxPress = 1
PROPERTY RideDismissesTheGate
CHECK_DEADLOCK FALSE
