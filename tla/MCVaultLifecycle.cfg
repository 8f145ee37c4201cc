SPECIFICATION LifecycleSpec
CONSTANT MaxGeneration = 5
INVARIANT ClosedGenerationsStayForeign
PROPERTIES NeverForgetsTheVault ImplementsGate
CHECK_DEADLOCK FALSE
