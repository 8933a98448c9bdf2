CONSTANTS
    Processes = {p1, p2}
    Environments <- MCEnvironments
SPECIFICATION Spec
INVARIANTS  ServingIsHealthy
PROPERTY RestartServes
