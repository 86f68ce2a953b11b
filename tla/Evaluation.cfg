SPECIFICATION EvalSpec
CONSTANTS
    e1 = e1
    e2 = e2
    Evaluators = {e1, e2}
    ScaleSets = {"one", "two"}
    Unit = 12
    Options <- MCOptions
    CaseLists <- MCCaseLists
SYMMETRY Symmetric
INVARIANTS MetricsAreRight NeverFlatters
