CONSTANTS
    Programs <- MCPrograms
SPECIFICATION Spec
INVARIANTS GradientsInside GradientIsDerivative GradientsAddUp AbortsAreForeseen
PROPERTY GradientsAreFinal
CHECK_DEADLOCK FALSE
