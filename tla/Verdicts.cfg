CONSTANT Components <- MCComponents
CONSTANT Requests <- MCRequests
SPECIFICATION Spec
INVARIANT PassedIsVouched
INVARIANT NoRuleLeftOut
INVARIANT BootLogIsMeasured
INVARIANT GradedByMetLevel
INVARIANT RegistersAreCommitted
INVARIANT GpuSharesTheChallenge
INVARIANT VerdictsAgree
INVARIANT OnlyGenuineConsults
CHECK_DEADLOCK FALSE
