CONSTANT MaxSize <- MCMaxSizeRefine
SPECIFICATION Spec
PROPERTY AbstractSpec
INVARIANT SparseProbeExact
INVARIANT ReconcileReportsEveryMismatch
INVARIANT ZeroCheckSound
