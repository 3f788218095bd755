CONSTANT MaxSize <- MCMaxSize
CONSTANT MIN_MULTIPART_SIZE <- MCMinPart
CONSTANT MaxPartSize <- MCPartSize
SPECIFICATION Spec
INVARIANT UploadPlanShape
INVARIANT UploadPlanData
INVARIANT TypeOK
INVARIANT WellFormed
INVARIANT CompressLaws
INVARIANT QueriesMatchByteView
