CONSTANT MaxSize <- MCMaxSize
CONSTANT MIN_MULTIPART_SIZE <- MCMinPart
CONSTANT MaxPartSize <- MCPartSize
SPECIFICATION Spec
INVARIANT PartsAtMostMax
