CONSTANT MaxSize <- MCMaxSize
SPECIFICATION Spec
INVARIANT NoDataMatchesByteView
