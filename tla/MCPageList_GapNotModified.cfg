CONSTANT MaxSize <- MCMaxSize
SPECIFICATION Spec
INVARIANT GapNotModified
