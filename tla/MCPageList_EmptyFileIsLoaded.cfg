CONSTANT MaxSize <- MCMaxSize
SPECIFICATION Spec
INVARIANT EmptyFileIsLoaded
