CONSTANT KeyChars <- MCKeyChars
CONSTANT MaxKeyLen <- MCMaxKeyLen
CONSTANT Vals <- MCVals
CONSTANT MaxLen <- MCMaxLen
CONSTANT Keys <- MCKeys
SPECIFICATION UrlSpec
INVARIANT SortedUnique
 
PROPERTY HeaderMapSpec
