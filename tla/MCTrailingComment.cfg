\* At most three of five rows, fetched two at a time; bodies of up to two chunks, one of
\* which is allowed.
CONSTANTS
  Symbol <- SomeSymbols
  Word <- SomeWords
  Declared <- SomeDeclared
  Drafts <- SomeDrafts
  Alphabet <- SomeAlphabet
  Names <- SomeNames
  Limits <- SomeLimits
  Offsets <- SomeOffsets
  Orders <- SomeOrders
  MaxRows = 3
  Total = 5
  Chunk = 2
  MaxBody = 1
SPECIFICATION Spec
INVARIANTS PagingIsRead
\* One request for each route: the behaviour stops when it is answered.
CHECK_DEADLOCK FALSE
