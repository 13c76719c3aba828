SPECIFICATION Spec
CONSTANTS
  Oops = {2, 4, 6}
  StackSize = 2
  Self = Self
  NilPointer = NilPointer
  Object = Object
  ContextPart = ContextPart
  BlockContext = BlockContext
  run = run
  value = value
  valueWith = valueWith
  perform = perform
  zork = zork
  dnu = dnu
  cannot = cannot
  Selectors <- MCSelectors
  Classes <- MCClasses
  superclassOf <- MCsuperclassOf
  classOf <- MCclassOf
  Methods <- MCMethods
  Dictionary <- MCDictionary
  Arity <- MCArity
  Hash <- MCHash
  CacheHash <- MCCacheHash
  Installs <- MCInstalls
  PerformSelector = perform
  Performed = {run}
  BlockArguments = {1}
  NewMethod <- Quick
  DoesNotUnderstandSelector = dnu
  CannotReturnSelector = cannot
  ResultsHeld = TRUE
INVARIANTS
  NoDangling CountsExact NeverResumesReturned CacheCoherent
PROPERTY
  WaitingStackKept
