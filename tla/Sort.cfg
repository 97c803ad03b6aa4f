SPECIFICATION Spec
CONSTANTS
 Count = 6
 Keys = {1,2,3}
 Small = 3
INVARIANTS SortsWhatItWasGiven StackIsLogarithmic SearchFinds
PROPERTY SortEnds
CHECK_DEADLOCK FALSE
