\* A document that ends inside a block.
CONSTANTS
    Shape <- MCShape
    Word <- MCWord
    MaxLines = 2
SPECIFICATION Spec
INVARIANT AllFinished
CHECK_DEADLOCK FALSE
