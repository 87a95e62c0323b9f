SPECIFICATION Spec
CONSTANTS
  hello = hello
  m1 = m1
  m2 = m2
  Message = {hello, m1, m2}
  Greeting = hello
  NoMessage = NoMessage
  Blocks <- MCBlocks
  Modulus = 4
  First = {2}
  Tries = 2
  MaxFaults = 1
CHECK_DEADLOCK FALSE
INVARIANTS
  AckIsTrue
  AllArrive
PROPERTIES
  WholeAndInOrder
  SendsEnd
