\* An address and a node without one, looked up at once in every table of up
\* to four networks.
SPECIFICATION FairSpec
CONSTANTS
  Addresses = {1}
  Undefined = undefined
  Star = star
  Tables <- MCTables
  MaxLength = 4
INVARIANTS
  TypeOK
  MostSpecific
  AskedOnceKeptForever
PROPERTIES
  AddressSettles
