\* An operator and a user with two nicknames, on one channel.  Rows of 600 are
\* those that registrations make; ADD gives 500.
SPECIFICATION Spec
CONSTANTS
  Channels = {chan}
  Names = {"ann", "bob", "eve"}
  AccountNames = {"ann", "bob"}
  Masks = {mask}
  Levels = {500}
  Users = {oper, user}
  Opers = {oper}
  NicksOf <- MCNicksOf
  oper = oper
  user = user
  NoOne = NoOne
INVARIANTS TypeOK RowsOfRegistered WaitingIsUnregistered
PROPERTIES FounderChangesHands FreshIsFounders UpperHand ImplementsEstate
