SPECIFICATION FairSpec
CONSTANTS
  alice = alice
  bob = bob
  t1 = t1
  t2 = t2
  reply = reply
  u1 = u1
  NoText = NoText
  Owners <- MCOwners
  Texts <- MCTexts
  OwnerOf <- MCOwnerOf
  Durable <- MCDurable
  MaxCount = 1
  MaxLogins = 2
  MaxActs = 3
  MaxFaults = 2
INVARIANTS  AckedForgotten AccountsApart
PROPERTIES SentInOrder EverySendLeaves
CHECK_DEADLOCK FALSE
