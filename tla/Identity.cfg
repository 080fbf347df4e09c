SPECIFICATION MCSpec
CONSTANTS
  p1 = p1  p2 = p2  c1 = c1  c2 = c2  n1 = n1  n2 = n2  s1 = s1  s2 = s2
  Persons <- TwoPersons
  Owners <- OnePerson
  Chats <- TwoChats
  Names <- OneName
  Sessions <- TwoSessions
  MaxRows = 4
  MaxChanges = 4
SYMMETRY Interchangeable
 
PROPERTIES OperatorsCurrent AuthorityKept
CHECK_DEADLOCK FALSE
