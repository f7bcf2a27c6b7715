CONSTANTS
  a = a
  b = b
  c = c
  Msgs = {a, b, c}
  Mids = {a, b, c}
  Tasks = {"inbox", "user"}
  Senders = {"user"}
  Own <- MCOwn
  Subjects = {"", "hello"}
  Blank = ""
  Subject <- MCSubject
  Timestamp <- MCTimestamp
SYMMETRY MsgSymmetry
SPECIFICATION Spec
INVARIANT GroupedByReferences RowCoversMessages
PROPERTY ConversationKept
