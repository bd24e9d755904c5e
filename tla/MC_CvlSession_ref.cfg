SPECIFICATION Spec
CONSTANTS
  v1 = v1
  v10 = v10
  member = member
  rule = rule
  acl = acl
  members = members
  rules = rules
  acls = acls
  f = f
  g = g
  ports = ports
  Ent = {v1, v10}
  Row = {member, rule, acl}
  Table = {members, rules, acls}
  TableOf <- MCTableOf
  Field = {f, g, ports}
  LeafList = {ports}
  FieldsOf <- MCFieldsOf
  Key = Key
  KeyRef <- MCKeyRef
  Matches <- MCNames
  Contains <- MCNames
  None = None
  Blank = Blank
  Absent = Absent
  Unread = Unread
  Limit = 2
  Stores <- MCEmpty
  Given <- MCGiven
  MaxItems = 2
INVARIANT
  NoDangling
CHECK_DEADLOCK FALSE
