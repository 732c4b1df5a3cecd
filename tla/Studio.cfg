CONSTANTS
  p1 = p1  p2 = p2  p3 = p3  t1 = t1  t2 = t2  v1 = v1  v2 = v2  l1 = l1  l2 = l2
  c1 = c1  c2 = c2  q1 = q1  q2 = q2  n1 = n1  n2 = n2
  Photo = {p1, p2, p3}
  Tab = {t1, t2}
  Terms <- AllTerms
  Call = {c1, c2}
  None = None
  Link = {l1, l2}
  Visitor = {v1, v2}
  Note = {n1, n2}
  Post = {q1, q2}
  Scene <- Scenes
SPECIFICATION Spec
INVARIANTS
  OrderIsOneSave
  HeartsAgree
  UnseenStaysUnread
  OfferedIsServed
PROPERTY PageCatchesUp
CHECK_DEADLOCK FALSE
