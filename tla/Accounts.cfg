SPECIFICATION Spec
CONSTANTS
  c1 = c1  c2 = c2  old = old  new = new  f1 = f1  f2 = f2  f3 = f3
  Null = Null  Photo = Photo
  Calls = {c1, c2}
  MaxRequests = 3
  MaxTime = 2
  MaxTokens = 3
  Passwords = {old, new}
  Files = {f1, f2}
SYMMETRY AccountSymmetry
INVARIANTS
  OverIsOver
  RevocationSticks
  OptOutSticks
  AvatarIsKept
  MailedLinkWorks
CHECK_DEADLOCK FALSE
