CONSTANTS
  form = form
  rawForm = rawForm
  search = search
  ftp = ftp
  Urls = {form, search, ftp}
  Http = {form, search}
  Decoded <- MCDecoded
  Search = search
  NoUrl = NoUrl
  Buttons <- MCButtons
  MaxImages = 2
  Sizes = {1}
  MaxImageBytes = 1
  MaxForms = 1
SPECIFICATION Spec
INVARIANTS
  CancelHonoured
  BodySentOnce
