CONSTANTS
  form = form
  rawForm = rawForm
  search = search
  ftp = ftp
  Urls = {form, search}
  Http = {form, search}
  Decoded <- MCDecoded
  Search = search
  NoUrl = NoUrl
  Buttons <- ImageButtons
  MaxImages = 3
  Sizes = {1, 2}
  MaxImageBytes = 3
  MaxForms = 0
SPECIFICATION FairSpec
INVARIANTS
  NoDanglingImage
PROPERTIES
  NoLateImage
  LoadEnds
  EveryImageTried
