CONSTANTS
  form = form
  rawForm = rawForm
  search = search
  ftp = ftp
  Urls = {form, rawForm, search}
  Http = {form, rawForm, search}
  Decoded <- MCDecoded
  Search = search
  NoUrl = NoUrl
  Buttons <- EntityButtons
  MaxImages = 0
  Sizes = {1}
  MaxImageBytes = 1
  MaxForms = 1
SPECIFICATION Spec
PROPERTIES
  SubmittedBodyTaken
