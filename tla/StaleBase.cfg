SPECIFICATION Spec
CONSTANTS
  note = note
  book = book
  a = a
  b = b
  x1 = x1
  x2 = x2
  x3 = x3
  x4 = x4
  r1 = r1
  r2 = r2
  Devices = {a}
  Entities = {note, book}
  Notebooks = {book}
  Edits = {x1, x2, x3, x4}
  Resolutions = {r1}
  Field <- SharedField
  Invalid = {}
  None = None
  MaxAttempts = 1
  MaxLate = 0
  Mishaps = {}
SYMMETRY SharedSymmetric
PROPERTIES OnlyEditedFields
