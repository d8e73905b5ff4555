CONSTANTS
  e = e  l = l  x = x
  de = de  dl = dl  dx = dx  p = p  q = q
  Codes = {e, l, x}
  Entry = e
  Vars = {de, dl, dx, p, q}
  None = None
SPECIFICATION MCSpec
CHECK_DEADLOCK FALSE
INVARIANTS LayoutOK AgreeIfConventional
