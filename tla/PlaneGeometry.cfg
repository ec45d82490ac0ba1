\* Odd and even sizes, rows and planes with and without padding, strides and
\* addresses of any planes.
SPECIFICATION Spec
CONSTANTS
  Widths = {1, 2, 3, 4}
  Heights = {1, 2, 3}
  Pads = {0, 3}
  ExtraRows = {0, 2}
INVARIANTS
  RowsArePixelRows
  RowViewIsPlaneRow
  DumpKeepsPixels
  RowsStayInFrame
\* A frame that has been saved is done with.
CHECK_DEADLOCK FALSE
