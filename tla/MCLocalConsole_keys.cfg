\* Lines of up to five characters, in words of up to two, with erasing.
CONSTANTS
  NULL = NULL
  Chars = {"q", "-"}
  Space = " "
  NUL = "0"
  JUNK = "?"
  Table <- SmallTable
  DataSize = 7
  LineMax = 6
  Rows = 2
  Cols = 3
  CmdMin = 2
  Switches = {"-"}
SPECIFICATION Spec
CHECK_DEADLOCK FALSE
PROPERTIES ImplementsCommandLine
