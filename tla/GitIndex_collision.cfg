SPECIFICATION Spec
CONSTANTS
  Files = {"f1", "f2"}
  Contents = {"text"}
  Absent = "absent"
  Directories = {{"f1", "f2"}}
  Others = {"editor"}
  Removers = {}
  Refresh = "refresh"
  Crashes = FALSE
PROPERTIES CommitKeepsTheFiles
