SPECIFICATION MCSpec
CONSTANTS
  Files = {"f1", "f2"}
  Contents = {"old", "new"}
  Absent = "absent"
  Directories = {{"f1"}, {"f1", "f2"}}
  Others = {"editor", "lazygit"}
  Removers = {"t1", "t2"}
  Refresh = "refresh"
  Crashes = TRUE
INVARIANTS HarmlessUnlessTaken
PROPERTIES RefreshedWhenAlone
