CONSTANTS
  boot = boot  lib = lib  modules = modules
  running = running  other = other  src = src
  f_boot = f_boot  f_running = f_running  f_other = f_other  f_src = f_src
  Dirs <- MCDirs
  Subdirs <- MCSubdirs
  Links <- MCLinks
  Files <- MCFiles
  FileOf <- MCFileOf
  Excludes <- MCExcludes
  Begins <- MCBegins
  Script <- MCScript
  Digests = {old, new}
  Gone = Gone
  NoDir = NoDir
  MaxChanges = 2
SPECIFICATION Spec
INVARIANTS Protected OnlyWanted WalkEnds
CHECK_DEADLOCK FALSE
