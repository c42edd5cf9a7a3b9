CONSTANTS
  Uuids = {u1}
  Devices = {d1}
  Services = {fs, tool}
  OCFS2_FS_NAME = fs
  NoService = NoService
  NumSlots = 2
  Fds = {11, 12}
  MaxMounts = 1
  MaxOvertaken = 1
SPECIFICATION MCSpec
INVARIANT CgroupHasMountgroup
