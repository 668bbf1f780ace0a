\* Two remote hosts that may be cut off, leave, return, change address, name or
\* version; one of them at a time is enough for the merge, two for the selection.
SPECIFICATION DiscoverySpec
CONSTANTS
  me = me
  d1 = d1
  d2 = d2
  Device = {me, d1, d2}
  Local = me
  None = None
  Names = {"n1"}
  Announcement <- MCAnnouncement
  MaxChanges = 3
  MaxReports = 2
INVARIANTS SelectionOffered EventsTellAll
 
