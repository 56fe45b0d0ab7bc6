SPECIFICATION Spec
CONSTANTS
  Hash <- MCHash
  Texts <- MCTexts
  Junk <- MCJunk
  Ticks = {2, 257}
  NoAlarm = NoAlarm
  Packages <- MCPackages
  InitialImage <- MCImage
  None = None
INVARIANTS
  UpgradeIsReal
  UrlIsAnnounced
  AlarmIsKept
PROPERTIES
  Refines
