\* A key that was left behind is stored again while a sweep runs.
CONSTANTS
  raw = raw
  mp3 = mp3
  Content = {raw, mp3}
  Track = {t1, t2}
  Imported = {t1, t2}
  Raw <- RawOf
  Mp3 <- Mp3Of
  Session = {s1}
  None = None
  RowBound = 2
  RefBound = 2
SPECIFICATION SweepSpec
PROPERTY SweepSparesWrites
CHECK_DEADLOCK FALSE
