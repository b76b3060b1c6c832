\* An upload and an import of one source, two sessions, purged rows inserted
\* again.
CONSTANTS
  raw = raw
  mp3 = mp3
  Content = {raw, mp3}
  Track = {t1, t2}
  Imported = {t2}
  Raw <- RawOf
  Mp3 <- Mp3Of
  Session = {s1, s2}
  None = None
  RowBound = 2
  RefBound = 3
SPECIFICATION Spec
SYMMETRY Symmetry
INVARIANT TypeOK
INVARIANT NoRowToCollect
PROPERTY SharedBlobKept
PROPERTY CountsStayExact
CHECK_DEADLOCK FALSE
