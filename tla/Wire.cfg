\* The durable record of a result. MaxEncoding is met by full records and
\* passed by some; 40 makes a size that is far too large.
SPECIFICATION Spec
CONSTANTS
  Grammar <- ResultGrammar
  Records <- ResultRecords
  Header <- MCHeader
  DigestSize = 1
  MaxEncoding = 53
  MaxDiagnostic = 2
  MaxCount = 2
  SizeModulus = 1073741824
  Changes = {0, 1, 40}
INVARIANTS
  RefusalIsExact
  ReadsStayInside
  ReadIsWritten
  WrittenIsRead
CHECK_DEADLOCK FALSE
