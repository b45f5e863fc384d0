SPECIFICATION Spec
CONSTANTS
  Threads = {t1, t2}
  Nobody = nobody
  MaxLosses = 2
PROPERTIES
  DownloadsComeBack
CHECK_DEADLOCK FALSE
