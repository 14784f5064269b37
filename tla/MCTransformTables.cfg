CONSTANTS
  main = main
  Threads = {main, w1, w2}
  Main = main
  Nobody = nobody
  Programs <- MCPrograms
SPECIFICATION FairSpec
INVARIANTS
  TypeOK
  ReadersFindTheirTables
PROPERTY ProgramsEnd
