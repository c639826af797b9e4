\* The Ethernet buffers, of whole lines or ragged, or a program, with a variable,
\* wherever the linker puts them.
SPECIFICATION Spec
CONSTANTS
  Lines = 2
  LineCells = 2
  Objects <- Ethernet
  Programs <- BuffersOrCode
  Values = {0, 1}
  Zero = 0
INVARIANTS
  TypeOK
  CoreReadsLast
  MacReadsLast
  LoadedCodeRuns
