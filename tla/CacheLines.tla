----------------------------- MODULE CacheLines -----------------------------
(***************************************************************************)
(* Memory that the core sees through its caches and that DMA does not:     *)
(* buffers the Ethernet MAC reads and writes, variables of the program     *)
(* next to them, and programs the kernel loads and runs.  The data cache   *)
(* is write-back and allocates on reads and writes                         *)
(* (sos_config.cache.sram_policy).  It is cleaned and invalidated by       *)
(* lines: a line that holds anything else goes with the buffer.            *)
(*                                                                         *)
(* A line is LineCells cells.  The linker may put the objects anywhere     *)
(* their alignment lets it.                                                *)
(***************************************************************************)
EXTENDS Integers, FiniteSets

CONSTANTS
  Lines,      \* bound: lines of memory
  LineCells,  \* bound: cells in a line
  Objects,    \* what the linker places: [cells, align, use] by name
  Programs,   \* sets of objects that are linked together
  Values,     \* what a cell may hold
  Zero        \* what it holds at the start

ASSUME SizesAssumption == Lines \in Nat \ {0} /\ LineCells \in Nat \ {0}
ASSUME ObjectsAssumption ==
  /\ Programs \subseteq SUBSET DOMAIN Objects
  /\ Objects \in [DOMAIN Objects ->
                    [cells : Nat, align : Nat \ {0},
                     use : {"variable", "send", "receive", "code"}]]
ASSUME ZeroAssumption  == Zero \in Values

VARIABLES
  start,    \* the address of each object
  memory,   \* what memory, and DMA, has of each cell
  ienabled, \* the instruction cache is on
  denabled, \* the data cache is on
  data,     \* what the data cache has of the cells of the lines in it
  dirty,    \* the lines written since they were filled
  code,     \* what the instruction cache has of the lines in it
  stage,    \* of each program's code: "new", "clean" or "loaded"
  armed,    \* buffers in the hands of the DMA
  written   \* history: what was written to each cell last, by whomever

dcache == <<denabled, data, dirty>>
icache == <<ienabled, code>>
vars == <<start, memory, dcache, icache, stage, armed, written>>

Cells == 0 .. (Lines * LineCells - 1)
LineOf(cell) == cell \div LineCells
LinesOf(cells) == {LineOf(c) : c \in cells}
InLines(lines) == {c \in Cells : LineOf(c) \in lines}

Names == DOMAIN start
Used(use) == {o \in Names : Objects[o].use = use}
CellsAt(o, a) == a .. (a + Objects[o].cells - 1)
Of(o) == CellsAt(o, start[o])

\* The linker: objects apart and aligned.
Placements(names) ==
  {a \in [names -> Cells] :
     /\ \A o \in names : a[o] % Objects[o].align = 0 /\ CellsAt(o, a[o]) \subseteq Cells
     /\ \A o, p \in names : o # p => CellsAt(o, a[o]) \cap CellsAt(p, a[p]) = {}}

\* a cache with a line: what was not in it comes from memory
With(cache, line) ==
  [c \in DOMAIN cache \cup InLines({line}) |-> IF c \in DOMAIN cache THEN cache[c] ELSE memory[c]]
Without(cache, lines) == [c \in DOMAIN cache \ InLines(lines) |-> cache[c]]
Nothing == [c \in {} |-> Zero]
\* memory with some lines written back
Cleaned(lines) ==
  [c \in Cells |-> IF LineOf(c) \in lines \cap dirty THEN data[c] ELSE memory[c]]

\* The kernel's start, after it has zeroed its memory and enabled the caches.
Init ==
  /\ start \in UNION {Placements(names) : names \in Programs}
  /\ memory = [c \in Cells |-> Zero] /\ written = memory
  /\ ienabled = TRUE /\ denabled = TRUE /\ data = Nothing /\ dirty = {} /\ code = Nothing
  /\ stage = [o \in Used("code") |-> "new"] /\ armed = {}

\* The core reads, or prefetches, a line.
Fill(line) ==
  /\ denabled /\ data' = With(data, line)
  /\ UNCHANGED <<start, memory, denabled, dirty, icache, stage, armed, written>>

\* It fetches code it runs, or may run; what else it fetches is of no use.
Fetch(line) ==
  /\ ienabled /\ \E o \in Used("code") : line \in LinesOf(Of(o))
  /\ code' = With(code, line)
  /\ UNCHANGED <<start, memory, dcache, ienabled, stage, armed, written>>

\* The core writes a variable, a buffer to be sent, or code it loads.
Write(o, cell, v) ==
  /\ o \in Names /\ o \notin Used("receive") \cup armed /\ cell \in Of(o)
  /\ \/ /\ denabled
        /\ data' = [With(data, LineOf(cell)) EXCEPT ![cell] = v]
        /\ dirty' = dirty \cup {LineOf(cell)}
        /\ UNCHANGED memory
     \/ /\ ~denabled
        /\ memory' = [memory EXCEPT ![cell] = v]
        /\ UNCHANGED <<data, dirty>>
  /\ written' = [written EXCEPT ![cell] = v]
  /\ stage' = [p \in Used("code") |-> IF p = o THEN "new" ELSE stage[p]]
  /\ UNCHANGED <<start, denabled, icache, armed>>

\* Lines go out of the caches when the caches like.
Evict(line) ==
  /\ denabled
  /\ memory' = Cleaned({line}) /\ data' = Without(data, {line}) /\ dirty' = dirty \ {line}
  /\ UNCHANGED <<start, denabled, icache, stage, armed, written>>

\* Mutant: a family for which USE_CACHE is not defined.
cache_clean_nothing(cells) == UNCHANGED <<memory, dcache>>

\* Mutant: clean and invalidate, with the lines still to be written back.
cache_clean_still_dirty(cells) ==
  /\ memory' = Cleaned(LinesOf(cells)) /\ data' = Without(data, LinesOf(cells))
  /\ UNCHANGED <<denabled, dirty>>

\* SCB_CleanDCache_by_Addr, SCB_CleanDCache, SCB_InvalidateDCache_by_Addr.
cache_clean_data_block(cells) ==
  /\ memory' = Cleaned(LinesOf(cells)) /\ dirty' = dirty \ LinesOf(cells)
  /\ UNCHANGED <<denabled, data>>

cache_clean_data ==
  /\ memory' = Cleaned(dirty) /\ dirty' = {}
  /\ UNCHANGED <<denabled, data>>

cache_invalidate_data_block(cells) ==
  /\ data' = Without(data, LinesOf(cells)) /\ dirty' = dirty \ LinesOf(cells)
  /\ UNCHANGED <<memory, denabled>>

\* SCB_InvalidateDCache, which SCB_EnableDCache does first.  It has no other
\* caller: on a cache in use it would lose every line not written back.
cache_invalidate_data == data' = Nothing /\ dirty' = {}

\* Mutant: a family for which USE_CACHE is not defined.
cache_invalidate_instruction_nothing == UNCHANGED code

cache_invalidate_instruction == code' = Nothing

\* Two calls, the instruction cache first: a cache that was on at a reset still
\* has its lines, and they are stale.
cache_enable ==
  /\ \/ /\ ~ienabled /\ ~denabled /\ ienabled' = TRUE
        /\ cache_invalidate_instruction /\ UNCHANGED dcache
     \/ /\ ienabled /\ ~denabled /\ denabled' = TRUE
        /\ cache_invalidate_data /\ UNCHANGED icache
  /\ UNCHANGED <<start, memory, stage, armed, written>>

\* Likewise two; SCB_DisableDCache cleans and invalidates.
cache_disable ==
  /\ \/ /\ ienabled /\ denabled /\ ienabled' = FALSE
        /\ cache_invalidate_instruction /\ UNCHANGED <<memory, dcache>>
     \/ /\ ~ienabled /\ denabled /\ denabled' = FALSE
        /\ memory' = Cleaned(dirty)
        /\ cache_invalidate_data /\ UNCHANGED icache
  /\ UNCHANGED <<start, stage, armed, written>>

\* A reset disables the caches and writes nothing back.  The program that
\* starts makes what it needs of the memory it finds.
Reset ==
  /\ ienabled' = FALSE /\ denabled' = FALSE /\ armed' = {}
  /\ written' = memory /\ stage' = [o \in Used("code") |-> "new"]
  /\ UNCHANGED <<start, memory, data, dirty, code>>

\* The MAC driver sends: clean, then hand the buffer to the DMA.  Drivers and
\* programs run with the caches on; what is under way when they are switched
\* off goes on.
Send(b) ==
  /\ denabled /\ b \in Used("send") \ armed
  /\ cache_clean_data_block(Of(b))
  /\ armed' = armed \cup {b}
  /\ UNCHANGED <<start, icache, stage, written>>

Sent(b) ==
  /\ b \in Used("send") \cap armed
  /\ armed' = armed \ {b}
  /\ UNCHANGED <<start, memory, dcache, icache, stage, written>>

\* The MAC driver receives: the DMA writes, the driver invalidates and reads.
Receive(b) ==
  /\ denabled /\ b \in Used("receive") \ armed
  /\ armed' = armed \cup {b}
  /\ UNCHANGED <<start, memory, dcache, icache, stage, written>>

Arrive(b, cell, v) ==
  /\ b \in Used("receive") \cap armed /\ cell \in Of(b)
  /\ memory' = [memory EXCEPT ![cell] = v] /\ written' = [written EXCEPT ![cell] = v]
  /\ UNCHANGED <<start, dcache, icache, stage, armed>>

Received(b) ==
  /\ denabled /\ b \in Used("receive") \cap armed
  /\ cache_invalidate_data_block(Of(b))
  /\ armed' = armed \ {b}
  /\ UNCHANGED <<start, icache, stage, written>>

\* The kernel has loaded a program: clean, then invalidate, then run it.
CleanCode(o) ==
  /\ denabled /\ o \in Used("code") /\ stage[o] = "new"
  /\ cache_clean_data
  /\ stage' = [stage EXCEPT ![o] = "clean"]
  /\ UNCHANGED <<start, icache, armed, written>>

RunCode(o) ==
  /\ denabled /\ o \in Used("code") /\ stage[o] = "clean"
  /\ cache_invalidate_instruction
  /\ stage' = [stage EXCEPT ![o] = "loaded"]
  /\ UNCHANGED <<start, memory, dcache, ienabled, armed, written>>

Next ==
  \/ \E line \in LinesOf(Cells) : Fill(line) \/ Fetch(line) \/ Evict(line)
  \/ \E b \in Names : Send(b) \/ Sent(b) \/ Receive(b) \/ Received(b)
  \/ \E o \in Names : CleanCode(o) \/ RunCode(o)
  \/ \E o \in Names, cell \in Cells, v \in Values : Write(o, cell, v) \/ Arrive(o, cell, v)
  \/ cache_enable \/ cache_disable \/ Reset

Spec == Init /\ [][Next]_vars

TypeOK ==
  /\ DOMAIN start \in Programs /\ start \in [Names -> Cells]
  /\ memory \in [Cells -> Values] /\ written \in [Cells -> Values]
  /\ ienabled \in BOOLEAN /\ denabled \in BOOLEAN
  /\ data \in [InLines(LinesOf(DOMAIN data)) -> Values]
  /\ code \in [InLines(LinesOf(DOMAIN code)) -> Values]
  /\ dirty \subseteq LinesOf(DOMAIN data)
  /\ stage \in [Used("code") -> {"new", "clean", "loaded"}]
  /\ armed \subseteq Names

\* What the core gets of a cell: as data, as code.
CoreReads(c) == IF denabled /\ c \in DOMAIN data THEN data[c] ELSE memory[c]
CoreFetches(c) == IF ienabled /\ c \in DOMAIN code THEN code[c] ELSE memory[c]

\* The lines in which a buffer the MAC writes has company: what is dirty there
\* is written back over what the MAC wrote, or lost as the buffer is invalidated.
SharedLines ==
  {line \in LinesOf(Cells) : \E b \in Used("receive"), o \in Names :
     o # b /\ line \in LinesOf(Of(b)) \cap LinesOf(Of(o))}

\* What is promised for: everything if each buffer the MAC writes is a number
\* of whole lines, and otherwise what has no part in a shared line.
WholeBuffers == \A b \in Used("receive") : Objects[b].cells % LineCells = 0
Promised(o) == WholeBuffers \/ LinesOf(Of(o)) \cap SharedLines = {}

(***************************************************************************)
(* The core reads what was written last: of a variable always, whatever    *)
(* buffer is received beside it and whenever the caches are switched, and  *)
(* of a buffer once it is received.  Of an aligned buffer of whole lines   *)
(* nothing more is needed; one whose last line is ragged spoils what the   *)
(* linker puts into that line, itself included, and nothing else.          *)
(***************************************************************************)
CoreReadsLast ==
  \A o \in Names \ armed : Promised(o) => \A c \in Of(o) : CoreReads(c) = written[c]

(***************************************************************************)
(* The MAC sends what the core wrote last.                                 *)
(***************************************************************************)
MacReadsLast ==
  \A b \in Used("send") \cap armed : Promised(b) =>
    \A c \in Of(b) : memory[c] = written[c]

(***************************************************************************)
(* A program that has been loaded runs as it was written, whatever the     *)
(* instruction cache had fetched of its memory before.                     *)
(***************************************************************************)
LoadedCodeRuns ==
  \A o \in Used("code") : stage[o] = "loaded" /\ Promised(o) =>
    \A c \in Of(o) : CoreFetches(c) = written[c]

(***************************************************************************)
(* The premise of the theorems: buffers of whole lines that the MAC writes *)
(* share no line with anything, wherever the linker puts them.             *)
(***************************************************************************)
BuffersAlone ==
  \A names \in Programs : \A a \in Placements(names) : \A o, p \in names :
    o # p /\ Objects[o].use = "receive" /\ Objects[o].cells % LineCells = 0 =>
      LinesOf(CellsAt(o, a[o])) \cap LinesOf(CellsAt(p, a[p])) = {}

=============================================================================
