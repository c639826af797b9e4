-------------------------- MODULE CacheLinesProofs --------------------------
(***************************************************************************)
(* Proofs about CacheLines, for any objects, lines and contents.  What     *)
(* happens to a line in which a received buffer has no company does not    *)
(* depend on any other: this is proved first, with nothing assumed of the  *)
(* linker, and without the arithmetic of lines: that a cell has one line   *)
(* is enough.  The arithmetic is needed at the end, to show that buffers   *)
(* of whole lines, aligned as the source asks, never have company.         *)
(***************************************************************************)
EXTENDS MCCacheLines, TLAPS

\* Cells the MAC may be writing.
Receiving == {c \in Cells : \E b \in Used("receive") \cap armed : c \in Of(b)}

\* Cells that are in no shared line, and those of an object.
Plain == {c \in Cells : LineOf(c) \notin SharedLines}
PlainOf(o) == Of(o) \cap Plain

\* Whatever object a plain cell is in, the core has its last value or the MAC
\* does.
CoreCurrent == \A c \in Plain \ Receiving : CoreReads(c) = written[c]

\* Memory has the last value unless a cache that is on has yet to write it.
MemoryCurrent ==
  \A c \in Plain : ~denabled \/ LineOf(c) \notin dirty => memory[c] = written[c]

\* A line the MAC writes is never to be written back.
ReceiveClean ==
  denabled => \A b \in Used("receive") : \A c \in PlainOf(b) : LineOf(c) \notin dirty

\* The memory of code that has been cleaned has what was written there.
CodeCurrent ==
  \A o \in Used("code") : stage[o] # "new" => \A c \in PlainOf(o) : memory[c] = written[c]

\* The three properties, for plain cells.
MacCurrent ==
  \A b \in Used("send") \cap armed : \A c \in PlainOf(b) : memory[c] = written[c]
LoadedCurrent ==
  \A o \in Used("code") : stage[o] = "loaded" =>
    \A c \in PlainOf(o) : CoreFetches(c) = written[c]

IInv ==
  /\ TypeOK
  /\ start \in Placements(Names)
  /\ CoreCurrent /\ MemoryCurrent /\ ReceiveClean /\ CodeCurrent
  /\ MacCurrent /\ LoadedCurrent

\* What a cache may hold: cells of whole lines.
IsCache(cache) == cache \in [InLines(LinesOf(DOMAIN cache)) -> Values]

(***************************************************************************)
(* A cache holds whole lines: with a cell every other of its line.         *)
(***************************************************************************)
LEMMA WholeLines ==
  ASSUME NEW D, D \subseteq Cells
  PROVE  D = InLines(LinesOf(D)) <=>
         \A c \in Cells, d \in D : LineOf(c) = LineOf(d) => c \in D
BY DEF InLines, LinesOf

(***************************************************************************)
(* What is written back is what was written last: a line that is dirty is  *)
(* none of the MAC's, and the core has the last value of all others.       *)
(***************************************************************************)
LEMMA WrittenBack ==
  ASSUME IInv, denabled, NEW L
  PROVE  /\ Cleaned(L) \in [Cells -> Values]
         /\ \A c \in Plain : memory[c] = written[c] => Cleaned(L)[c] = written[c]
         /\ \A c \in Plain : LineOf(c) \in L => Cleaned(L)[c] = written[c]
         /\ \A c \in Plain : LineOf(c) \notin dirty => Cleaned(L)[c] = memory[c]
<1>1. DOMAIN data \subseteq Cells
  BY DEF IInv, TypeOK, InLines
<1>2. ASSUME NEW c \in Cells, LineOf(c) \in dirty
      PROVE  /\ c \in DOMAIN data /\ data[c] \in Values
             /\ c \in Plain => data[c] = written[c]
  <2>1. c \in DOMAIN data
    BY <1>2 DEF IInv, TypeOK, InLines
  <2>2. c \in Plain => c \notin Receiving
    BY <1>2 DEF IInv, ReceiveClean, Receiving, PlainOf
  <2>3. data[c] \in Values
    BY <2>1 DEF IInv, TypeOK
  <2> QED BY <2>1, <2>2, <2>3 DEF IInv, CoreCurrent, CoreReads
<1>3. \A c \in Cells : memory[c] \in Values
  BY DEF IInv, TypeOK
<1>4. \A c \in Cells :
        Cleaned(L)[c] = IF LineOf(c) \in L \cap dirty THEN data[c] ELSE memory[c]
  BY DEF Cleaned
<1>5. Cleaned(L) \in [Cells -> Values]
  BY <1>2, <1>3 DEF Cleaned
<1>6. \A c \in Plain : LineOf(c) \notin dirty => memory[c] = written[c]
  BY DEF IInv, MemoryCurrent
<1>7. Plain \subseteq Cells
  BY DEF Plain
<1> QED BY <1>2, <1>4, <1>5, <1>6, <1>7

(***************************************************************************)
(* The objects the linker places are apart, and within memory; a plain     *)
(* cell of a buffer the MAC writes has no other object in its line.        *)
(***************************************************************************)
LEMMA Placed ==
  ASSUME IInv
  PROVE  /\ \A o \in Names : Of(o) \subseteq Cells
         /\ \A o, p \in Names : o # p => Of(o) \cap Of(p) = {}
         /\ \A o \in Names, b \in Used("receive") : o # b =>
              \A c \in Of(o), d \in PlainOf(b) : LineOf(c) # LineOf(d)
<1>1. Names \in Programs /\ start \in Placements(Names)
  BY DEF IInv, TypeOK, Names
<1>2. \A o \in Names : Of(o) \subseteq Cells
  BY <1>1 DEF Placements, Of
<1>3. \A o, p \in Names : o # p => Of(o) \cap Of(p) = {}
  BY <1>1 DEF Placements, Of
<1>4. ASSUME NEW o \in Names, NEW b \in Used("receive"), NEW c \in Of(o),
             NEW d \in PlainOf(b), o # b, LineOf(c) = LineOf(d)
      PROVE  FALSE
  <2>1. LineOf(d) \in LinesOf(Of(b)) \cap LinesOf(Of(o)) /\ LineOf(d) \in LinesOf(Cells)
    BY <1>4, <1>2 DEF LinesOf, PlainOf, Plain
  <2>2. LineOf(d) \in SharedLines
    BY <1>4, <2>1 DEF SharedLines
  <2> QED BY <2>2 DEF PlainOf, Plain
<1> QED BY <1>2, <1>3, <1>4

(***************************************************************************)
(* A line that is added to a cache comes from memory as a whole; lines     *)
(* that are dropped go as a whole.                                         *)
(***************************************************************************)
LEMMA Adding ==
  ASSUME NEW cache, IsCache(cache), NEW line,
         memory \in [Cells -> Values]
  PROVE  /\ IsCache(With(cache, line))
         /\ DOMAIN With(cache, line) = DOMAIN cache \cup InLines({line})
         /\ \A c \in DOMAIN cache : With(cache, line)[c] = cache[c]
         /\ \A c \in DOMAIN With(cache, line) : c \notin DOMAIN cache =>
              LineOf(c) = line /\ c \in Cells /\ With(cache, line)[c] = memory[c]
         /\ LinesOf(DOMAIN cache) \subseteq LinesOf(DOMAIN With(cache, line))
<1> DEFINE W == With(cache, line)
<1>1. /\ cache \in [DOMAIN cache -> Values]
      /\ DOMAIN cache \subseteq Cells /\ DOMAIN cache = InLines(LinesOf(DOMAIN cache))
  BY DEF InLines, IsCache
<1>2. DOMAIN W = DOMAIN cache \cup InLines({line}) /\ DOMAIN W \subseteq Cells
  BY <1>1 DEF With, InLines
<1>3. \A c \in Cells, d \in DOMAIN W : LineOf(c) = LineOf(d) => c \in DOMAIN W
  <2>1. \A c \in Cells, d \in DOMAIN cache : LineOf(c) = LineOf(d) => c \in DOMAIN cache
    BY <1>1, WholeLines
  <2>2. \A c \in Cells, d \in InLines({line}) : LineOf(c) = LineOf(d) => c \in InLines({line})
    BY DEF InLines
  <2> QED BY <1>2, <2>1, <2>2
<1>4. DOMAIN W = InLines(LinesOf(DOMAIN W))
  BY <1>2, <1>3, WholeLines
<1>5. \A c \in DOMAIN W : W[c] = IF c \in DOMAIN cache THEN cache[c] ELSE memory[c]
  BY DEF With
<1>6. \A c \in DOMAIN W : c \notin DOMAIN cache => LineOf(c) = line /\ c \in Cells
  BY <1>2 DEF InLines
<1>7. \A c \in DOMAIN W : W[c] \in Values
  BY <1>1, <1>5, <1>6
<1>8. W \in [DOMAIN W -> Values]
  BY <1>7 DEF With
<1>8a. IsCache(W)
  BY <1>4, <1>8 DEF IsCache
<1>9. LinesOf(DOMAIN cache) \subseteq LinesOf(DOMAIN W)
  BY <1>2 DEF LinesOf
<1> QED BY <1>2, <1>5, <1>6, <1>8a, <1>9

LEMMA Dropping ==
  ASSUME NEW cache, IsCache(cache), NEW L
  PROVE  /\ IsCache(Without(cache, L))
         /\ DOMAIN Without(cache, L) = {c \in DOMAIN cache : LineOf(c) \notin L}
         /\ \A c \in DOMAIN Without(cache, L) : Without(cache, L)[c] = cache[c]
         /\ LinesOf(DOMAIN cache) \ L \subseteq LinesOf(DOMAIN Without(cache, L))
<1> DEFINE W == Without(cache, L)
<1>1. /\ cache \in [DOMAIN cache -> Values]
      /\ DOMAIN cache \subseteq Cells /\ DOMAIN cache = InLines(LinesOf(DOMAIN cache))
  BY DEF InLines, IsCache
<1>2. DOMAIN W = {c \in DOMAIN cache : LineOf(c) \notin L} /\ DOMAIN W \subseteq Cells
  BY <1>1 DEF Without, InLines
<1>3. \A c \in Cells, d \in DOMAIN W : LineOf(c) = LineOf(d) => c \in DOMAIN W
  <2>1. \A c \in Cells, d \in DOMAIN cache : LineOf(c) = LineOf(d) => c \in DOMAIN cache
    BY <1>1, WholeLines
  <2> QED BY <1>2, <2>1
<1>4. DOMAIN W = InLines(LinesOf(DOMAIN W))
  BY <1>2, <1>3, WholeLines
<1>5. \A c \in DOMAIN W : W[c] = cache[c]
  BY DEF Without
<1>6. \A c \in DOMAIN W : W[c] \in Values
  BY <1>1, <1>2, <1>5
<1>7. W \in [DOMAIN W -> Values]
  BY <1>6 DEF Without
<1>7a. IsCache(W)
  BY <1>4, <1>7 DEF IsCache
<1>8. LinesOf(DOMAIN cache) \ L \subseteq LinesOf(DOMAIN W)
  BY <1>2 DEF LinesOf
<1> QED BY <1>2, <1>5, <1>7a, <1>8

(***************************************************************************)
(* The linker places once: every object stays where it is.                 *)
(***************************************************************************)
LEMMA Stays ==
  ASSUME start' = start
  PROVE  /\ Names' = Names
         /\ \A use : Used(use)' = Used(use)
         /\ Plain' = Plain /\ \A o : Of(o)' = Of(o) /\ PlainOf(o)' = PlainOf(o)
         /\ Plain \subseteq Cells /\ \A o : PlainOf(o) = Of(o) \cap Plain
         /\ Placements(Names)' = Placements(Names)
<1>1. /\ Names' = Names /\ (\A use : Used(use)' = Used(use)) /\ \A o : Of(o)' = Of(o)
      /\ Placements(Names)' = Placements(Names)
  BY DEF Names, Used, Of, Placements, CellsAt, Cells
<1>2. SharedLines' = SharedLines
  BY <1>1 DEF SharedLines
<1> QED BY <1>1, <1>2 DEF Plain, PlainOf

\* What TypeOK says of memory and the caches.
CacheTypes ==
  /\ memory \in [Cells -> Values] /\ written \in [Cells -> Values]
  /\ IsCache(data) /\ IsCache(code)
  /\ dirty \subseteq LinesOf(DOMAIN data)

\* Typed, with every object where a linker may have put it.
Typed == TypeOK /\ start \in Placements(Names)

(***************************************************************************)
(* What is written back has the types of memory, whatever it is.           *)
(***************************************************************************)
LEMMA CleanedTyped == ASSUME Typed, NEW L PROVE Cleaned(L) \in [Cells -> Values]
<1>1. ASSUME NEW c \in Cells, LineOf(c) \in dirty PROVE data[c] \in Values
  <2>1. c \in DOMAIN data
    BY <1>1 DEF Typed, TypeOK, InLines
  <2> QED BY <2>1 DEF Typed, TypeOK
<1>2. \A c \in Cells : memory[c] \in Values
  BY DEF Typed, TypeOK
<1> QED BY <1>1, <1>2 DEF Cleaned

(***************************************************************************)
(* The state of the processor's caches, of DMA and of memory is type       *)
(* correct, and every step keeps it so, wherever the buffers are.          *)
(***************************************************************************)
LEMMA TypeStep ==
  ASSUME Typed, [Next]_vars
  PROVE  Typed'
<1> USE DEF Typed
<1>b. \A o \in Names : Of(o) \subseteq Cells
  BY DEF Placements, Of
<1>0. start' = start
  BY DEF Next, vars, Fill, Fetch, Evict, Send, Sent, Receive, Received, CleanCode,
     RunCode,
     Write, Arrive, cache_enable, cache_disable, Reset
<1>1. /\ Names' = Names /\ Used("code")' = Used("code")
      /\ (start \in Placements(Names))' /\ (DOMAIN start \in Programs)'
      /\ start' \in [Names' -> Cells]
  BY <1>0, Stays DEF TypeOK
<1>2. ienabled' \in BOOLEAN /\ denabled' \in BOOLEAN
  BY DEF Next, vars, dcache, icache, Fill, Fetch, Evict, Send, Sent, Receive, Received,
     CleanCode, RunCode,
     Write, Arrive, cache_enable, cache_disable, Reset, TypeOK, cache_clean_data_block,
     cache_clean_data, cache_invalidate_data_block
<1>3. armed' \subseteq Names
  BY DEF Next, vars, Fill, Fetch, Evict, Send, Sent, Receive, Received, CleanCode,
     RunCode,
     Write, Arrive, cache_enable, cache_disable, Reset, TypeOK, Used
<1>4. stage' \in [Used("code") -> {"new", "clean", "loaded"}]
  BY DEF Next, vars, Fill, Fetch, Evict, Send, Sent, Receive, Received, CleanCode,
     RunCode,
     Write, Arrive, cache_enable, cache_disable, Reset, TypeOK
<1>5. CacheTypes
  BY DEF TypeOK, CacheTypes, IsCache
<1>6. ASSUME NEW line, Fill(line) PROVE CacheTypes'
  BY <1>5, <1>6, Adding DEF Fill, icache, CacheTypes
<1>7. ASSUME NEW line, Fetch(line) PROVE CacheTypes'
  BY <1>5, <1>7, Adding DEF Fetch, dcache, CacheTypes
<1>8. ASSUME NEW line, Evict(line) PROVE CacheTypes'
  BY <1>5, <1>8, Dropping, CleanedTyped DEF Evict, icache, CacheTypes
<1>9. ASSUME NEW o, NEW cell, NEW v \in Values, Write(o, cell, v) PROVE CacheTypes'
  <2>1. cell \in Cells
    BY <1>9, <1>b DEF Write
  <2>2. CASE denabled
    <3> DEFINE W == With(data, LineOf(cell))
    <3>1. /\ data' = [W EXCEPT ![cell] = v] /\ dirty' = dirty \cup {LineOf(cell)}
          /\ memory' = memory /\ code' = code
          /\ written' = [written EXCEPT ![cell] = v]
      BY <1>9, <2>2 DEF Write, icache
    <3>2. /\ IsCache(W)
          /\ DOMAIN W = DOMAIN data \cup InLines({LineOf(cell)})
          /\ LinesOf(DOMAIN data) \subseteq LinesOf(DOMAIN W)
      BY <1>5, Adding DEF CacheTypes
    <3>2a. cell \in DOMAIN W
      BY <2>1, <3>2 DEF InLines
    <3>3. LineOf(cell) \in LinesOf(DOMAIN W)
      BY <3>2a DEF LinesOf
    <3> HIDE DEF W
    <3>4. DOMAIN data' = DOMAIN W /\ IsCache(data)'
      BY <3>1, <3>2 DEF IsCache
    <3> QED BY <1>5, <3>1, <3>2, <3>3, <3>4 DEF CacheTypes
  <2>3. CASE ~denabled
    BY <1>5, <1>9, <2>1, <2>3 DEF Write, icache, CacheTypes
  <2> QED BY <2>2, <2>3
<1>10. ASSUME NEW b, Send(b) PROVE CacheTypes'
  BY <1>5, <1>10, CleanedTyped DEF Send, cache_clean_data_block, icache, CacheTypes
<1>11. ASSUME NEW b, Sent(b) \/ Receive(b) PROVE CacheTypes'
  BY <1>5, <1>11 DEF Sent, Receive, dcache, icache, CacheTypes
<1>12. ASSUME NEW b, NEW cell, NEW v \in Values, Arrive(b, cell, v) PROVE CacheTypes'
  BY <1>5, <1>12, <1>b DEF Arrive, dcache, icache, Used, CacheTypes
<1>13. ASSUME NEW b, Received(b) PROVE CacheTypes'
  BY <1>5, <1>13, Dropping DEF Received, cache_invalidate_data_block, icache, CacheTypes
<1>14. ASSUME NEW o, CleanCode(o) PROVE CacheTypes'
  BY <1>5, <1>14, CleanedTyped DEF CleanCode, cache_clean_data, icache, CacheTypes
<1>15. IsCache(Nothing)
  BY DEF Nothing, InLines, LinesOf, IsCache
<1>16. ASSUME NEW o, RunCode(o) PROVE CacheTypes'
  BY <1>5, <1>15, <1>16 DEF RunCode, cache_invalidate_instruction, dcache, CacheTypes
<1>17. ASSUME cache_enable \/ cache_disable PROVE CacheTypes'
  BY <1>5, <1>15, <1>17, CleanedTyped
  DEF cache_enable, cache_disable, cache_invalidate_data, cache_invalidate_instruction,
      dcache, icache, CacheTypes
<1>18. ASSUME Reset PROVE CacheTypes'
  BY <1>5, <1>18 DEF Reset, CacheTypes
<1>19. ASSUME UNCHANGED vars PROVE CacheTypes'
  BY <1>5, <1>19 DEF vars, dcache, icache, CacheTypes
<1>20. CacheTypes'
  BY <1>6, <1>7, <1>8, <1>9, <1>10, <1>11, <1>12, <1>13, <1>14, <1>16, <1>17, <1>18, <1>19
  DEF Next
<1> QED BY <1>1, <1>2, <1>3, <1>4, <1>20 DEF TypeOK, CacheTypes, IsCache

\* What holds of memory, the core and the MAC beside the types.
Agree ==
  /\ CoreCurrent /\ MemoryCurrent /\ ReceiveClean /\ CodeCurrent
  /\ MacCurrent /\ LoadedCurrent

(***************************************************************************)
(* A line that comes into a cache is not dirty, so that memory has the     *)
(* last value of its cells.                                                *)
(***************************************************************************)
LEMMA FillStep ==
  ASSUME IInv, NEW line, Fill(line) PROVE Agree'
<1>1. /\ Names' = Names /\ \A use : Used(use)' = Used(use)
      /\ Plain' = Plain /\ \A o : Of(o)' = Of(o) /\ PlainOf(o)' = PlainOf(o)
      /\ Plain \subseteq Cells /\ \A o : PlainOf(o) = Of(o) \cap Plain
  BY Stays DEF Fill
<1>2. Receiving' = Receiving
  BY <1>1 DEF Fill, Receiving
<1>3. CoreCurrent'
  <2> SUFFICES ASSUME NEW c \in Plain \ Receiving PROVE CoreReads(c)' = written[c]
    BY <1>1, <1>2 DEF Fill, CoreCurrent
  <2>1. /\ c \in DOMAIN data => c \in DOMAIN data' /\ data'[c] = data[c]
        /\ c \in DOMAIN data' /\ c \notin DOMAIN data => data'[c] = memory[c]
    <3>1. CacheTypes /\ data' = With(data, line)
      BY DEF Fill, IInv, TypeOK, CacheTypes, IsCache
    <3>2. IsCache(data) /\ memory \in [Cells -> Values]
      BY <3>1 DEF CacheTypes
    <3>3. /\ \A d \in DOMAIN data : With(data, line)[d] = data[d]
          /\ DOMAIN With(data, line) = DOMAIN data \cup InLines({line})
          /\ \A d \in DOMAIN With(data, line) : d \notin DOMAIN data =>
               LineOf(d) = line /\ d \in Cells /\ With(data, line)[d] = memory[d]
      BY <3>2, Adding
    <3> QED BY <3>1, <3>3
  <2>2. CASE c \in DOMAIN data
    BY <2>1, <2>2 DEF Fill, CoreReads, IInv, CoreCurrent
  <2>3. CASE c \notin DOMAIN data
    BY <2>1, <2>3 DEF Fill, CoreReads, IInv, CoreCurrent
  <2> QED BY <2>2, <2>3
<1>4. MemoryCurrent' /\ ReceiveClean' /\ CodeCurrent' /\ MacCurrent' /\ LoadedCurrent'
  BY <1>1 DEF Fill, icache, IInv, MemoryCurrent, ReceiveClean, CodeCurrent, MacCurrent,
     LoadedCurrent, CoreFetches
<1> QED BY <1>3, <1>4 DEF Agree

(***************************************************************************)
(* Code that is loaded is fetched from memory that has it.                 *)
(***************************************************************************)
LEMMA FetchStep ==
  ASSUME IInv, NEW line, Fetch(line) PROVE Agree'
<1>1. /\ Names' = Names /\ \A use : Used(use)' = Used(use)
      /\ Plain' = Plain /\ \A o : Of(o)' = Of(o) /\ PlainOf(o)' = PlainOf(o)
      /\ Plain \subseteq Cells /\ \A o : PlainOf(o) = Of(o) \cap Plain
  BY Stays DEF Fetch
<1>2. Receiving' = Receiving
  BY <1>1 DEF Fetch, Receiving
<1>3. LoadedCurrent'
  <2> SUFFICES ASSUME NEW o \in Used("code"), stage[o] = "loaded", NEW c \in PlainOf(o)
               PROVE  CoreFetches(c)' = written[c]
    BY <1>1 DEF Fetch, LoadedCurrent
  <2>1. /\ c \in DOMAIN code => c \in DOMAIN code' /\ code'[c] = code[c]
        /\ c \in DOMAIN code' /\ c \notin DOMAIN code => code'[c] = memory[c]
    <3>1. CacheTypes /\ code' = With(code, line)
      BY DEF Fetch, IInv, TypeOK, CacheTypes, IsCache
    <3>2. IsCache(code) /\ memory \in [Cells -> Values]
      BY <3>1 DEF CacheTypes
    <3>3. /\ \A d \in DOMAIN code : With(code, line)[d] = code[d]
          /\ DOMAIN With(code, line) = DOMAIN code \cup InLines({line})
          /\ \A d \in DOMAIN With(code, line) : d \notin DOMAIN code =>
               LineOf(d) = line /\ d \in Cells /\ With(code, line)[d] = memory[d]
      BY <3>2, Adding
    <3> QED BY <3>1, <3>3
  <2>2. memory[c] = written[c]
    BY DEF IInv, CodeCurrent
  <2>3. CoreFetches(c) = written[c]
    BY DEF IInv, LoadedCurrent
  <2> QED BY <2>1, <2>2, <2>3 DEF Fetch, dcache, icache, CoreFetches
<1>4. CoreCurrent' /\ MemoryCurrent' /\ ReceiveClean' /\ CodeCurrent' /\ MacCurrent'
  BY <1>1, <1>2 DEF Fetch, dcache, icache, IInv, CoreCurrent, MemoryCurrent,
     ReceiveClean, CodeCurrent,
     MacCurrent, CoreReads
<1> QED BY <1>3, <1>4 DEF Agree

(***************************************************************************)
(* Lines that are written back, and perhaps dropped, leave memory with the *)
(* last value of their cells and disturb no other.                         *)
(***************************************************************************)
LEMMA CleanStep ==
  ASSUME IInv, denabled, NEW L, start' = start, denabled' = denabled,
         ienabled' = ienabled, written' = written,
         memory' = Cleaned(L), dirty' = dirty \ L, code' = code,
         data' = data \/ data' = Without(data, L)
  PROVE  /\ MemoryCurrent' /\ ReceiveClean'
         /\ armed' = armed => CoreCurrent' /\ MacCurrent'
         /\ stage' = stage => CodeCurrent' /\ LoadedCurrent'
<1>1. /\ Names' = Names /\ \A use : Used(use)' = Used(use)
      /\ Plain' = Plain /\ \A o : Of(o)' = Of(o) /\ PlainOf(o)' = PlainOf(o)
      /\ Plain \subseteq Cells /\ \A o : PlainOf(o) = Of(o) \cap Plain
  BY Stays
<1>2. /\ \A c \in Plain : memory[c] = written[c] => memory'[c] = written[c]
      /\ \A c \in Plain : LineOf(c) \in L => memory'[c] = written[c]
  BY WrittenBack
<1>3. \A o \in Names : Of(o) \subseteq Cells
  BY DEF IInv, Placements, Of
<1>4. MemoryCurrent' /\ ReceiveClean'
  BY <1>1, <1>2 DEF IInv, MemoryCurrent, ReceiveClean
<1>5. ASSUME armed' = armed PROVE CoreCurrent'
  <2>1. Receiving' = Receiving
    BY <1>1, <1>5 DEF Receiving
  <2> SUFFICES ASSUME NEW c \in Plain \ Receiving PROVE CoreReads(c)' = written[c]
    BY <1>1, <2>1 DEF CoreCurrent
  <2>2. /\ c \in DOMAIN data' => c \in DOMAIN data /\ data'[c] = data[c]
        /\ c \in DOMAIN data /\ c \notin DOMAIN data' => LineOf(c) \in L
    <3>1. CacheTypes
      BY DEF IInv, TypeOK, CacheTypes, IsCache
    <3>2. IsCache(data)
      BY <3>1 DEF CacheTypes
    <3>3. /\ DOMAIN Without(data, L) = {d \in DOMAIN data : LineOf(d) \notin L}
          /\ \A d \in DOMAIN Without(data, L) : Without(data, L)[d] = data[d]
      BY <3>2, Dropping
    <3> QED BY <3>3
  <2>3. c \in DOMAIN data => data[c] = written[c]
    BY DEF IInv, CoreCurrent, CoreReads
  <2>4. c \notin DOMAIN data => memory[c] = written[c]
    BY DEF IInv, CoreCurrent, CoreReads
  <2> QED BY <1>2, <2>2, <2>3, <2>4 DEF CoreReads
<1>6. ASSUME armed' = armed PROVE MacCurrent'
  BY <1>1, <1>2, <1>3, <1>6 DEF IInv, MacCurrent, Used
<1>7. ASSUME stage' = stage PROVE CodeCurrent'
  BY <1>1, <1>2, <1>3, <1>7 DEF IInv, CodeCurrent, Used
<1>8. ASSUME stage' = stage PROVE LoadedCurrent'
  <2> SUFFICES ASSUME NEW o \in Used("code"), stage[o] = "loaded", NEW c \in PlainOf(o)
               PROVE  CoreFetches(c)' = written[c]
    BY <1>1, <1>8 DEF LoadedCurrent
  <2>1. memory'[c] = written[c]
    BY <1>1, <1>2 DEF IInv, CodeCurrent
  <2>2. CoreFetches(c) = written[c]
    BY DEF IInv, LoadedCurrent
  <2> QED BY <2>1, <2>2 DEF CoreFetches
<1> QED BY <1>4, <1>5, <1>6, <1>7, <1>8

(***************************************************************************)
(* A write makes a line dirty that is none of the MAC's, and leaves every  *)
(* other object as it is.                                                  *)
(***************************************************************************)
LEMMA WriteStep ==
  ASSUME IInv, NEW w, NEW cell, NEW v \in Values, Write(w, cell, v)
  PROVE  Agree'
<1>1. /\ Names' = Names /\ \A use : Used(use)' = Used(use)
      /\ Plain' = Plain /\ \A o : Of(o)' = Of(o) /\ PlainOf(o)' = PlainOf(o)
      /\ Plain \subseteq Cells /\ \A o : PlainOf(o) = Of(o) \cap Plain
  BY Stays DEF Write
<1>2. /\ w \in Names /\ w \notin Used("receive") /\ w \notin armed /\ cell \in Of(w)
      /\ denabled' = denabled /\ ienabled' = ienabled /\ armed' = armed /\ code' = code
      /\ written' = [written EXCEPT ![cell] = v]
  BY DEF Write, icache
<1>2a. /\ cell \in Cells
       /\ written \in [Cells -> Values] /\ memory \in [Cells -> Values]
  BY <1>2, Placed DEF IInv, TypeOK
<1>3. \A o \in Names : o # w => cell \notin Of(o)
  BY <1>2, Placed
<1>4. \A c \in Cells : c # cell => written'[c] = written[c]
  BY <1>2, <1>2a
<1>5. written'[cell] = v
  BY <1>2, <1>2a
<1>6. Receiving' = Receiving /\ cell \notin Receiving
  <2>1. Receiving' = Receiving
    BY <1>1, <1>2 DEF Receiving
  <2>2. \A b \in Used("receive") : b \in Names /\ b # w
    BY <1>2 DEF Used
  <2>3. cell \notin Receiving
    BY <1>3, <2>2 DEF Receiving
  <2> QED BY <2>1, <2>3
<1>7. \A o \in Names : Of(o) \subseteq Cells
  BY Placed
<1>8. CASE denabled
  <2> DEFINE W == With(data, LineOf(cell))
  <2>1. /\ data' = [W EXCEPT ![cell] = v] /\ dirty' = dirty \cup {LineOf(cell)}
        /\ memory' = memory
    BY <1>8 DEF Write
  <2>2. /\ IsCache(data) /\ memory \in [Cells -> Values]
    BY DEF IInv, TypeOK, IsCache
  <2>3. /\ \A d \in DOMAIN data : W[d] = data[d]
        /\ DOMAIN W = DOMAIN data \cup InLines({LineOf(cell)})
        /\ \A d \in DOMAIN W : d \notin DOMAIN data =>
             LineOf(d) = LineOf(cell) /\ d \in Cells /\ W[d] = memory[d]
    BY <2>2, Adding
  <2>4. cell \in DOMAIN W
    BY <1>2a, <2>3 DEF InLines
  <2> HIDE DEF W
  <2>5. DOMAIN data' = DOMAIN W /\ data'[cell] = v /\ \A d \in DOMAIN W : d # cell => data'[d] = W[d]
    BY <2>1, <2>4
  <2>6. CoreCurrent'
    <3> SUFFICES ASSUME NEW c \in Plain \ Receiving PROVE CoreReads(c)' = written'[c]
      BY <1>1, <1>6 DEF CoreCurrent
    <3>1. CASE c = cell
      BY <1>2, <1>5, <1>8, <2>4, <2>5, <3>1 DEF CoreReads
    <3>2. CASE c # cell
      <4>1. CoreReads(c) = written[c]
        BY DEF IInv, CoreCurrent
      <4> QED BY <1>2, <1>4, <1>8, <2>1, <2>3, <2>5, <3>2, <4>1 DEF CoreReads
    <3> QED BY <3>1, <3>2
  <2>7. MemoryCurrent'
    BY <1>1, <1>2, <1>4, <1>8, <2>1 DEF IInv, MemoryCurrent
  <2>8. ReceiveClean'
    <3>1. \A b \in Used("receive") : \A c \in PlainOf(b) : LineOf(c) # LineOf(cell)
      BY <1>2, Placed
    <3> QED BY <1>1, <1>8, <2>1, <3>1 DEF IInv, ReceiveClean
  <2>9. MacCurrent'
    <3>1. \A b \in Used("send") \cap armed : b # w /\ b \in Names
      BY <1>2 DEF Used
    <3> QED BY <1>1, <1>2, <1>3, <1>4, <1>7, <2>1, <3>1 DEF IInv, MacCurrent
  <2>10. CodeCurrent' /\ LoadedCurrent'
    <3>1. \A o \in Used("code") : stage'[o] # "new" => o # w /\ o \in Names /\ stage'[o] = stage[o]
      BY DEF Write, Used
    <3>2. CodeCurrent'
      BY <1>1, <1>3, <1>4, <1>7, <2>1, <3>1 DEF IInv, CodeCurrent
    <3>3. LoadedCurrent'
      BY <1>1, <1>2, <1>3, <1>4, <1>7, <2>1, <3>1 DEF IInv, LoadedCurrent, CoreFetches
    <3> QED BY <3>2, <3>3
  <2> QED BY <2>6, <2>7, <2>8, <2>9, <2>10 DEF Agree
<1>9. CASE ~denabled
  <2>1. /\ data' = data /\ dirty' = dirty /\ memory' = [memory EXCEPT ![cell] = v]
    BY <1>9 DEF Write
  <2>2. memory'[cell] = v /\ \A c \in Cells : c # cell => memory'[c] = memory[c]
    BY <1>2a, <2>1
  <2>3. \A c \in Plain : memory[c] = written[c]
    BY <1>9 DEF IInv, MemoryCurrent
  <2>4. \A c \in Plain : memory'[c] = written'[c]
    BY <1>1, <1>4, <1>5, <2>2, <2>3
  <2>5. CoreCurrent' /\ MemoryCurrent' /\ ReceiveClean'
    BY <1>1, <1>2, <1>9, <2>4 DEF CoreCurrent, MemoryCurrent, ReceiveClean, CoreReads
  <2>6. CodeCurrent' /\ MacCurrent'
    BY <1>1, <1>2, <2>4 DEF CodeCurrent, MacCurrent
  <2>7. \A o \in Used("code") : stage'[o] = "loaded" => o # w /\ o \in Names /\ stage[o] = "loaded"
    BY DEF Write, Used
  <2>8. LoadedCurrent'
    BY <1>1, <1>2, <1>3, <1>4, <2>2, <2>7 DEF IInv, LoadedCurrent, CoreFetches
  <2> QED BY <2>5, <2>6, <2>8 DEF Agree
<1> QED BY <1>8, <1>9

(***************************************************************************)
(* What is in a buffer the MAC gets is in memory: its lines are cleaned.   *)
(***************************************************************************)
LEMMA SendStep ==
  ASSUME IInv, NEW b, Send(b) PROVE Agree'
<1>1. /\ Names' = Names /\ \A use : Used(use)' = Used(use)
      /\ Plain' = Plain /\ \A o : Of(o)' = Of(o) /\ PlainOf(o)' = PlainOf(o)
      /\ Plain \subseteq Cells /\ \A o : PlainOf(o) = Of(o) \cap Plain
  BY Stays DEF Send
<1>2. /\ b \in Used("send") /\ denabled /\ start' = start
      /\ denabled' = denabled /\ ienabled' = ienabled /\ written' = written
      /\ memory' = Cleaned(LinesOf(Of(b))) /\ dirty' = dirty \ LinesOf(Of(b))
      /\ code' = code /\ data' = data /\ stage' = stage /\ armed' = armed \cup {b}
  BY DEF Send, cache_clean_data_block, icache
<1>3. MemoryCurrent' /\ ReceiveClean' /\ CodeCurrent' /\ LoadedCurrent'
  BY <1>2, CleanStep
<1>4. b \notin Used("receive") /\ b \in Names
  BY <1>2 DEF Used
<1>5. Receiving' = Receiving
  BY <1>1, <1>2, <1>4 DEF Receiving
<1>6. /\ \A c \in Plain : memory[c] = written[c] => memory'[c] = written[c]
      /\ \A c \in Plain : LineOf(c) \in LinesOf(Of(b)) => memory'[c] = written[c]
  BY <1>2, WrittenBack
<1>7. CoreCurrent'
  <2> SUFFICES ASSUME NEW c \in Plain \ Receiving PROVE CoreReads(c)' = written[c]
    BY <1>1, <1>2, <1>5 DEF CoreCurrent
  <2>1. CoreReads(c) = written[c]
    BY DEF IInv, CoreCurrent
  <2> QED BY <1>2, <1>6, <2>1 DEF CoreReads
<1>8. MacCurrent'
  <2> SUFFICES ASSUME NEW o \in Used("send") \cap (armed \cup {b}), NEW c \in PlainOf(o)
               PROVE  memory'[c] = written[c]
    BY <1>1, <1>2 DEF MacCurrent
  <2>1. c \in Plain /\ c \in Of(o)
    BY <1>1
  <2>2. CASE o = b
    BY <1>6, <2>1, <2>2 DEF LinesOf
  <2>3. CASE o # b
    BY <1>6, <2>1, <2>3 DEF IInv, MacCurrent
  <2> QED BY <2>2, <2>3
<1> QED BY <1>3, <1>7, <1>8 DEF Agree

(***************************************************************************)
(* The MAC writes memory, of which no cache is to write anything back; the *)
(* driver drops what the data cache has of it before the core reads it.    *)
(***************************************************************************)
LEMMA ReceiveStep ==
  ASSUME IInv, NEW b,
         \/ Sent(b) \/ Receive(b) \/ Received(b)
         \/ \E cell \in Cells, v \in Values : Arrive(b, cell, v)
  PROVE  Agree'
<1>0. start' = start
  BY DEF Sent, Receive, Received, Arrive
<1>1. /\ Names' = Names /\ \A use : Used(use)' = Used(use)
      /\ Plain' = Plain /\ \A o : Of(o)' = Of(o) /\ PlainOf(o)' = PlainOf(o)
      /\ Plain \subseteq Cells /\ \A o : PlainOf(o) = Of(o) \cap Plain
  BY <1>0, Stays
<1>2. \A o \in Names : Of(o) \subseteq Cells
  BY Placed
<1>3. ASSUME Sent(b) PROVE Agree'
  <2>1. b \in Used("send") /\ b \notin Used("receive")
    BY <1>3 DEF Sent, Used
  <2>2. Receiving' = Receiving
    BY <1>1, <1>3, <2>1 DEF Sent, Receiving
  <2> QED BY <1>1, <1>3, <2>2 DEF Sent, dcache, icache, IInv, Agree, CoreCurrent,
             MemoryCurrent,
             ReceiveClean, CodeCurrent, MacCurrent, LoadedCurrent, CoreReads, CoreFetches
<1>4. ASSUME Receive(b) PROVE Agree'
  <2>1. b \in Used("receive") /\ b \notin Used("send")
    BY <1>4 DEF Receive, Used
  <2>2. Receiving \subseteq Receiving'
    BY <1>1, <1>4 DEF Receive, Receiving
  <2> QED BY <1>1, <1>4, <2>1, <2>2 DEF Receive, dcache, icache, IInv, Agree,
             CoreCurrent, MemoryCurrent,
             ReceiveClean, CodeCurrent, MacCurrent, LoadedCurrent, CoreReads, CoreFetches
<1>5. ASSUME Received(b) PROVE Agree'
  <2> DEFINE L == LinesOf(Of(b))
  <2>1. /\ denabled
        /\ denabled' = denabled /\ ienabled' = ienabled /\ b \in Used("receive") /\ b \in Names
        /\ data' = Without(data, L) /\ dirty' = dirty \ L /\ memory' = memory
        /\ armed' = armed \ {b} /\ code' = code /\ stage' = stage /\ written' = written
    BY <1>5 DEF Received, cache_invalidate_data_block, icache, Used
  <2>2. IsCache(data)
    BY DEF IInv, TypeOK, IsCache
  <2>3. /\ DOMAIN Without(data, L) = {c \in DOMAIN data : LineOf(c) \notin L}
        /\ \A c \in DOMAIN Without(data, L) : Without(data, L)[c] = data[c]
    BY <2>2, Dropping
  <2>4. \A c \in Plain : LineOf(c) \in L => LineOf(c) \notin dirty
    <3> SUFFICES ASSUME NEW c \in Plain, LineOf(c) \in L PROVE LineOf(c) \notin dirty
      OBVIOUS
    <3>1. PICK d \in Of(b) : LineOf(d) = LineOf(c)
      BY DEF LinesOf
    <3>2. d \in PlainOf(b)
      BY <1>1, <1>2, <2>1, <3>1 DEF Plain
    <3> QED BY <2>1, <3>1, <3>2 DEF IInv, ReceiveClean
  <2>5. MemoryCurrent'
    BY <1>1, <2>1, <2>4 DEF IInv, MemoryCurrent
  <2>6. CoreCurrent'
    <3> SUFFICES ASSUME NEW c \in Plain \ Receiving' PROVE CoreReads(c)' = written[c]
      BY <1>1, <2>1 DEF CoreCurrent
    <3>1. CASE LineOf(c) \in L
      BY <2>1, <2>3, <2>4, <3>1 DEF CoreReads, IInv, MemoryCurrent
    <3>2. CASE LineOf(c) \notin L
      <4>1. c \notin Of(b)
        BY <3>2 DEF LinesOf
      <4>2. c \notin Receiving
        BY <1>1, <2>1, <4>1 DEF Receiving
      <4>3. CoreReads(c) = written[c]
        BY <4>2 DEF IInv, CoreCurrent
      <4> QED BY <2>1, <2>3, <3>2, <4>3 DEF CoreReads
    <3> QED BY <3>1, <3>2
  <2>7. ReceiveClean'
    BY <1>1, <2>1 DEF IInv, ReceiveClean
  <2>8. CodeCurrent' /\ LoadedCurrent' /\ MacCurrent'
    BY <1>1, <2>1 DEF IInv, CodeCurrent, LoadedCurrent, MacCurrent, CoreFetches
  <2> QED BY <2>5, <2>6, <2>7, <2>8 DEF Agree
<1>6. ASSUME NEW cell \in Cells, NEW v \in Values, Arrive(b, cell, v) PROVE Agree'
  <2>1. /\ b \in Used("receive") /\ b \in Names /\ b \in armed /\ cell \in Of(b)
        /\ b \notin Used("send") /\ b \notin Used("code")
        /\ denabled' = denabled /\ ienabled' = ienabled /\ data' = data /\ dirty' = dirty
        /\ armed' = armed /\ code' = code /\ stage' = stage
    BY <1>6 DEF Arrive, Used, dcache, icache
  <2>2. /\ memory' = [memory EXCEPT ![cell] = v] /\ written' = [written EXCEPT ![cell] = v]
        /\ memory \in [Cells -> Values] /\ written \in [Cells -> Values]
    BY <1>6 DEF Arrive, IInv, TypeOK
  <2>3. /\ memory'[cell] = written'[cell]
        /\ \A c \in Cells : c # cell => memory'[c] = memory[c] /\ written'[c] = written[c]
    BY <1>6, <2>2
  <2>4. Receiving' = Receiving /\ cell \in Receiving
    BY <1>1, <1>6, <2>1 DEF Receiving
  <2>5. \A o \in Names : o # b => cell \notin Of(o)
    BY <2>1, Placed
  <2>6. CoreCurrent'
    BY <1>1, <2>1, <2>3, <2>4 DEF IInv, CoreCurrent, CoreReads
  <2>7. MemoryCurrent' /\ ReceiveClean'
    BY <1>1, <2>1, <2>3 DEF IInv, MemoryCurrent, ReceiveClean
  <2>8. \A o \in Used("send") \cup Used("code") : o \in Names /\ o # b
    BY <2>1 DEF Used
  <2>9. CodeCurrent' /\ LoadedCurrent' /\ MacCurrent'
    BY <1>1, <1>2, <2>1, <2>3, <2>5, <2>8
    DEF IInv, CodeCurrent, LoadedCurrent, MacCurrent, CoreFetches
  <2> QED BY <2>6, <2>7, <2>9 DEF Agree
<1> QED BY <1>3, <1>4, <1>5, <1>6

(***************************************************************************)
(* A program runs from memory that has it; with the caches off, or just    *)
(* switched on, memory has everything.                                     *)
(***************************************************************************)
LEMMA SwitchStep ==
  ASSUME IInv,
         \/ \E line : Evict(line)
         \/ \E o : CleanCode(o) \/ RunCode(o)
         \/ cache_enable \/ cache_disable \/ Reset
  PROVE  Agree'
<1>0. start' = start
  BY DEF Evict, CleanCode, RunCode, cache_enable, cache_disable, Reset
<1>1. /\ Names' = Names /\ \A use : Used(use)' = Used(use)
      /\ Plain' = Plain /\ \A o : Of(o)' = Of(o) /\ PlainOf(o)' = PlainOf(o)
      /\ Plain \subseteq Cells /\ \A o : PlainOf(o) = Of(o) \cap Plain
  BY <1>0, Stays
<1>2. \A o \in Names : Of(o) \subseteq Cells
  BY Placed
<1>3. ASSUME NEW line, Evict(line) PROVE Agree'
  <2>1. /\ denabled /\ start' = start
        /\ denabled' = denabled /\ ienabled' = ienabled /\ written' = written
        /\ memory' = Cleaned({line}) /\ dirty' = dirty \ {line} /\ code' = code
        /\ data' = Without(data, {line}) /\ armed' = armed /\ stage' = stage
    BY <1>3 DEF Evict, icache
  <2> QED BY <2>1, CleanStep DEF Agree
<1>4. ASSUME NEW o, CleanCode(o) PROVE Agree'
  <2>1. /\ denabled /\ start' = start
        /\ denabled' = denabled /\ ienabled' = ienabled /\ written' = written
        /\ memory' = Cleaned(dirty) /\ dirty' = {} /\ dirty' = dirty \ dirty
        /\ code' = code
        /\ data' = data /\ armed' = armed /\ stage[o] = "new" /\ o \in Used("code")
        /\ stage' = [stage EXCEPT ![o] = "clean"]
    BY <1>4 DEF CleanCode, cache_clean_data, icache
  <2>2. MemoryCurrent' /\ ReceiveClean' /\ CoreCurrent' /\ MacCurrent'
    BY <2>1, CleanStep
  <2>3. \A c \in Plain : memory'[c] = written[c]
    BY <1>1, <2>1, <2>2 DEF MemoryCurrent
  <2>4. CodeCurrent'
    BY <1>1, <1>2, <2>1, <2>3 DEF CodeCurrent, Used
  <2>5. LoadedCurrent'
    <3> SUFFICES ASSUME NEW p \in Used("code"), stage'[p] = "loaded", NEW c \in PlainOf(p)
                 PROVE  CoreFetches(c)' = written[c]
      BY <1>1, <2>1 DEF LoadedCurrent
    <3>1. stage[p] = "loaded" /\ c \in Plain
      BY <1>1, <2>1 DEF IInv, TypeOK
    <3>2. CoreFetches(c) = written[c]
      BY <3>1 DEF IInv, LoadedCurrent
    <3> QED BY <2>1, <2>3, <3>1, <3>2 DEF CoreFetches
  <2> QED BY <2>2, <2>4, <2>5 DEF Agree
<1>5. ASSUME NEW o, RunCode(o) PROVE Agree'
  <2>1.
        /\ denabled' = denabled /\ ienabled' = ienabled /\ written' = written /\ memory' = memory /\ dirty' = dirty
        /\ data' = data /\ code' = Nothing /\ armed' = armed
        /\ stage[o] = "clean" /\ o \in Used("code")
        /\ stage' = [stage EXCEPT ![o] = "loaded"]
    BY <1>5 DEF RunCode, cache_invalidate_instruction, dcache, icache
  <2>2. Receiving' = Receiving
    BY <1>1, <2>1 DEF Receiving
  <2>3. MemoryCurrent' /\ ReceiveClean' /\ CoreCurrent' /\ MacCurrent'
    BY <1>1, <2>1, <2>2 DEF IInv, MemoryCurrent, ReceiveClean, CoreCurrent, MacCurrent,
       CoreReads
  <2>4. \A p \in Used("code") : stage'[p] # "new" => stage[p] # "new"
    BY <2>1 DEF IInv, TypeOK
  <2>5. CodeCurrent'
    BY <1>1, <2>1, <2>4 DEF IInv, CodeCurrent
  <2>6. LoadedCurrent'
    BY <1>1, <2>1, <2>4 DEF IInv, CodeCurrent, LoadedCurrent, CoreFetches, Nothing
  <2> QED BY <2>3, <2>5, <2>6 DEF Agree
<1>6. ASSUME cache_enable PROVE Agree'
  <2>1. /\ ~denabled /\ written' = written /\ memory' = memory
        /\ data' = Nothing \/ ~denabled'
        /\ dirty' = {} \/ ~denabled'
        /\ armed' = armed /\ stage' = stage
    BY <1>6 DEF cache_enable, cache_invalidate_data, cache_invalidate_instruction, dcache
  <2>2. \A c \in Plain : memory'[c] = written'[c]
    BY <2>1 DEF IInv, MemoryCurrent
  <2>3. CoreCurrent' /\ MemoryCurrent' /\ ReceiveClean'
    BY <1>1, <2>1, <2>2 DEF CoreCurrent, MemoryCurrent, ReceiveClean, CoreReads, Nothing
  <2>4. CodeCurrent' /\ MacCurrent'
    BY <1>1, <2>2 DEF CodeCurrent, MacCurrent, PlainOf
  <2>5. code' = Nothing \/ (code' = code /\ ienabled' = ienabled)
    BY <1>6 DEF cache_enable, cache_invalidate_instruction, icache
  <2>6. LoadedCurrent'
    BY <1>1, <2>1, <2>2, <2>5 DEF IInv, LoadedCurrent, CoreFetches, Nothing, PlainOf
  <2> QED BY <2>3, <2>4, <2>6 DEF Agree
<1>7. ASSUME cache_disable PROVE Agree'
  <2>1. CASE denabled'
    <3>1. /\ denabled /\ written' = written /\ memory' = memory /\ data' = data /\ dirty' = dirty
          /\ code' = Nothing /\ armed' = armed /\ stage' = stage
      BY <1>7, <2>1 DEF cache_disable, cache_invalidate_instruction, dcache
    <3>2. Receiving' = Receiving
      BY <1>1, <3>1 DEF Receiving
    <3>3. CoreCurrent' /\ MemoryCurrent' /\ ReceiveClean' /\ CodeCurrent' /\ MacCurrent'
      BY <1>1, <2>1, <3>1, <3>2 DEF IInv, CoreCurrent, MemoryCurrent, ReceiveClean,
         CodeCurrent, MacCurrent, CoreReads
    <3>4. LoadedCurrent'
      BY <1>1, <3>1 DEF IInv, CodeCurrent, LoadedCurrent, CoreFetches, Nothing
    <3> QED BY <3>3, <3>4 DEF Agree
  <2>2. CASE ~denabled'
    <3>1. /\ denabled /\ ~ienabled' /\ written' = written /\ memory' = Cleaned(dirty)
          /\ dirty' = {}
      BY <1>7, <2>2 DEF cache_disable, cache_invalidate_data, dcache, icache
    <3>2. \A c \in Plain : memory'[c] = written'[c]
      BY <3>1, WrittenBack DEF IInv, MemoryCurrent
    <3>3. CoreCurrent' /\ MemoryCurrent' /\ ReceiveClean'
      BY <1>1, <2>2, <3>2 DEF CoreCurrent, MemoryCurrent, ReceiveClean, CoreReads
    <3>4. CodeCurrent' /\ LoadedCurrent' /\ MacCurrent'
      BY <1>1, <3>1, <3>2 DEF CodeCurrent, LoadedCurrent, MacCurrent, CoreFetches, PlainOf
    <3> QED BY <3>3, <3>4 DEF Agree
  <2> QED BY <2>1, <2>2
<1>8. ASSUME Reset PROVE Agree'
  <2>1. ~denabled' /\ ~ienabled' /\ memory' = memory /\ \A c \in Cells : memory'[c] = written'[c]
    BY <1>8 DEF Reset
  <2>2. CoreCurrent' /\ MemoryCurrent' /\ ReceiveClean'
    BY <1>1, <2>1 DEF CoreCurrent, MemoryCurrent, ReceiveClean, CoreReads, Plain
  <2>3. CodeCurrent' /\ LoadedCurrent' /\ MacCurrent'
    BY <1>1, <2>1 DEF CodeCurrent, LoadedCurrent, MacCurrent, CoreFetches, PlainOf, Plain
  <2> QED BY <2>2, <2>3 DEF Agree
<1> QED BY <1>3, <1>4, <1>5, <1>6, <1>7, <1>8

(***************************************************************************)
(* The invariant holds when the kernel starts, and every step keeps it.    *)
(***************************************************************************)
LEMMA TypedInit == ASSUME Init PROVE Typed
<1>1. PICK names \in Programs : start \in Placements(names)
  BY DEF Init
<1>2. Names = names /\ start \in [Names -> Cells]
  BY <1>1 DEF Names, Placements
<1>3. Nothing \in [InLines(LinesOf(DOMAIN Nothing)) -> Values]
  BY DEF Nothing, InLines, LinesOf
<1>4. TypeOK
  BY <1>1, <1>2, <1>3, ZeroAssumption DEF Init, TypeOK, Names
<1>5. start \in Placements(Names)
  BY <1>1, <1>2
<1> QED BY <1>4, <1>5 DEF Typed

LEMMA IInvInit == ASSUME Init PROVE IInv
<1>1. TypeOK /\ start \in Placements(Names)
  BY TypedInit DEF Typed
<1>2. \A o \in Names : Of(o) \subseteq Cells
  BY <1>1 DEF Placements, Of
<1>3. CoreCurrent /\ MemoryCurrent /\ ReceiveClean /\ CodeCurrent /\ MacCurrent /\ LoadedCurrent
  BY <1>2 DEF Init, CoreCurrent, MemoryCurrent, ReceiveClean, CodeCurrent, MacCurrent,
     LoadedCurrent, CoreReads, CoreFetches, Nothing, Used
<1> QED BY <1>1, <1>3 DEF IInv

LEMMA IInvStep == ASSUME IInv, [Next]_vars PROVE IInv'
<1>1. TypeOK' /\ (start \in Placements(Names))'
  BY TypeStep DEF Typed, IInv
<1>2. ASSUME NEW line, Fill(line) \/ Fetch(line) \/ Evict(line) PROVE Agree'
  BY <1>2, FillStep, FetchStep, SwitchStep
<1>3. ASSUME NEW b, Send(b) \/ Sent(b) \/ Receive(b) \/ Received(b) PROVE Agree'
  BY <1>3, SendStep, ReceiveStep
<1>4. ASSUME NEW o, CleanCode(o) \/ RunCode(o) PROVE Agree'
  BY <1>4, SwitchStep
<1>5. ASSUME NEW o, NEW cell \in Cells, NEW v \in Values, Write(o, cell, v) \/ Arrive(o, cell, v)
      PROVE  Agree'
  BY <1>5, WriteStep, ReceiveStep
<1>6. ASSUME cache_enable \/ cache_disable \/ Reset PROVE Agree'
  BY <1>6, SwitchStep
<1>7. ASSUME UNCHANGED vars PROVE Agree'
  <2>1. /\ Names' = Names /\ \A use : Used(use)' = Used(use)
        /\ Plain' = Plain /\ \A o : Of(o)' = Of(o) /\ PlainOf(o)' = PlainOf(o)
        /\ Plain \subseteq Cells /\ \A o : PlainOf(o) = Of(o) \cap Plain
    BY <1>7, Stays DEF vars
  <2>2. Receiving' = Receiving
    BY <1>7, <2>1 DEF vars, Receiving
  <2> QED BY <1>7, <2>1, <2>2 DEF vars, dcache, icache, IInv, Agree, CoreCurrent,
             MemoryCurrent, ReceiveClean,
             CodeCurrent, MacCurrent, LoadedCurrent, CoreReads, CoreFetches
<1>8. Agree'
  BY <1>2, <1>3, <1>4, <1>5, <1>6, <1>7 DEF Next
<1> QED BY <1>1, <1>8 DEF IInv, Agree

(***************************************************************************)
(* Memory and caches are type correct in every reachable state, whatever   *)
(* the linker does: caches hold whole lines, and what is dirty is there.   *)
(***************************************************************************)
THEOREM CachesTyped == Spec => []TypeOK
<1>1. Typed => TypeOK
  BY DEF Typed
<1> QED BY <1>1, TypedInit, TypeStep, PTL DEF Spec

(***************************************************************************)
(* What is promised for is in no shared line.                              *)
(***************************************************************************)
LEMMA PromisedPlain ==
  ASSUME BuffersAlone, IInv, NEW o \in Names, Promised(o)
  PROVE  Of(o) \subseteq PlainOf(o)
<1>1. Of(o) \subseteq Cells
  BY Placed
<1>2. CASE WholeBuffers
  <2>1. Names \in Programs /\ start \in Placements(Names)
    BY DEF IInv, TypeOK, Names
  <2>2. ASSUME NEW b \in Used("receive"), NEW p \in Names, p # b
        PROVE  LinesOf(Of(b)) \cap LinesOf(Of(p)) = {}
    BY <1>2, <2>1, <2>2 DEF BuffersAlone, WholeBuffers, Used, Of
  <2>3. SharedLines = {}
    BY <2>2 DEF SharedLines
  <2> QED BY <1>1, <2>3 DEF PlainOf, Plain
<1>3. CASE LinesOf(Of(o)) \cap SharedLines = {}
  BY <1>1, <1>3 DEF PlainOf, Plain, LinesOf
<1> QED BY <1>2, <1>3 DEF Promised

(***************************************************************************)
(* With whole buffers that share no line with anything, the core never     *)
(* reads a stale value of a variable or of a received buffer, for any      *)
(* program, size of line and use of the caches, resets among them; with    *)
(* ragged ones, of nothing that is outside the lines they share.           *)
(***************************************************************************)
THEOREM CachesHideFromCore ==
  ASSUME BuffersAlone PROVE Spec => []CoreReadsLast
<1>1. IInv => CoreReadsLast
  <2> SUFFICES ASSUME IInv, NEW o \in Names \ armed, Promised(o), NEW c \in Of(o)
               PROVE  CoreReads(c) = written[c]
    BY DEF CoreReadsLast
  <2>1. c \in Plain
    BY PromisedPlain DEF PlainOf
  <2>2. c \notin Receiving
    <3> SUFFICES ASSUME NEW b \in Used("receive") \cap armed, c \in Of(b) PROVE FALSE
      BY DEF Receiving
    <3>1. b \in Names /\ b # o
      BY DEF Used
    <3> QED BY <3>1, Placed
  <2> QED BY <2>1, <2>2 DEF IInv, CoreCurrent
<1> QED BY <1>1, IInvInit, IInvStep, PTL DEF Spec

(***************************************************************************)
(* The MAC sends what the core wrote last, whatever is evicted, written    *)
(* beside the buffer or switched off while it is being sent.               *)
(***************************************************************************)
THEOREM CachesHideFromMac == ASSUME BuffersAlone PROVE Spec => []MacReadsLast
<1>1. IInv => MacReadsLast
  BY PromisedPlain DEF IInv, MacCurrent, MacReadsLast, Used
<1> QED BY <1>1, IInvInit, IInvStep, PTL DEF Spec

(***************************************************************************)
(* Code that has been cleaned from the data cache and then dropped from    *)
(* the instruction cache is fetched as it was written.                     *)
(***************************************************************************)
THEOREM CachesHideFromCode == ASSUME BuffersAlone PROVE Spec => []LoadedCodeRuns
<1>1. IInv => LoadedCodeRuns
  BY PromisedPlain DEF IInv, LoadedCurrent, LoadedCodeRuns, Used
<1> QED BY <1>1, IInvInit, IInvStep, PTL DEF Spec

-----------------------------------------------------------------------------
(***************************************************************************)
(* What the source asks of the linker: MCU_ALIGN(32) for each buffer the   *)
(* MAC writes.  Nothing is said of sizes.                                  *)
(***************************************************************************)
ReceiveAligned ==
  \A o \in UNION Programs : Objects[o].use = "receive" =>
    \E m \in Nat : Objects[o].align = LineCells * m

(***************************************************************************)
(* A number by a quotient and a rest.                                      *)
(***************************************************************************)
LEMMA Divided ==
  ASSUME NEW x \in Nat, NEW b \in Nat \ {0}
  PROVE  x = b * (x \div b) + (x % b) /\ x \div b \in Nat /\ x % b \in 0..(b - 1)
OBVIOUS

(***************************************************************************)
(* A block of whole lines has every cell of each of its lines.             *)
(***************************************************************************)
LEMMA WholeBlock ==
  ASSUME NEW a \in Nat, NEW n \in Nat, a % LineCells = 0, n % LineCells = 0,
         NEW c \in a..(a + n - 1), NEW d \in Nat, LineOf(c) = LineOf(d)
  PROVE  d \in a..(a + n - 1)
<1> DEFINE L == LineCells
<1>0. L \in Nat \ {0}
  BY SizesAssumption
<1> HIDE DEF L
<1>1. \A x \in Nat : x = L * (x \div L) + (x % L) /\ x \div L \in Nat /\ x % L \in 0..(L - 1)
  BY <1>0, Divided
<1>a. \A x \in Nat : x % L = 0 => \E y \in Nat : x = L * y
  <2> SUFFICES ASSUME NEW x \in Nat, x % L = 0 PROVE \E y \in Nat : x = L * y
    OBVIOUS
  <2>1. x = L * (x \div L) + 0 /\ x \div L \in Nat
    BY <1>1
  <2>2. L * (x \div L) \in Nat
    BY <1>0, <2>1
  <2>3. x = L * (x \div L)
    BY <2>1, <2>2
  <2> QED BY <2>1, <2>3
<1>b. a % L = 0 /\ n % L = 0
  BY DEF L
<1>2. PICK i \in Nat : a = L * i
  BY <1>a, <1>b
<1>3. PICK k \in Nat : n = L * k
  BY <1>a, <1>b
<1>4. PICK q \in Nat, r \in 0..(L - 1), s \in 0..(L - 1) : c = L * q + r /\ d = L * q + s
  <2>1. c \in Nat /\ c \div L = d \div L
    BY DEF LineOf, L
  <2>2. /\ c = L * (d \div L) + (c % L) /\ d = L * (d \div L) + (d % L)
        /\ d \div L \in Nat /\ c % L \in 0..(L - 1) /\ d % L \in 0..(L - 1)
    BY <1>1, <2>1
  <2> QED BY <2>2
<1>5. a + n = L * (i + k)
  BY <1>0, <1>2, <1>3
<1>6. i <= q
  <2>1. SUFFICES ASSUME i >= q + 1 PROVE FALSE
    BY <1>2, <1>4
  <2>2. L * i >= L * (q + 1)
    BY <1>0, <1>2, <1>4, <2>1
  <2>3. L * (q + 1) = L * q + L
    BY <1>0, <1>4
  <2> QED BY <1>0, <1>2, <1>4, <2>2, <2>3
<1>7. q + 1 <= i + k
  <2>1. SUFFICES ASSUME q >= i + k PROVE FALSE
    BY <1>2, <1>3, <1>4
  <2>2. L * q >= L * (i + k)
    BY <1>0, <1>2, <1>3, <1>4, <2>1
  <2> QED BY <1>0, <1>4, <1>5, <2>2
<1>8. L * q >= L * i /\ L * (q + 1) <= L * (i + k)
  BY <1>0, <1>2, <1>3, <1>4, <1>6, <1>7
<1>9. L * (q + 1) = L * q + L
  BY <1>0, <1>4
<1>10. d >= a /\ d < a + n
  BY <1>0, <1>2, <1>4, <1>5, <1>8, <1>9
<1> QED BY <1>10

(***************************************************************************)
(* An address that is aligned is at the start of a line if the alignment   *)
(* is a number of whole lines.                                             *)
(***************************************************************************)
LEMMA AlignedStart ==
  ASSUME NEW a \in Nat, NEW m \in Nat, LineCells * m \in Nat \ {0},
         a % (LineCells * m) = 0
  PROVE  a % LineCells = 0
<1> DEFINE k == a \div (LineCells * m)
<1>1. k \in Nat /\ a = (LineCells * m) * k
  OBVIOUS
<1> HIDE DEF k
<1>2. LineCells \in Nat \ {0}
  BY SizesAssumption
<1>3. a = LineCells * (m * k) /\ m * k \in Nat
  BY <1>1, <1>2
<1>4. \A x \in Nat : (LineCells * x) % LineCells = 0
  BY <1>2
<1> QED BY <1>3, <1>4

(***************************************************************************)
(* Buffers of whole lines that are aligned as the source asks share no     *)
(* line, wherever the linker puts them and whatever it puts beside them.   *)
(***************************************************************************)
LEMMA AlignedAlone == ASSUME ReceiveAligned PROVE BuffersAlone
<1> SUFFICES ASSUME NEW names \in Programs, NEW a \in Placements(names),
                    NEW o \in names, NEW p \in names, o # p,
                    Objects[o].use = "receive", Objects[o].cells % LineCells = 0,
                    NEW c \in CellsAt(o, a[o]), NEW d \in CellsAt(p, a[p]),
                    LineOf(c) = LineOf(d)
             PROVE  FALSE
  BY DEF BuffersAlone, LinesOf
<1>1. /\ a[o] \in Nat /\ a[p] \in Nat /\ a[o] % Objects[o].align = 0
      /\ CellsAt(o, a[o]) \cap CellsAt(p, a[p]) = {}
      /\ CellsAt(p, a[p]) \subseteq Cells
  BY DEF Placements, Cells
<1>2. Objects[o].cells \in Nat /\ Objects[o].align \in Nat \ {0}
  BY ObjectsAssumption
<1>3. PICK m \in Nat : Objects[o].align = LineCells * m
  BY DEF ReceiveAligned
<1>4. a[o] % LineCells = 0
  BY <1>1, <1>2, <1>3, AlignedStart
<1>6. d \in Nat
  BY <1>1 DEF Cells
<1>7. d \in CellsAt(o, a[o])
  BY <1>1, <1>2, <1>4, <1>6, WholeBlock DEF CellsAt
<1> QED BY <1>1, <1>7

(***************************************************************************)
(* So with the alignment that devfs_config.c gives its Ethernet buffers,   *)
(* the core, the MAC and a loaded program see what was written last: of    *)
(* everything if the buffers are whole lines, however many, and else of    *)
(* all but what the linker puts into a ragged last line.                   *)
(***************************************************************************)
THEOREM AlignedBuffersHide ==
  ASSUME ReceiveAligned PROVE Spec => [](CoreReadsLast /\ MacReadsLast /\ LoadedCodeRuns)
BY AlignedAlone, CachesHideFromCore, CachesHideFromMac, CachesHideFromCode, PTL

(***************************************************************************)
(* The F746ZG's buffers are so aligned, of whatever size                   *)
(* STM32_ETH_DMA_BUFFER_SIZE is: nothing is assumed of it, of where the    *)
(* linker puts them, of what else it places or of how much memory there    *)
(* is.  If it is a whole number of lines the promise is for everything; if *)
(* it is not, what the linker puts beside the end of eth_rx_buffer is left *)
(* out of it, and so is that buffer while it has such company.             *)
(***************************************************************************)
THEOREM BoardBuffersHide ==
  ASSUME LineCells = Line,
         \A o \in UNION Programs : Objects[o].use = "receive" =>
           \E size \in Nat : Objects[o] = eth_rx_buffer(size)
  PROVE  Spec => [](CoreReadsLast /\ MacReadsLast /\ LoadedCodeRuns)
<1>1. \A size : eth_rx_buffer(size).align = 2
  BY DEF eth_rx_buffer, Object, Line, MCU_ALIGN_32
<1>2. LineCells = 2 /\ 2 = LineCells * 1
  BY DEF Line
<1>3. ReceiveAligned
  BY <1>1, <1>2 DEF ReceiveAligned
<1> QED BY <1>3, AlignedBuffersHide

=============================================================================
