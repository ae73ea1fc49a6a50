---------------------------- MODULE Wallet_proofs ----------------------------
(***************************************************************************)
(* What the run of Wallet checks of the view server and of witnesses, for  *)
(* any chain, any notes and any window.  IInv, the inductive invariant,    *)
(* says where each block and note is between memory, what is flushed and   *)
(* what is stored.  One lemma per action of the view server, then those of *)
(* the planner.                                                            *)
(***************************************************************************)
EXTENDS Wallet, FiniteSetTheorems, NaturalsInduction, TLAPS

ViewInv == /\ ViewTypeOK /\ Orderly /\ StoredExact /\ MemoryExact
           /\ FlushedExact /\ WindowAhead

\* The number of blocks up to a height.
LEMMA BlocksNumber ==
  ASSUME NEW h \in Heights \cup {None}
  PROVE  /\ Blocks(h) \in Nat
         /\ h # None => h \in Nat /\ Blocks(h) = h + 1
         /\ h = None => Blocks(h) = 0
  BY HeightAssumption, NoneAssumption DEF Blocks, Heights

\* A tree that holds the chain up to h, with the next block entered, holds the
\* chain up to that block.
LEMMA ChainGrows ==
  ASSUME NEW h \in Heights \cup {None}, Blocks(h) <= MaxHeight
  PROVE  [Chain(h) EXCEPT ![Blocks(h) + 1] = Blocks(h)] = Chain(Blocks(h))
<1> DEFINE b == Blocks(h)
<1> USE HeightAssumption, NoneAssumption
<1>1. b \in Nat
  BY BlocksNumber
<1>2. Blocks(b) = b + 1
  BY <1>1 DEF Blocks
<1>3. Chain(h) = [i \in Slots |-> IF i <= b THEN i - 1 ELSE None]
  BY DEF Chain
<1>4. Chain(b) = [i \in Slots |-> IF i <= b + 1 THEN i - 1 ELSE None]
  BY <1>2 DEF Chain
<1>5. Slots \subseteq Nat
  BY DEF Slots
<1> HIDE DEF b
<1>6. ASSUME NEW i \in Slots
      PROVE  [Chain(h) EXCEPT ![b + 1] = b][i] = Chain(b)[i]
  BY <1>1, <1>3, <1>4, <1>5
<1>7. [Chain(h) EXCEPT ![b + 1] = b] = Chain(b)
  BY <1>3, <1>4, <1>6
<1> QED
  BY <1>7 DEF b

\* The notes of the chain up to h and those of the next block.
LEMMA OwnGrows ==
  ASSUME ViewTypeOK, NEW h \in Heights \cup {None}
  PROVE  Own(Blocks(h)) = Own(h) \cup {n \in Notes : at[n] = Blocks(h)}
<1> DEFINE b == Blocks(h)
<1> USE HeightAssumption, NoneAssumption
<1>1. b \in Nat
  BY BlocksNumber
<1>2. Blocks(b) = b + 1
  BY <1>1 DEF Blocks
<1>3. \A n \in Notes : at[n] \in Nat
  BY DEF ViewTypeOK, Heights
<1> HIDE DEF b
<1>4. \A n \in Notes : at[n] < b + 1 <=> at[n] < b \/ at[n] = b
  BY <1>1, <1>3
<1> QED
  BY <1>2, <1>4 DEF Own, b

\* Heights, sizes and blocks are numbers.
LEMMA Numbers ==
  ASSUME ViewTypeOK
  PROVE  /\ stored.height \in Heights \cup {None} /\ stored.size \in Nat
         /\ Reached \in Heights \cup {None} /\ NextBlock = Blocks(Reached)
         /\ Blocks(stored.height) \in Nat /\ Blocks(Reached) \in Nat
         /\ From \in Size /\ From \in Nat
         /\ mem.size \in Nat /\ \A n \in Notes : at[n] \in Nat
<1> USE HeightAssumption, NoneAssumption
<1>1. stored.height \in Heights \cup {None} /\ mem.height \in Heights \cup {None}
  BY DEF ViewTypeOK
<1>2. Reached \in Heights \cup {None} /\ NextBlock = Blocks(Reached)
  BY <1>1 DEF Reached, NextBlock
<1>3. Blocks(stored.height) \in Nat /\ Blocks(Reached) \in Nat
  BY <1>1, <1>2, BlocksNumber
<1>4. mem.last \in Size \cup {None} /\ stored.size \in Size /\ mem.size \in Size
  BY DEF ViewTypeOK
<1>5. From \in Size /\ Size \subseteq Nat
  BY <1>4 DEF From, Size
<1>6. \A n \in Notes : at[n] \in Nat
  BY DEF ViewTypeOK, Heights
<1> QED
  BY <1>1, <1>2, <1>3, <1>4, <1>5, <1>6

\* The server as it is loaded is typed.
LEMMA LoadedType ==
  ASSUME ViewTypeOK
  PROVE  Loaded \in [tree : Tree, size : Size, kept : SUBSET Notes,
                     notes : SUBSET Notes, height : Heights \cup {None},
                     last : Size \cup {None}, advice : SUBSET Notes]
<1>1. /\ stored.tree \in Tree /\ stored.size \in Size
      /\ stored.kept \in SUBSET Notes
  BY DEF ViewTypeOK
<1>2. {} \in SUBSET Notes /\ None \in Size \cup {None}
  OBVIOUS
<1> QED
  BY <1>1, <1>2 DEF Loaded

\* The lowest recent block only rises along the chain.
LEMMA FloorRises ==
  ASSUME NEW g \in Nat, NEW h \in Nat, g <= h
  PROVE  Floor(g) \in 0..g /\ Floor(g) <= Floor(h)
  BY WindowAssumption DEF Floor

\* A window for some blocks is one for fewer.
LEMMA WindowForFewer ==
  ASSUME NEW k \in Nat, NEW l \in Nat, k <= l, WindowAt(l)
  PROVE  WindowAt(k)
<1>1. \A h \in Carries : h \in Nat
  BY WindowAssumption
<1> QED
  BY <1>1 DEF WindowAt
-----------------------------------------------------------------------------
\* A load puts what is stored in memory.
LEMMA LoadStep ==
  ASSUME ViewInv, Load PROVE ViewInv'
<1> USE NoneAssumption
<1>1. doing' = None /\ flushed' = None /\ broken' = FALSE /\ fed' = 0
  BY DEF ViewInv, Load, Orderly, FlushedExact
<1>2. ViewTypeOK'
  <2>1. fed' \in 0..Chunks
    BY ChunkAssumption DEF Load
  <2> QED
    BY <2>1, LoadedType DEF ViewInv, ViewTypeOK, Load
<1>3. Orderly'
  BY <1>1 DEF Orderly
<1>4. StoredExact'
  BY DEF ViewInv, StoredExact, Load, Own
<1>5. /\ Reached' = stored.height /\ From' = 0
      /\ mem'.tree = stored.tree /\ mem'.size = stored.size
      /\ mem'.kept = stored.kept /\ mem'.notes = {}
      /\ stored' = stored /\ at' = at /\ window' = window
  BY DEF Load, Loaded, Reached, From
<1>6. MemoryExact'
  <2>1. stored.size \in Nat /\ Blocks(stored.height) \in Nat
    BY Numbers DEF ViewInv
  <2>2. Own(Reached') = Own(stored.height)
    BY <1>5
  <2> QED
    BY <1>1, <1>5, <2>1, <2>2 DEF ViewInv, StoredExact, MemoryExact, Own
<1>7. FlushedExact'
  BY <1>1 DEF FlushedExact
<1>8. WindowAhead'
  BY <1>1, <1>5 DEF ViewInv, WindowAhead, WindowAt
<1> QED
  BY <1>2, <1>3, <1>4, <1>6, <1>7, <1>8 DEF ViewInv

\* A part of the genesis block adds to the advice.
LEMMA ScanGenesisChunkStep ==
  ASSUME ViewInv, ScanGenesisChunk PROVE ViewInv'
<1> USE NoneAssumption
<1>1. /\ mem'.tree = mem.tree /\ mem'.size = mem.size /\ mem'.kept = mem.kept
      /\ mem'.notes = mem.notes /\ mem'.height = mem.height
      /\ mem'.last = mem.last
  BY DEF ViewInv, ViewTypeOK, ScanGenesisChunk
<1>2. Reached' = Reached /\ From' = From /\ NextBlock' = NextBlock
  BY <1>1 DEF Reached, From, NextBlock, ScanGenesisChunk
<1>3. ViewTypeOK'
  BY ChunkAssumption DEF ViewInv, ViewTypeOK, ScanGenesisChunk
<1>4. Orderly'
  <2>1. fed \in Nat /\ fed' = fed + 1
    BY DEF ViewInv, ViewTypeOK, ScanGenesisChunk
  <2>2. mem'.advice = (IF fed = 0 THEN {} ELSE mem.advice)
                        \cup {n \in Notes : at[n] = 0 /\ Part[n] = fed + 1}
    BY DEF ViewInv, ViewTypeOK, ScanGenesisChunk
  <2>3. fed > 0 => mem.advice = {n \in Notes : at[n] = 0 /\ Part[n] <= fed}
    BY DEF ViewInv, Orderly, ScanGenesisChunk, Idle
  <2>4. \A n \in Notes : Part[n] \in Nat \ {0}
    BY ChunkAssumption
  <2>5. mem'.advice = {n \in Notes : at[n] = 0 /\ Part[n] <= fed + 1}
    BY <2>1, <2>2, <2>3, <2>4
  <2> QED
    BY <1>1, <1>2, <2>1, <2>5 DEF ViewInv, Orderly, ScanGenesisChunk, Idle
<1>5. StoredExact'
  BY DEF ViewInv, StoredExact, ScanGenesisChunk, Own
<1>6. MemoryExact'
  BY <1>1, <1>2 DEF ViewInv, MemoryExact, ScanGenesisChunk, Own
<1>7. FlushedExact'
  BY DEF ViewInv, FlushedExact, ScanGenesisChunk, Idle
<1>8. WindowAhead'
  BY <1>2 DEF ViewInv, WindowAhead, WindowAt, ScanGenesisChunk, Idle
<1> QED
  BY <1>3, <1>4, <1>5, <1>6, <1>7, <1>8 DEF ViewInv

\* A call begins, or fails before it has changed memory.
LEMMA CallStep ==
  ASSUME ViewInv, ScanBegins \/ CallFails PROVE ViewInv'
<1> USE NoneAssumption
<1>1. UNCHANGED <<at, stored, window, server, mem, fed, flushed, broken>>
  BY DEF ScanBegins, CallFails
<1>2. Reached' = Reached /\ From' = From /\ NextBlock' = NextBlock
  BY <1>1 DEF Reached, From, NextBlock
<1>3. ViewTypeOK'
  BY <1>1 DEF ViewInv, ViewTypeOK, ScanBegins, CallFails
<1>4. Orderly'
  BY <1>1, <1>2 DEF ViewInv, Orderly, ScanBegins, CallFails, Idle
<1>5. StoredExact' /\ MemoryExact' /\ FlushedExact'
  BY <1>1, <1>2 DEF ViewInv, StoredExact, MemoryExact, FlushedExact, Own
<1>6. WindowAhead'
  BY <1>1, <1>2 DEF ViewInv, WindowAhead, WindowAt, ScanBegins, CallFails
<1> QED
  BY <1>3, <1>4, <1>5, <1>6 DEF ViewInv

\* The window moves to that of the block being scanned, which is newer than
\* what is stored and what is in memory.
LEMMA PersistPlanningStateStep ==
  ASSUME ViewInv, PersistPlanningState PROVE ViewInv'
<1> USE NoneAssumption
<1>1. /\ UNCHANGED <<at, stored, server, mem, fed, flushed, broken>>
      /\ doing = "persist" /\ doing' = "scan"
  BY DEF PersistPlanningState
<1>2. Reached' = Reached /\ From' = From /\ NextBlock' = NextBlock
  BY <1>1 DEF Reached, From, NextBlock
<1>3. /\ NextBlock \in Nat /\ NextBlock <= MaxHeight
      /\ NextBlock = Blocks(Reached) /\ server
      /\ Blocks(stored.height) \in Nat /\ Blocks(stored.height) <= NextBlock
  BY <1>1, Numbers DEF ViewInv, Orderly, MemoryExact
<1>4. ViewTypeOK'
  <2>1. Floor(NextBlock) \in Heights
    BY <1>3, FloorRises, HeightAssumption DEF Heights
  <2> QED
    BY <1>1, <2>1 DEF ViewInv, ViewTypeOK, PersistPlanningState
<1>5. Orderly'
  BY <1>1, <1>2 DEF ViewInv, Orderly
<1>6. StoredExact' /\ MemoryExact' /\ FlushedExact'
  BY <1>1, <1>2 DEF ViewInv, StoredExact, MemoryExact, FlushedExact, Own
<1>7. WindowAt(NextBlock)
  BY <1>3 DEF ViewInv, WindowAhead
<1>8. WindowAt(NextBlock + 1)'
  <2>1. SUFFICES ASSUME NEW h \in Carries, h < NextBlock + 1
                 PROVE  window' # None /\ window' >= Floor(h)
    BY <1>2 DEF WindowAt
  <2>2. h \in Nat /\ h <= NextBlock
    BY <1>3, <2>1, WindowAssumption
  <2>3. CASE NextBlock \in Carries
    <3>1. window' = Floor(NextBlock)
      BY <2>3 DEF PersistPlanningState
    <3>2. Floor(NextBlock) \in Nat /\ Floor(h) \in Nat
          /\ Floor(h) <= Floor(NextBlock)
      BY <1>3, <2>2, FloorRises
    <3> QED
      BY <3>1, <3>2
  <2>4. CASE NextBlock \notin Carries
    <3>1. window' = window
      BY <2>4 DEF PersistPlanningState
    <3>2. h < NextBlock
      BY <1>3, <2>2, <2>4
    <3> QED
      BY <1>7, <3>1, <3>2 DEF WindowAt
  <2> QED
    BY <2>3, <2>4
<1>9. WindowAhead'
  <2>1. WindowAt(NextBlock)' /\ WindowAt(Blocks(stored.height))'
    BY <1>1, <1>2, <1>3, <1>8, WindowAssumption DEF WindowAt
  <2> QED
    BY <1>1, <1>2, <1>3, <1>8, <2>1 DEF WindowAhead, WindowAt
<1> QED
  BY <1>4, <1>5, <1>6, <1>9 DEF ViewInv

\* What a call finds are the block's notes; the genesis block's have all been
\* found in its parts.
LEMMA FoundExact ==
  ASSUME ViewInv, doing # None
  PROVE  Found(NextBlock) = {n \in Notes : at[n] = NextBlock}
<1>1. CASE NextBlock = 0
  <2>1. server /\ fed = Chunks /\ fed > 0
    BY <1>1, ChunkAssumption DEF ViewInv, Orderly
  <2>2. mem.advice = {n \in Notes : at[n] = 0 /\ Part[n] <= Chunks}
    BY <1>1, <2>1 DEF ViewInv, Orderly
  <2>3. \A n \in Notes : Part[n] <= Chunks
    BY ChunkAssumption
  <2> QED
    BY <1>1, <2>2, <2>3 DEF Found
<1>2. CASE NextBlock # 0
  BY <1>2 DEF Found
<1> QED
  BY <1>1, <1>2

\* A block is entered.
LEMMA ScanEndsStep ==
  ASSUME ViewInv, ScanEnds PROVE ViewInv'
<1> DEFINE b == NextBlock
<1> USE NoneAssumption, HeightAssumption
<1>1. /\ UNCHANGED <<at, stored, window, server, fed, flushed, broken>>
      /\ doing = "scan" /\ doing' = None /\ mem' = Scanned(b)
  BY DEF ScanEnds
<1>2. server /\ flushed = None /\ ~broken
  BY <1>1 DEF ViewInv, Orderly
<1>3. /\ b \in Nat /\ b <= MaxHeight /\ b = Blocks(Reached) /\ b \in Heights
      /\ Reached \in Heights \cup {None}
      /\ Blocks(stored.height) \in Nat /\ Blocks(stored.height) <= b
  BY <1>1, <1>2, Numbers DEF ViewInv, Orderly, MemoryExact, Heights
<1>4. Blocks(b) = b + 1 /\ b # None
  BY <1>3 DEF Blocks
<1>5. Found(b) = {n \in Notes : at[n] = b}
  BY <1>1, FoundExact
<1>6. mem.size = b /\ mem.tree = Chain(Reached) /\ mem.kept = Own(Reached)
  BY <1>2, <1>3 DEF ViewInv, MemoryExact
<1> HIDE DEF b
<1>7. /\ mem'.tree = [mem.tree EXCEPT ![b + 1] = b] /\ mem'.size = b + 1
      /\ mem'.kept = mem.kept \cup Found(b)
      /\ mem'.notes = mem.notes \cup Found(b)
      /\ mem'.height = b /\ mem'.last = mem.last /\ mem'.advice = mem.advice
  BY <1>1, <1>6 DEF Scanned, ViewInv, ViewTypeOK
<1>8. Reached' = b /\ From' = From /\ NextBlock' = b + 1
  BY <1>4, <1>7 DEF Reached, From, NextBlock
<1>9. ViewTypeOK'
  <2>1. mem'.tree \in Tree
    BY <1>3, <1>7 DEF ViewInv, ViewTypeOK, Tree, Slots
  <2>2. b + 1 \in Size
    BY <1>3 DEF Size
  <2>3. Found(b) \in SUBSET Notes
    BY <1>5
  <2>4. mem' = [tree |-> mem'.tree, size |-> mem'.size, kept |-> mem'.kept,
                notes |-> mem'.notes, height |-> mem'.height,
                last |-> mem'.last, advice |-> mem'.advice]
    BY <1>1 DEF Scanned, ViewInv, ViewTypeOK
  <2>5. mem' \in [tree : Tree, size : Size, kept : SUBSET Notes,
                  notes : SUBSET Notes, height : Heights \cup {None},
                  last : Size \cup {None}, advice : SUBSET Notes]
    BY <1>3, <1>7, <2>1, <2>2, <2>3, <2>4 DEF ViewInv, ViewTypeOK
  <2> QED
    BY <1>1, <2>5 DEF ViewInv, ViewTypeOK
<1>10. Orderly'
  BY <1>1, <1>2, <1>3, <1>7, <1>8 DEF Orderly
<1>11. StoredExact' /\ FlushedExact'
  BY <1>1, <1>2 DEF ViewInv, StoredExact, FlushedExact, Own
<1>12. MemoryExact'
  <2>1. mem'.tree = Chain(b)
    BY <1>3, <1>6, <1>7, ChainGrows
  <2>2. Own(b) = Own(Reached) \cup Found(b)
    BY <1>3, <1>5, OwnGrows DEF ViewInv
  <2>3. Own(b) = stored.notes \cup mem'.notes
    BY <1>2, <1>7, <2>2 DEF ViewInv, MemoryExact
  <2>4. mem'.kept = Own(b)
    BY <1>6, <1>7, <2>2
  <2>5. From <= stored.size
    BY <1>2 DEF ViewInv, MemoryExact
  <2>6. Blocks(stored.height) <= Blocks(b)
    BY <1>3, <1>4
  <2> QED
    BY <1>1, <1>2, <1>4, <1>7, <1>8, <2>1, <2>3, <2>4, <2>5, <2>6
       DEF MemoryExact, Own
<1>13. WindowAhead'
  <2>1. WindowAt(b + 1) /\ WindowAt(Blocks(stored.height))
    BY <1>1 DEF ViewInv, WindowAhead, b
  <2> QED
    BY <1>1, <1>4, <1>8, <2>1 DEF WindowAhead, WindowAt
<1> QED
  BY <1>9, <1>10, <1>11, <1>12, <1>13 DEF ViewInv

\* A flush takes the notes from memory.
LEMMA FlushUpdatesStep ==
  ASSUME ViewInv, FlushUpdates PROVE ViewInv'
<1> USE NoneAssumption
<1>1. /\ UNCHANGED <<at, stored, window, server, fed, doing, broken>>
      /\ server /\ doing = None /\ flushed = None /\ ~broken
      /\ mem.height # None
  BY DEF FlushUpdates, Idle
<1>2. /\ mem'.tree = mem.tree /\ mem'.size = mem.size /\ mem'.kept = mem.kept
      /\ mem'.notes = {} /\ mem'.height = mem.height
      /\ mem'.last \in {None, mem.size} /\ mem'.advice = mem.advice
  BY DEF ViewInv, ViewTypeOK, FlushUpdates
<1>3. /\ flushed'.from = From /\ flushed'.tree = mem.tree
      /\ flushed'.size = mem.size /\ flushed'.notes = mem.notes
      /\ flushed'.kept = {n \in mem.kept : at[n] >= From}
      /\ flushed'.height = mem.height
  BY DEF FlushUpdates
<1>4. Reached' = Reached /\ NextBlock' = NextBlock
  BY <1>1, <1>2 DEF Reached, NextBlock
<1>5. ViewTypeOK'
  <2>1. From \in Size
    BY Numbers DEF ViewInv
  <2> QED
    BY <2>1 DEF ViewInv, ViewTypeOK, FlushUpdates, Updates
<1>6. flushed' # None
  <2>1. From \in Size /\ mem.height \in Heights
    BY <1>1, Numbers DEF ViewInv, ViewTypeOK
  <2>2. flushed' \in Updates
    BY <2>1 DEF ViewInv, ViewTypeOK, FlushUpdates, Updates
  <2> QED
    BY <2>2, UpdatesAssumption
<1>7. Orderly'
  BY <1>1, <1>2, <1>4 DEF ViewInv, Orderly
<1>8. StoredExact'
  BY <1>1 DEF ViewInv, StoredExact, Own
<1>9. MemoryExact'
  <2>1. Own(Reached) = stored.notes \cup mem.notes
    BY <1>1 DEF ViewInv, MemoryExact
  <2>2. (Own(Reached) = stored.notes \cup mem.notes \cup
           (IF flushed = None THEN {} ELSE flushed.notes))'
    BY <1>1, <1>2, <1>3, <1>4, <1>6, <2>1 DEF Own
  <2> QED
    BY <1>1, <1>2, <1>4, <1>6, <2>2 DEF ViewInv, MemoryExact, Own
<1>10. FlushedExact'
  <2>1. From <= stored.size
    BY <1>1 DEF ViewInv, MemoryExact
  <2> QED
    BY <1>1, <1>2, <1>3, <2>1 DEF FlushedExact
<1>11. WindowAhead'
  BY <1>1, <1>4 DEF ViewInv, WindowAhead, WindowAt
<1> QED
  BY <1>5, <1>7, <1>8, <1>9, <1>10, <1>11 DEF ViewInv

\* What is saved connects to what is stored: the slots below the position of
\* the last flush are there already.
LEMMA SaveStep ==
  ASSUME ViewInv, Save PROVE ViewInv' /\ stored.notes \subseteq stored'.notes
<1> USE NoneAssumption
<1>1. /\ UNCHANGED <<at, window, server, mem, fed, doing, broken>>
      /\ flushed # None /\ flushed' = None
  BY DEF Save
<1>2. server /\ ~broken /\ mem.height # None /\ doing = None
  BY <1>1 DEF ViewInv, Orderly, FlushedExact
<1>3. /\ stored'.tree = [i \in Slots |->
           IF i > flushed.from THEN flushed.tree[i] ELSE stored.tree[i]]
      /\ stored'.size = flushed.size /\ stored'.height = flushed.height
      /\ stored'.kept = stored.kept \cup flushed.kept
      /\ stored'.notes = stored.notes \cup flushed.notes
  BY DEF Save
<1>4. /\ flushed.from <= stored.size /\ mem.notes = {}
      /\ flushed.tree = mem.tree /\ flushed.size = mem.size
      /\ flushed.height = mem.height
      /\ flushed.kept = {n \in mem.kept : at[n] >= flushed.from}
      /\ mem.last \in {None, mem.size}
  BY <1>1 DEF ViewInv, FlushedExact
<1>5. /\ Reached = mem.height /\ Reached' = mem.height /\ From' = From
      /\ mem' = mem
  BY <1>1, <1>2 DEF Reached, From
<1>6. /\ Reached \in Heights \cup {None} /\ stored.height \in Heights \cup {None}
      /\ Blocks(Reached) \in Nat /\ Blocks(stored.height) \in Nat
      /\ flushed.from \in Nat /\ mem.size \in Nat
      /\ \A n \in Notes : at[n] \in Nat
  <2>1. flushed.from \in Size /\ Size \subseteq Nat
    BY <1>1 DEF ViewInv, ViewTypeOK, Updates, Size
  <2> QED
    BY <2>1, Numbers DEF ViewInv
<1>7. /\ stored.tree = Chain(stored.height)
      /\ stored.size = Blocks(stored.height)
      /\ stored.kept = Own(stored.height) /\ stored.notes = Own(stored.height)
  BY DEF ViewInv, StoredExact
<1>8. /\ Blocks(stored.height) <= Blocks(Reached)
      /\ mem.tree = Chain(Reached) /\ mem.size = Blocks(Reached)
      /\ mem.kept = Own(Reached)
      /\ Own(Reached) = stored.notes \cup flushed.notes
  BY <1>1, <1>2, <1>4 DEF ViewInv, MemoryExact
<1>9. stored'.tree = Chain(Reached)
  <2>1. ASSUME NEW i \in Slots
        PROVE  stored'.tree[i] = Chain(Reached)[i]
    <3>1. i \in Nat
      BY DEF Slots
    <3>2. CASE i > flushed.from
      BY <1>3, <1>4, <1>8, <3>2
    <3>3. CASE ~(i > flushed.from)
      <4>1. i <= Blocks(stored.height) /\ i <= Blocks(Reached)
        BY <1>4, <1>6, <1>7, <1>8, <3>1, <3>3
      <4>2. stored'.tree[i] = Chain(stored.height)[i]
        BY <1>3, <1>7, <3>3
      <4> QED
        BY <4>1, <4>2 DEF Chain
    <3> QED
      BY <3>2, <3>3
  <2> QED
    BY <1>3, <2>1 DEF Chain
<1>10. stored'.kept = Own(Reached)
  <2>1. ASSUME NEW n \in Notes
        PROVE  n \in stored'.kept <=> n \in Own(Reached)
    BY <1>3, <1>4, <1>6, <1>7, <1>8 DEF Own
  <2>2. stored'.kept \subseteq Notes
    BY <1>3, <1>4, <1>7, <1>8 DEF Own
  <2> QED
    BY <2>1, <2>2 DEF Own
<1>11. stored'.notes = Own(Reached)
  BY <1>3, <1>8
<1>12. ViewTypeOK'
  <2>1. stored'.tree \in Tree
    BY <1>3, <1>4 DEF ViewInv, ViewTypeOK, Tree
  <2>2. /\ stored'.kept \subseteq Notes /\ stored'.notes \subseteq Notes
    BY <1>10, <1>11 DEF Own
  <2>3. stored' = [tree |-> stored'.tree, size |-> stored'.size,
                   kept |-> stored'.kept, notes |-> stored'.notes,
                   height |-> stored'.height]
    BY DEF Save
  <2>4. mem.size \in Size /\ mem.height \in Heights \cup {None}
    BY DEF ViewInv, ViewTypeOK
  <2>5. stored' \in [tree : Tree, size : Size, kept : SUBSET Notes,
                     notes : SUBSET Notes, height : Heights \cup {None}]
    BY <1>3, <1>4, <2>1, <2>2, <2>3, <2>4
  <2> QED
    BY <1>1, <2>5 DEF ViewInv, ViewTypeOK
<1>13. Orderly'
  <2>1. NextBlock' = NextBlock
    BY <1>2, <1>5 DEF NextBlock
  <2> QED
    BY <1>1, <1>2, <2>1 DEF ViewInv, Orderly
<1>14. Own(Reached)' = Own(Reached)
  BY <1>1, <1>5 DEF Own
<1>15. StoredExact'
  BY <1>1, <1>3, <1>4, <1>5, <1>8, <1>9, <1>10, <1>11 DEF StoredExact, Own
<1>16. MemoryExact'
  <2>1. From <= mem.size
    BY <1>4, <1>6 DEF From
  <2> QED
    BY <1>1, <1>2, <1>3, <1>4, <1>5, <1>6, <1>8, <1>11, <1>14, <2>1
       DEF MemoryExact
<1>17. FlushedExact'
  BY <1>1 DEF FlushedExact
<1>18. WindowAhead'
  <2>1. WindowAt(Blocks(Reached))
    BY <1>2 DEF ViewInv, WindowAhead
  <2> QED
    BY <1>1, <1>2, <1>3, <1>4, <1>5, <2>1 DEF WindowAhead, WindowAt
<1> QED
  BY <1>3, <1>12, <1>13, <1>15, <1>16, <1>17, <1>18 DEF ViewInv

\* A failed save leaves memory ahead, and the server unused until it is reset.
LEMMA SaveFailsStep ==
  ASSUME ViewInv, SaveFails PROVE ViewInv'
<1> USE NoneAssumption
<1>1. /\ UNCHANGED <<at, stored, window, server, mem, fed, doing>>
      /\ flushed # None /\ flushed' = None /\ broken' = TRUE
  BY DEF SaveFails
<1>2. server /\ mem.height # None /\ doing = None
  BY <1>1 DEF ViewInv, Orderly, FlushedExact
<1>3. Reached' = Reached /\ From' = From /\ NextBlock' = NextBlock
  BY <1>1 DEF Reached, From, NextBlock
<1>4. ViewTypeOK'
  BY <1>1 DEF ViewInv, ViewTypeOK
<1>5. Orderly'
  BY <1>1, <1>2, <1>3 DEF ViewInv, Orderly
<1>6. StoredExact' /\ MemoryExact' /\ FlushedExact'
  BY <1>1, <1>3 DEF ViewInv, StoredExact, MemoryExact, FlushedExact, Own
<1>7. WindowAhead'
  BY <1>1, <1>2, <1>3 DEF ViewInv, WindowAhead, WindowAt
<1> QED
  BY <1>4, <1>5, <1>6, <1>7 DEF ViewInv

\* A crash loses memory and nothing else.
LEMMA CrashStep ==
  ASSUME ViewInv, Crash PROVE ViewInv'
<1> USE NoneAssumption
<1>1. /\ UNCHANGED <<at, stored, window>> /\ server' = FALSE
      /\ fed' = 0 /\ doing' = None /\ flushed' = None /\ broken' = FALSE
  BY DEF Crash
<1>2. ViewTypeOK'
  <2>1. fed' \in 0..Chunks
    BY <1>1, ChunkAssumption
  <2> QED
    BY <1>1, <2>1, LoadedType DEF ViewInv, ViewTypeOK, Crash
<1>3. Orderly' /\ MemoryExact' /\ FlushedExact'
  BY <1>1 DEF Orderly, MemoryExact, FlushedExact
<1>4. StoredExact'
  BY <1>1 DEF ViewInv, StoredExact, Own
<1>5. WindowAhead'
  BY <1>1 DEF ViewInv, WindowAhead, WindowAt
<1> QED
  BY <1>2, <1>3, <1>4, <1>5 DEF ViewInv

\* A step of the view server keeps its invariant, and the stored notes.
LEMMA ViewNextStep ==
  ASSUME ViewInv, ViewNext
  PROVE  ViewInv' /\ stored.notes \subseteq stored'.notes /\ at' = at
<1>1. CASE Save
  BY <1>1, SaveStep DEF Save
<1>2. ASSUME Load \/ ScanGenesisChunk \/ ScanBegins \/ PersistPlanningState
             \/ ScanEnds \/ CallFails \/ FlushUpdates \/ SaveFails \/ Crash
      PROVE  stored' = stored /\ at' = at
  BY <1>2 DEF Load, ScanGenesisChunk, ScanBegins, PersistPlanningState,
     ScanEnds, CallFails, FlushUpdates, SaveFails, Crash
<1> QED
  BY <1>1, <1>2, LoadStep, ScanGenesisChunkStep, CallStep,
     PersistPlanningStateStep, ScanEndsStep, FlushUpdatesStep, SaveFailsStep,
     CrashStep DEF ViewNext
-----------------------------------------------------------------------------
(* Sums of notes, and why the largest notes suffice with the fewest. *)

\* The first note of a set, whichever the sum takes first.
First(S) == CHOOSE n \in S : TRUE

\* f is the sum of the amounts of each subset of U.
Sums(U, f) ==
  f = [S \in SUBSET U |->
         IF S = {} THEN 0 ELSE Amount[First(S)] + f[S \ {First(S)}]]

\* Among some subsets of a finite set there is a least one.
LEMMA LeastSubset ==
  ASSUME NEW U, IsFiniteSet(U), NEW B, B \subseteq SUBSET U, B # {}
  PROVE  \E S \in B : \A T \in B : T \subseteq S => T = S
<1> DEFINE R == StrictSubsetOrdering(U)
<1>1. IsWellFoundedOn(R, SUBSET U)
  BY FS_StrictSubsetOrderingWellFounded, FS_FiniteSubsetsOfFinite
<1> HIDE DEF R
<1>2. PICK S \in B : \A T \in B : <<T, S>> \notin R
  BY <1>1, WFMin
<1>3. \A T \in B : T \subseteq S => T = S
  BY <1>2 DEF R, StrictSubsetOrdering
<1> QED BY <1>3

\* A set that is not empty has a first note.
LEMMA FirstIn == ASSUME NEW S, S # {} PROVE First(S) \in S
BY DEF First

\* What sums give for a set.
LEMMA SumsAt ==
  ASSUME NEW U, NEW f, Sums(U, f), NEW S \in SUBSET U
  PROVE  f[S] = IF S = {} THEN 0 ELSE Amount[First(S)] + f[S \ {First(S)}]
BY DEF Sums

\* The sum of a set does not depend on the set it is a subset of.
LEMMA SumsAgree ==
  ASSUME NEW U, NEW V, NEW f, NEW g, Sums(U, f), Sums(V, g),
         NEW S \in SUBSET U, S \in SUBSET V, IsFiniteSet(S)
  PROVE  f[S] = g[S]
<1> DEFINE B == {T \in SUBSET S : f[T] # g[T]}
<1> SUFFICES ASSUME B # {} PROVE FALSE OBVIOUS
<1>0. B \subseteq SUBSET S OBVIOUS
<1>1. PICK T \in B : \A W \in B : W \subseteq T => W = T
  <2> HIDE DEF B
  <2> QED BY <1>0, LeastSubset
<1>2. T \in SUBSET U /\ T \in SUBSET V /\ T \in SUBSET S OBVIOUS
<1>3. T # {} BY <1>2, SumsAt
<1> DEFINE W == T \ {First(T)}
<1>4. W \subseteq T /\ W # T /\ W \in SUBSET S BY <1>2, <1>3, FirstIn
<1>5. f[W] = g[W] BY <1>1, <1>4
<1>6. f[T] = Amount[First(T)] + f[W] /\ g[T] = Amount[First(T)] + g[W]
  BY <1>2, <1>3, SumsAt
<1> QED BY <1>5, <1>6

\* Every finite set has sums.
LEMMA SumsExist ==
  ASSUME NEW U, IsFiniteSet(U) PROVE \E f : Sums(U, f)
<1> DEFINE B == {T \in SUBSET U : ~ \E f : Sums(T, f)}
<1> SUFFICES ASSUME B # {} PROVE FALSE OBVIOUS
<1>0. B \subseteq SUBSET U OBVIOUS
<1>1. PICK V \in B : \A W \in B : W \subseteq V => W = V
  <2> HIDE DEF B
  <2> QED BY <1>0, LeastSubset
<1> DEFINE h(S) == CHOOSE f : Sums(S, f)
           Sum(S) == h(S)[S]
           g == [S \in SUBSET V |->
                   IF S = {} THEN 0 ELSE Amount[First(S)] + Sum(S \ {First(S)})]
<1>2. \A S \in SUBSET V : S # V => Sums(S, h(S))
  BY <1>1
<1>3. \A S \in SUBSET V : IsFiniteSet(S) BY FS_Subset
<1> HIDE DEF h
<1>4. ASSUME NEW S \in SUBSET V, S # V PROVE g[S] = Sum(S)
  <2>1. S \in SUBSET S /\ Sums(S, h(S)) BY <1>2, <1>4
  <2>2. CASE S = {} BY <2>1, <2>2, SumsAt
  <2>3. CASE S # {}
    <3> DEFINE W == S \ {First(S)}
    <3>1. W \in SUBSET S /\ W \in SUBSET V /\ W # V /\ W \in SUBSET W
      BY <2>3, FirstIn
    <3>2. Sums(W, h(W)) BY <1>2, <3>1
    <3>3. h(S)[W] = h(W)[W] BY <1>3, <2>1, <3>1, <3>2, SumsAgree
    <3>4. Sum(S) = Amount[First(S)] + h(S)[W] BY <2>1, <2>3, SumsAt
    <3> QED BY <2>3, <3>3, <3>4
  <2> QED BY <2>2, <2>3
<1>5. \A S \in SUBSET V :
        S # {} => S \ {First(S)} \in SUBSET V /\ S \ {First(S)} # V
  BY FirstIn
<1>6. \A S \in SUBSET V : S # {} => Sum(S \ {First(S)}) = g[S \ {First(S)}]
  BY <1>4, <1>5
<1>7. g = [S \in SUBSET V |->
             IF S = {} THEN 0 ELSE Amount[First(S)] + g[S \ {First(S)}]]
  <2> HIDE DEF Sum
  <2> QED BY <1>6
<1> HIDE DEF g
<1>8. Sums(V, g) BY <1>7 DEF Sums
<1> QED BY <1>8

\* The total of a set is that of its first note and the others.
LEMMA TotalFirst ==
  ASSUME NEW S, IsFiniteSet(S)
  PROVE  Total(S) = IF S = {} THEN 0
                    ELSE Amount[First(S)] + Total(S \ {First(S)})
<1> DEFINE h(U) == CHOOSE f : Sums(U, f)
           W == S \ {First(S)}
<1>1. \A U : Total(U) = h(U)[U]
  BY DEF Total, MapThenSumSet, MapThenFoldSet, Sums, First
<1>2. IsFiniteSet(W) BY FS_RemoveElement
<1>3. Sums(S, h(S)) /\ Sums(W, h(W)) BY <1>2, SumsExist
<1> HIDE DEF h
<1>4. h(S)[W] = h(W)[W] BY <1>2, <1>3, SumsAgree
<1> QED BY <1>1, <1>3, <1>4, SumsAt

\* A total of notes is a number.
LEMMA TotalNumber ==
  ASSUME NEW S \in SUBSET Notes
  PROVE  Total(S) \in Nat
<1> DEFINE B == {T \in SUBSET S : Total(T) \notin Nat}
<1> SUFFICES ASSUME B # {} PROVE FALSE BY Zenon
<1>1. IsFiniteSet(S) /\ B \subseteq SUBSET S BY NotesAssumption, FS_Subset
<1>2. PICK T \in B : \A W \in B : W \subseteq T => W = T
  <2> HIDE DEF B
  <2> QED BY <1>1, LeastSubset
<1>3. T \in SUBSET S /\ IsFiniteSet(T) BY <1>1, FS_Subset
<1> DEFINE W == T \ {First(T)}
<1>4. T # {}
  <2>1. Total({}) = 0 BY FS_EmptySet, TotalFirst
  <2> QED BY <2>1
<1>5. W \in SUBSET S /\ W \subseteq T /\ W # T BY <1>3, <1>4, FirstIn
<1>6. Total(W) \in Nat BY <1>2, <1>5
<1>7. Amount[First(T)] \in Nat BY <1>3, <1>4, FirstIn, AmountAssumption
<1>8. Total(T) = Amount[First(T)] + Total(W) BY <1>3, <1>4, TotalFirst
<1> QED BY <1>6, <1>7, <1>8

\* Any note of a set can be taken first.
LEMMA TotalAny ==
  ASSUME NEW S \in SUBSET Notes, NEW n \in S
  PROVE  Total(S) = Amount[n] + Total(S \ {n})
<1> DEFINE B == {T \in SUBSET S :
                   \E m \in T : Total(T) # Amount[m] + Total(T \ {m})}
<1> SUFFICES ASSUME B # {} PROVE FALSE BY Zenon
<1>1. IsFiniteSet(S) /\ B \subseteq SUBSET S BY NotesAssumption, FS_Subset
<1>2. PICK T \in B : \A W \in B : W \subseteq T => W = T
  <2> HIDE DEF B
  <2> QED BY <1>1, LeastSubset
<1>3. T \in SUBSET S /\ IsFiniteSet(T) BY <1>1, FS_Subset
<1>4. PICK m \in T : Total(T) # Amount[m] + Total(T \ {m}) BY <1>2
<1> DEFINE f == First(T)
           W == T \ {f}
           M == T \ {m}
           X == T \ {f, m}
<1>5. f \in T /\ Total(T) = Amount[f] + Total(W)
  BY <1>3, <1>4, FirstIn, TotalFirst
<1>6. f # m BY <1>4, <1>5
<1>7. W \in SUBSET S /\ W # T /\ m \in W /\ W \ {m} = X
  BY <1>3, <1>5, <1>6
<1>8. Total(W) = Amount[m] + Total(X) BY <1>2, <1>7
<1>9. M \in SUBSET S /\ M # T /\ f \in M /\ M \ {f} = X
  BY <1>3, <1>5, <1>6
<1>10. Total(M) = Amount[f] + Total(X) BY <1>2, <1>9
<1>11. Amount[f] \in Nat /\ Amount[m] \in Nat /\ Total(X) \in Nat
  BY <1>3, <1>5, AmountAssumption, TotalNumber
<1> HIDE DEF f, W, M, X
<1>12. Total(T) = Amount[m] + Total(M)
  BY <1>5, <1>8, <1>10, <1>11
<1> QED BY <1>4, <1>12 DEF M

\* No set of at most as many notes has a higher total than one whose own notes
\* are no smaller than those of the other.
LEMMA LargestSuffice ==
  ASSUME NEW S \in SUBSET Notes, NEW T \in SUBSET Notes,
         Cardinality(T) <= Cardinality(S),
         \A n \in S \ T, m \in T \ S : Amount[n] >= Amount[m]
  PROVE  Total(T) <= Total(S)
<1> DEFINE Fits(U, V) ==
             /\ Cardinality(V) <= Cardinality(U)
             /\ \A n \in U \ V, m \in V \ U : Amount[n] >= Amount[m]
           B == {V \in SUBSET Notes :
                   \E U \in SUBSET Notes : /\ Fits(U, V)
                                           /\ ~(Total(V) <= Total(U))}
<1> SUFFICES ASSUME B # {} PROVE FALSE BY Zenon
<1>1. B \subseteq SUBSET Notes OBVIOUS
<1>2. PICK V \in B : \A W \in B : W \subseteq V => W = V
  <2> HIDE DEF B
  <2> QED BY <1>1, NotesAssumption, LeastSubset
<1>3. PICK U \in SUBSET Notes : Fits(U, V) /\ ~(Total(V) <= Total(U))
  BY <1>2
<1>4. V \in SUBSET Notes OBVIOUS
<1>5. \A W \in SUBSET Notes : Total(W) \in Nat /\ IsFiniteSet(W)
                                /\ Cardinality(W) \in Nat
  BY NotesAssumption, TotalNumber, FS_Subset, FS_CardinalityType
<1>6. V # {}
  <2>1. Total({}) = 0 BY TotalFirst, FS_EmptySet
  <2> QED BY <1>3, <1>5, <2>1
<1>7. ASSUME NEW n \in U, NEW m \in V, Amount[n] >= Amount[m],
             \A i \in (U \ {n}) \ (V \ {m}), j \in (V \ {m}) \ (U \ {n}) :
               Amount[i] >= Amount[j]
      PROVE  FALSE
  <2>1. V \ {m} \in SUBSET Notes /\ U \ {n} \in SUBSET Notes
        /\ V \ {m} # V /\ V \ {m} \subseteq V
    BY <1>4
  <2>2. Cardinality(V \ {m}) = Cardinality(V) - 1
        /\ Cardinality(U \ {n}) = Cardinality(U) - 1
    BY <1>4, <1>5, FS_RemoveElement
  <2>3. Fits(U \ {n}, V \ {m}) BY <1>3, <1>4, <1>5, <1>7, <2>2
  <2>4. Total(V \ {m}) <= Total(U \ {n}) BY <1>2, <2>1, <2>3
  <2>5. Total(V) = Amount[m] + Total(V \ {m})
        /\ Total(U) = Amount[n] + Total(U \ {n})
    BY <1>4, TotalAny
  <2>6. Amount[n] \in Nat /\ Amount[m] \in Nat BY <1>4, AmountAssumption
  <2> QED BY <1>3, <1>5, <1>7, <2>1, <2>4, <2>5, <2>6
<1>8. \A n \in Notes : Amount[n] \in Nat BY AmountAssumption
<1>9. CASE U \cap V # {}
  <2>1. PICK n \in U \cap V : TRUE BY <1>9
  <2> QED BY <1>3, <1>7, <1>8, <2>1
<1>10. CASE U \cap V = {}
  <2>1. PICK m \in V : TRUE BY <1>6
  <2>2. U # {}
    <3>1. Cardinality(V) # 0 BY <1>4, <1>5, <1>6, FS_EmptySet
    <3>2. Cardinality({}) = 0 BY FS_EmptySet
    <3> QED BY <1>3, <1>4, <1>5, <3>1, <3>2
  <2>3. PICK n \in U : TRUE BY <2>2
  <2> QED BY <1>3, <1>7, <1>10, <2>1, <2>3
<1> QED BY <1>9, <1>10

\* The largest notes that suffice, up to the one that makes them do, are as few
\* as any that suffice.
LEMMA SelectionFewest ==
  ASSUME NEW E \in SUBSET Notes, NEW required \in Nat,
         NEW S \in Selections(E, required),
         NEW T \in SUBSET E, T # {}, Total(T) >= required
  PROVE  Cardinality(T) >= Cardinality(S)
<1> SUFFICES ASSUME Cardinality(T) < Cardinality(S) PROVE FALSE
  <2>1. Cardinality(T) \in Nat /\ Cardinality(S) \in Nat
    BY NotesAssumption, FS_Subset, FS_CardinalityType DEF Selections
  <2> QED BY <2>1
<1>1. /\ S \in SUBSET E /\ S \in SUBSET Notes /\ T \in SUBSET Notes
      /\ \A n \in S, m \in E \ S : Amount[n] >= Amount[m]
  BY DEF Selections
<1>2. PICK n \in S : /\ \A m \in S : Amount[n] <= Amount[m]
                     /\ S = {n} \/ Total(S \ {n}) < required
  BY DEF Selections
<1>3. \A W \in SUBSET Notes : Total(W) \in Nat /\ IsFiniteSet(W)
                                /\ Cardinality(W) \in Nat
  BY NotesAssumption, TotalNumber, FS_Subset, FS_CardinalityType
<1>4. CASE S = {n}
  <2>1. Cardinality(S) = 1 BY <1>4, FS_Singleton
  <2>2. Cardinality(T) # 0 BY <1>1, <1>3, FS_EmptySet
  <2> QED BY <1>1, <1>3, <2>1, <2>2
<1>5. CASE Total(S \ {n}) < required
  <2> DEFINE W == S \ {n}
  <2>1. W \in SUBSET Notes BY <1>1
  <2>2. Cardinality(W) = Cardinality(S) - 1
    BY <1>1, <1>3, FS_RemoveElement
  <2>3. Cardinality(T) <= Cardinality(W) BY <1>1, <1>3, <2>2
  <2>4. \A i \in W \ T, j \in T \ W : Amount[i] >= Amount[j]
    BY <1>1, <1>2, AmountAssumption
  <2>5. Total(T) <= Total(W) BY <1>1, <2>1, <2>3, <2>4, LargestSuffice
  <2> QED BY <1>1, <1>3, <1>5, <2>1, <2>5
<1> QED BY <1>2, <1>4, <1>5

\* A set of numbers that is not empty has a least one.
LEMMA LeastNumber ==
  ASSUME NEW A, A \subseteq Nat, A # {} PROVE \E a \in A : \A b \in A : a <= b
<1> DEFINE R == OpToRel(<, Nat)
<1>1. IsWellFoundedOn(R, Nat) BY NatLessThanWellFounded
<1> HIDE DEF R
<1>2. PICK a \in A : \A b \in A : <<b, a>> \notin R BY <1>1, WFMin
<1>3. \A b \in A : ~(b < a) BY <1>2 DEF R, OpToRel
<1> QED BY <1>3

\* When all notes suffice, some selection is found.
LEMMA SelectionFound ==
  ASSUME NEW E \in SUBSET Notes, NEW required \in Nat,
         E # {}, Total(E) >= required
  PROVE  Selections(E, required) # {}
<1> DEFINE Enough(S) == /\ S # {} /\ Total(S) >= required
                        /\ \A n \in S, m \in E \ S : Amount[n] >= Amount[m]
           B == {S \in SUBSET E : Enough(S)}
<1>1. B # {} /\ B \subseteq SUBSET E
  <2>1. E \in B OBVIOUS
  <2> QED BY <2>1
<1>2. \A W \in SUBSET Notes : Total(W) \in Nat /\ IsFiniteSet(W)
  BY NotesAssumption, TotalNumber, FS_Subset
<1>3. PICK S \in B : \A T \in B : T \subseteq S => T = S
  <2> HIDE DEF B
  <2> QED BY <1>1, <1>2, LeastSubset
<1>4. PICK n \in S : \A m \in S : Amount[n] <= Amount[m]
  <2> DEFINE A == {Amount[m] : m \in S}
  <2>1. A # {} /\ A \subseteq Nat BY <1>3, AmountAssumption
  <2> HIDE DEF A
  <2>2. PICK a \in A : \A b \in A : a <= b BY <2>1, LeastNumber
  <2> QED BY <2>2 DEF A
<1>5. S = {n} \/ Total(S \ {n}) < required
  <2> SUFFICES ASSUME S # {n}, ~(Total(S \ {n}) < required) PROVE FALSE
    OBVIOUS
  <2>1. S \ {n} \in SUBSET Notes /\ S \ {n} # {} /\ S \ {n} # S BY <1>3
  <2>2. Total(S \ {n}) >= required BY <1>2, <2>1
  <2>3. \A i \in S \ {n}, m \in E \ (S \ {n}) : Amount[i] >= Amount[m]
    BY <1>3, <1>4, AmountAssumption
  <2>4. S \ {n} \in B BY <2>1, <2>2, <2>3
  <2> QED BY <1>3, <2>1, <2>4
<1>6. S \in Selections(E, required) BY <1>3, <1>4, <1>5 DEF Selections
<1> QED BY <1>6
-----------------------------------------------------------------------------
\* The planner's steps leave the view server alone.
LEMMA ViewKept ==
  ASSUME ViewInv, UNCHANGED viewVars PROVE ViewInv'
<1>1. UNCHANGED <<at, stored, window, server, mem, fed, doing, flushed, broken>>
  BY DEF viewVars, procVars
<1>2. Reached' = Reached /\ From' = From /\ NextBlock' = NextBlock
  BY <1>1 DEF Reached, From, NextBlock
<1>3. ViewTypeOK' /\ Orderly'
  BY <1>1, <1>2 DEF ViewInv, ViewTypeOK, Orderly
<1>4. StoredExact' /\ MemoryExact' /\ FlushedExact'
  BY <1>1, <1>2 DEF ViewInv, StoredExact, MemoryExact, FlushedExact, Own
<1>5. WindowAhead'
  BY <1>1, <1>2 DEF ViewInv, WindowAhead, WindowAt
<1> QED
  BY <1>3, <1>4, <1>5 DEF ViewInv

\* The notes chosen for one more action join the spends of the plan.
LEMMA SpendsGrow ==
  ASSUME PlanTypeOK, NEW S, chosen' = Append(chosen, S)
  PROVE  Spends' = Spends \cup S
<1>1. chosen \in Seq(SUBSET Notes)
  BY DEF PlanTypeOK
<1>2. DOMAIN chosen = 1..Len(chosen) /\ Len(chosen) \in Nat
  BY <1>1
<1>3. /\ DOMAIN chosen' = DOMAIN chosen \cup {Len(chosen) + 1}
      /\ \A i \in DOMAIN chosen : chosen'[i] = chosen[i]
      /\ chosen'[Len(chosen) + 1] = S
  BY <1>1, <1>2
<1> QED
  BY <1>3 DEF Spends

\* What a selection picks is stored, unspent and recent.
LEMMA SelectionStored ==
  ASSUME NEW a, NEW r, NEW S \in Selections(Eligible(a), r)
  PROVE  \A n \in S : n \in stored.notes /\ at[n] >= floor
  BY DEF Selections, Eligible, Unspent

\* A step of the planner keeps its types, and chooses from what is stored.
LEMMA PlannerStepKeeps ==
  ASSUME ViewInv, PlanTypeOK, ChosenStored, PlannerNext, UNCHANGED viewVars
  PROVE  PlanTypeOK' /\ ChosenStored'
<1> USE NoneAssumption
<1>1. UNCHANGED <<at, stored, window>>
  BY DEF viewVars
<1>2. stored.notes \in SUBSET Notes /\ window \in Heights \cup {None}
  BY DEF ViewInv, ViewTypeOK
<1>3. CASE SelectNotes
  <2> DEFINE a == request[Len(chosen) + 1]
             E == Eligible(a.asset)
  <2>1. E \in SUBSET Notes
    BY <1>2 DEF Eligible, Unspent
  <2>2. /\ phase = "select" /\ offered' = Append(offered, E)
        /\ UNCHANGED <<spent, request, floor>>
        /\ \/ phase' = "rejected" /\ chosen' = chosen
           \/ /\ phase' \in {"maintenance", "select", "parameters"}
              /\ \E S \in Selections(E, a.amount) :
                   chosen' = Append(chosen, S)
    BY <1>3 DEF SelectNotes
  <2>3. CASE chosen' = chosen /\ phase' = "rejected"
    BY <1>1, <2>1, <2>2, <2>3 DEF PlanTypeOK, ChosenStored, Spends
  <2>4. ASSUME NEW S \in Selections(E, a.amount), chosen' = Append(chosen, S),
               phase' \in {"maintenance", "select", "parameters"}
        PROVE  PlanTypeOK' /\ ChosenStored'
    <3>1. S \in SUBSET Notes
      BY <2>1, <2>4 DEF Selections
    <3>2. \A n \in S : n \in stored.notes /\ at[n] >= floor
      BY <2>4, SelectionStored
    <3>3. Spends' = Spends \cup S
      BY <2>4, SpendsGrow
    <3>4. PlanTypeOK'
      BY <2>1, <2>2, <2>4, <3>1 DEF PlanTypeOK
    <3>5. floor \in Heights
      BY <2>2 DEF ChosenStored
    <3> QED
      BY <1>1, <2>2, <3>2, <3>3, <3>4, <3>5 DEF ChosenStored
  <2> QED
    BY <2>2, <2>3, <2>4
<1>4. ASSUME NEW r \in Requests, Plan(r)
      PROVE  PlanTypeOK' /\ ChosenStored'
  BY <1>1, <1>4 DEF Plan, PlanTypeOK, ChosenStored, Spends
<1>5. CASE ReadWindow
  <2>1. chosen' = <<>>
    BY <1>5 DEF ReadWindow, ChosenStored
  <2>2. Spends' = {}
    BY <2>1 DEF Spends
  <2>3. phase' \in {"select", "rejected"} /\ floor' = window
        /\ (phase' = "select" => window # None)
    BY <1>5 DEF ReadWindow
  <2>4. PlanTypeOK'
    BY <1>2, <1>5, <2>1, <2>3 DEF ReadWindow, PlanTypeOK
  <2> QED
    BY <1>2, <2>1, <2>2, <2>3, <2>4 DEF ChosenStored
<1>6. CASE ReadParameters
  BY <1>1, <1>6 DEF ReadParameters, PlanTypeOK, ChosenStored, Spends
<1>7. CASE EnrichTransfers
  BY <1>1, <1>7 DEF EnrichTransfers, PlanTypeOK, ChosenStored, Spends
<1>8. CASE EnrichWithdrawals
  BY <1>1, <1>8 DEF EnrichWithdrawals, PlanTypeOK, ChosenStored, Spends
<1>9. CASE PlanFails
  BY <1>1, <1>9 DEF PlanFails, PlanTypeOK, ChosenStored, Spends
<1>10. ASSUME NEW n \in Notes, NoteSpent(n)
       PROVE  PlanTypeOK' /\ ChosenStored'
  BY <1>1, <1>10 DEF NoteSpent, planVars, PlanTypeOK, ChosenStored, Spends
<1> QED
  BY <1>3, <1>4, <1>5, <1>6, <1>7, <1>8, <1>9, <1>10 DEF PlannerNext
-----------------------------------------------------------------------------
\* Nothing is stored, and memory is what is stored.
LEMMA InitIInv == WalletInit => IInv
<1> SUFFICES ASSUME WalletInit PROVE IInv
  OBVIOUS
<1> USE NoneAssumption, HeightAssumption, ChunkAssumption DEF WalletInit
<1>1. Blocks(None) = 0
  BY DEF Blocks
<1>2. /\ at \in [Notes -> Heights] /\ stored = Empty /\ mem = Loaded
      /\ window = None /\ server = TRUE /\ fed = 0 /\ doing = None
      /\ flushed = None /\ broken = FALSE
  BY DEF Init
<1>3. Own(None) = {}
  <2>1. \A n \in Notes : at[n] \in Nat
    BY <1>2 DEF Heights
  <2> QED
    BY <1>1, <2>1 DEF Own
<1>4. Empty.tree \in Tree /\ 0 \in Size
  BY <1>1 DEF Empty, Chain, Tree, Slots, Heights, Size
<1>5. ViewTypeOK
  <2>1. stored \in [tree : Tree, size : Size, kept : SUBSET Notes,
                    notes : SUBSET Notes, height : Heights \cup {None}]
    BY <1>2, <1>4 DEF Empty
  <2>2. mem \in [tree : Tree, size : Size, kept : SUBSET Notes,
                 notes : SUBSET Notes, height : Heights \cup {None},
                 last : Size \cup {None}, advice : SUBSET Notes]
    BY <1>2, <1>4 DEF Empty, Loaded
  <2>3. fed \in 0..Chunks
    BY <1>2
  <2> QED
    BY <1>2, <2>1, <2>2, <2>3 DEF ViewTypeOK
<1>6. Reached = None /\ From = 0
  BY <1>2 DEF Reached, From, Empty, Loaded
<1>7. Orderly /\ FlushedExact
  BY <1>2 DEF Orderly, FlushedExact
<1>8. StoredExact /\ MemoryExact
  BY <1>1, <1>2, <1>3, <1>6 DEF StoredExact, MemoryExact, Empty, Loaded
<1>9. WindowAhead
  <2>1. \A h \in Carries : ~(h < 0)
    BY WindowAssumption
  <2> QED
    BY <1>1, <1>2, <1>6, <2>1 DEF WindowAhead, WindowAt, Empty
<1>10. PlanTypeOK /\ ChosenStored
  BY DEF PlanInit, PlanTypeOK, ChosenStored, Spends
<1> QED
  BY <1>5, <1>7, <1>8, <1>9, <1>10 DEF IInv, TypeOK

\* The inductive invariant of the wallet: storage holds a prefix of the chain,
\* memory a longer one, what is flushed connects the two, and a plan chooses
\* from storage.
THEOREM InvariantHolds == Spec => []IInv
<1>1. ASSUME IInv, [WalletNext]_vars PROVE IInv'
  <2>1. ViewInv /\ PlanTypeOK /\ ChosenStored
    BY <1>1 DEF IInv, TypeOK, ViewInv
  <2>2. CASE ViewStep
    <3>1. ViewInv' /\ stored.notes \subseteq stored'.notes /\ at' = at
      BY <2>1, <2>2, ViewNextStep DEF ViewStep
    <3>2. UNCHANGED <<spent, phase, request, floor, chosen, offered>>
      BY <2>2 DEF ViewStep, planVars
    <3>3. PlanTypeOK'
      BY <2>1, <3>2 DEF PlanTypeOK
    <3>4. ChosenStored'
      BY <2>1, <3>1, <3>2 DEF ChosenStored, Spends
    <3> QED
      BY <3>1, <3>3, <3>4 DEF IInv, TypeOK, ViewInv
  <2>3. CASE PlannerStep
    <3>1. ViewInv' /\ PlanTypeOK' /\ ChosenStored'
      BY <2>1, <2>3, ViewKept, PlannerStepKeeps DEF PlannerStep
    <3> QED
      BY <3>1 DEF IInv, TypeOK, ViewInv
  <2>4. CASE UNCHANGED vars
    <3>1. ViewInv'
      BY <2>1, <2>4, ViewKept DEF vars
    <3>2. UNCHANGED <<at, stored, spent, phase, request, floor, chosen, offered>>
      BY <2>4 DEF vars, viewVars, planVars
    <3>3. PlanTypeOK' /\ ChosenStored'
      BY <2>1, <3>2 DEF PlanTypeOK, ChosenStored, Spends
    <3> QED
      BY <3>1, <3>3 DEF IInv, TypeOK, ViewInv
  <2> QED
    BY <1>1, <2>2, <2>3, <2>4 DEF WalletNext
<1> QED
  BY InitIInv, <1>1, PTL DEF Spec

\* Storage, server and planner keep their types.
THEOREM TypeCorrect == Spec => []TypeOK
<1>1. IInv => TypeOK
  BY DEF IInv
<1> QED
  BY InvariantHolds, <1>1, PTL

\* What is stored is what scanning the chain up to the stored height finds,
\* through failures, resets and crashes.
THEOREM StorageIsPrefix == Spec => []StoredIsPrefix
<1>1. IInv => StoredIsPrefix
  BY DEF IInv, StoredExact, StoredIsPrefix
<1> QED
  BY InvariantHolds, <1>1, PTL

\* The tree in memory is the chain's up to the last scanned block, and no note
\* of it is lost between memory, a flush and storage.
THEOREM ServerIsPrefix == Spec => []MemoryIsPrefix
<1>1. IInv => MemoryIsPrefix
  BY DEF IInv, MemoryExact, MemoryIsPrefix, Reached
<1> QED
  BY InvariantHolds, <1>1, PTL

\* Storage never goes back: what was saved in one run of the server is never
\* replaced by an older state, whichever later run saves.
THEOREM StorageOnlyGrows ==
  Spec => [][/\ Blocks(stored.height) <= Blocks(stored'.height)
             /\ stored.notes \subseteq stored'.notes
             /\ stored.kept \subseteq stored'.kept]_vars
<1> DEFINE Grows == /\ Blocks(stored.height) <= Blocks(stored'.height)
                    /\ stored.notes \subseteq stored'.notes
                    /\ stored.kept \subseteq stored'.kept
<1>1. IInv /\ [WalletNext]_vars => Grows
  <2> SUFFICES ASSUME IInv, [WalletNext]_vars PROVE Grows
    OBVIOUS
  <2>1. ViewInv BY DEF IInv, TypeOK, ViewInv
  <2>2. Blocks(stored.height) \in Nat BY <2>1, Numbers DEF ViewInv
  <2>3. CASE stored' = stored BY <2>2, <2>3
  <2>4. CASE Save
    <3>1. /\ flushed # None /\ stored'.height = flushed.height
          /\ stored'.notes = stored.notes \cup flushed.notes
          /\ stored'.kept = stored.kept \cup flushed.kept
      BY <2>4 DEF Save
    <3>2. server /\ flushed.height = mem.height /\ mem.height # None
      BY <2>1, <3>1 DEF ViewInv, Orderly, FlushedExact
    <3>3. Blocks(stored.height) <= Blocks(Reached) /\ Reached = mem.height
      BY <2>1, <3>2 DEF ViewInv, MemoryExact, Reached
    <3> QED BY <3>1, <3>2, <3>3
  <2>5. Save \/ stored' = stored
    BY DEF WalletNext, ViewStep, ViewNext, PlannerStep, vars, viewVars, Load,
           ScanGenesisChunk, ScanBegins, PersistPlanningState, ScanEnds,
           CallFails, FlushUpdates, SaveFails, Crash
  <2> QED BY <2>3, <2>4, <2>5
<1> QED BY <1>1, InvariantHolds, PTL DEF Spec

\* The nullifier window in storage is never older than the notes there.
THEOREM WindowIsNotBehind == Spec => []WindowNotBehind
<1>1. IInv => WindowNotBehind
  BY DEF IInv, WindowAhead, WindowAt, WindowNotBehind
<1> QED
  BY InvariantHolds, <1>1, PTL

\* A plan is witnessed whenever that is asked for: its notes are recent by its
\* own window, and in the stored tree.
THEOREM PlansAreWitnessed == Spec => []PlanIsWitnessed
<1>1. IInv => PlanIsWitnessed
  <2>1. SUFFICES ASSUME IInv, NEW n \in Spends
                 PROVE  /\ at[n] >= floor /\ n \in stored.kept
                        /\ \E i \in 1..stored.size : stored.tree[i] = at[n]
    BY DEF PlanIsWitnessed, Witnessed
  <2>2. /\ at[n] >= floor /\ n \in stored.notes
        /\ stored.kept = Own(stored.height) /\ stored.notes = Own(stored.height)
        /\ stored.size = Blocks(stored.height)
        /\ stored.tree = Chain(stored.height)
    BY <2>1 DEF IInv, ChosenStored, StoredExact
  <2>3. /\ n \in Notes /\ at[n] \in Heights
        /\ stored.height \in Heights \cup {None}
    BY <2>1, <2>2 DEF IInv, TypeOK, ViewTypeOK, Own
  <2>4. at[n] \in Nat /\ at[n] < Blocks(stored.height)
    BY <2>2, <2>3 DEF Own, Heights
  <2>5. Blocks(stored.height) \in Nat /\ at[n] + 1 \in 1..stored.size
    BY <2>2, <2>3, <2>4, BlocksNumber
  <2>6. at[n] + 1 \in Slots
    BY <2>3, HeightAssumption DEF Heights, Slots
  <2>7. stored.tree[at[n] + 1] = at[n]
    BY <2>2, <2>4, <2>5, <2>6 DEF Chain
  <2> QED
    BY <2>2, <2>5, <2>7
<1> QED
  BY InvariantHolds, <1>1, PTL

\* The nonces of a plan on its way through the two fetches.
NonceInv ==
  /\ phase \in {"transfers", "withdrawals"} => DOMAIN nonce = DOMAIN request
  /\ phase = "withdrawals" => \A i \in Transfers : nonce[i] = Shared
  /\ phase = "planned" => \A i \in DOMAIN request : nonce[i] = Shared

\* All actions of a plan have the blinding nonce of one of them, whatever the
\* request: the withdrawals take up the transfers' one.
THEOREM NonceIsShared == Spec => []NonceShared
<1>1. WalletInit => NonceInv
  BY DEF WalletInit, PlanInit, NonceInv
<1>2. ASSUME NonceInv, [WalletNext]_vars PROVE NonceInv'
  <2>1. CASE PlannerNext
    <3>1. ASSUME NEW r \in Requests, Plan(r) PROVE NonceInv'
      BY <3>1 DEF Plan, NonceInv
    <3>2. CASE ReadWindow
      BY <3>2 DEF ReadWindow, NonceInv
    <3>3. CASE SelectNotes
      BY <3>3 DEF SelectNotes, NonceInv
    <3>4. CASE ReadParameters
      BY <3>4 DEF ReadParameters, NonceInv
    <3>5. CASE EnrichTransfers
      <4>1. Transfers' = Transfers /\ Shared' = Shared
        BY <3>5 DEF EnrichTransfers, Transfers, Shared
      <4>2. Transfers \subseteq DOMAIN request
        BY DEF Transfers
      <4> QED
        BY <1>2, <3>5, <4>1, <4>2 DEF EnrichTransfers, NonceInv
    <3>6. CASE EnrichWithdrawals
      <4>1. Shared' = Shared
        BY <3>6 DEF EnrichWithdrawals, Transfers, Shared
      <4> QED
        BY <1>2, <3>6, <4>1 DEF EnrichWithdrawals, NonceInv
    <3>7. CASE PlanFails
      BY <3>7 DEF PlanFails, NonceInv
    <3>8. ASSUME NEW n \in Notes, NoteSpent(n) PROVE NonceInv'
      BY <1>2, <3>8 DEF NoteSpent, planVars, NonceInv, Transfers, Shared
    <3> QED
      BY <2>1, <3>1, <3>2, <3>3, <3>4, <3>5, <3>6, <3>7, <3>8 DEF PlannerNext
  <2>2. CASE UNCHANGED planVars
    BY <1>2, <2>2 DEF planVars, NonceInv, Transfers, Shared
  <2> QED
    BY <1>2, <2>1, <2>2 DEF WalletNext, ViewStep, PlannerStep, vars
<1>3. NonceInv => NonceShared
  BY DEF NonceInv, NonceShared
<1> QED
  BY <1>1, <1>2, <1>3, PTL DEF Spec

\* Each action for which notes are chosen has a selection among those it was
\* offered, until one is rejected.
Selected ==
  /\ phase \in {"idle", "window"} => chosen = <<>> /\ offered = <<>>
  /\ phase = "select" => Len(offered) = Len(chosen)
                         /\ Len(chosen) < Len(request)
  /\ Len(chosen) <= Len(offered) /\ Len(chosen) <= Len(request)
  /\ \A i \in DOMAIN chosen :
       chosen[i] \in Selections(offered[i], request[i].amount)

\* A request is a sequence of actions.
LEMMA RequestIsSequence ==
  ASSUME PlanTypeOK
  PROVE  /\ Len(request) \in Nat /\ DOMAIN request = 1 .. Len(request)
         /\ \A i \in DOMAIN request : request[i].amount \in Nat
<1>1. CASE request = <<>> BY <1>1
<1>2. CASE request \in Requests
  <2> DEFINE A == {request[i] : i \in DOMAIN request}
  <2>1. /\ request \in Seq(A)
        /\ \A i \in DOMAIN request : request[i].amount \in Nat
    BY <1>2, RequestsAssumption
  <2> HIDE DEF A
  <2> QED BY <2>1
<1> QED BY <1>1, <1>2 DEF PlanTypeOK

\* A selection is one more, for the next action.
LEMMA SelectNotesStep ==
  ASSUME PlanTypeOK, Selected, SelectNotes PROVE Selected'
<1> DEFINE k == Len(chosen)
           a == request[k + 1]
           E == Eligible(a.asset)
<1>1. /\ chosen \in Seq(SUBSET Notes) /\ offered \in Seq(SUBSET Notes)
      /\ k \in Nat /\ Len(request) \in Nat
  BY RequestIsSequence DEF PlanTypeOK
<1>2. /\ Len(offered) = k /\ k < Len(request) /\ k <= Len(request)
      /\ \A i \in DOMAIN chosen :
           chosen[i] \in Selections(offered[i], request[i].amount)
  BY DEF Selected, SelectNotes
<1>3. offered' = Append(offered, E) /\ request' = request
  BY DEF SelectNotes
<1>4. /\ Len(offered') = k + 1 /\ offered'[k + 1] = E
      /\ \A i \in 1 .. k : offered'[i] = offered[i]
  <2> HIDE DEF E
  <2> QED BY <1>1, <1>2, <1>3
<1>5. CASE chosen' = chosen /\ phase' = "rejected"
  <2>1. Len(chosen') = k /\ \A i \in DOMAIN chosen : i \in 1 .. k
    BY <1>1, <1>5
  <2>2. \A i \in DOMAIN chosen' :
          chosen'[i] \in Selections(offered'[i], request'[i].amount)
    BY <1>2, <1>3, <1>4, <1>5, <2>1
  <2> HIDE DEF E
  <2> QED BY <1>1, <1>2, <1>3, <1>4, <1>5, <2>1, <2>2 DEF Selected
<1>6. ASSUME NEW S \in Selections(E, a.amount), chosen' = Append(chosen, S),
             phase' \in {"maintenance", "select", "parameters"},
             phase' = "select" => Len(chosen') < Len(request)
      PROVE  Selected'
  <2>1. /\ Len(chosen') = k + 1 /\ chosen'[k + 1] = S
        /\ DOMAIN chosen' = 1 .. (k + 1)
        /\ \A i \in 1 .. k : chosen'[i] = chosen[i]
    BY <1>1, <1>6
  <2>2. ASSUME NEW i \in 1 .. (k + 1)
        PROVE  chosen'[i] \in Selections(offered'[i], request[i].amount)
    <3>1. CASE i \in 1 .. k BY <1>1, <1>2, <1>4, <2>1, <3>1
    <3>2. CASE i = k + 1 BY <1>4, <1>6, <2>1, <3>2
    <3> QED BY <1>1, <3>1, <3>2
  <2>3. \A i \in DOMAIN chosen' :
          chosen'[i] \in Selections(offered'[i], request'[i].amount)
    BY <1>3, <2>1, <2>2
  <2> HIDE DEF E
  <2> QED BY <1>1, <1>2, <1>3, <1>4, <1>6, <2>1, <2>3 DEF Selected
<1>7. \/ chosen' = chosen /\ phase' = "rejected"
      \/ /\ phase' \in {"maintenance", "select", "parameters"}
         /\ phase' = "select" => Len(chosen') < Len(request)
         /\ \E S \in Selections(E, a.amount) : chosen' = Append(chosen, S)
  BY DEF SelectNotes
<1> QED BY <1>5, <1>6, <1>7

\* Every step keeps what holds of the selections.
LEMMA SelectedStep ==
  ASSUME PlanTypeOK, Selected, [WalletNext]_vars PROVE Selected'
<1>s. ASSUME UNCHANGED <<request, chosen, offered>>,
             phase' = phase \/ phase' \notin {"idle", "window", "select"}
      PROVE  Selected'
  BY <1>s DEF Selected, Selections
<1>1. CASE PlannerNext
  <2>1. ASSUME NEW r \in Requests, Plan(r) PROVE Selected'
    <3>1. chosen' = <<>> /\ offered' = <<>> /\ phase' = "window"
          /\ request' = r
      BY <2>1 DEF Plan, Selected
    <3>2. Len(r) \in Nat BY RequestsAssumption
    <3> QED BY <3>1, <3>2 DEF Selected
  <2>2. CASE ReadWindow
    <3>1. /\ chosen' = <<>> /\ offered' = <<>> /\ phase' # "window"
          /\ phase' = "select" => request # <<>>
          /\ request' = request
      BY <2>2 DEF ReadWindow, Selected, Supported
    <3>2. Len(request) \in Nat /\ (request # <<>> => Len(request) > 0)
      BY RequestsAssumption DEF PlanTypeOK
    <3> QED BY <3>1, <3>2 DEF Selected
  <2>3. CASE SelectNotes BY <2>3, SelectNotesStep
  <2>4. CASE ReadParameters \/ EnrichTransfers \/ EnrichWithdrawals
             \/ PlanFails
    BY <1>s, <2>4 DEF ReadParameters, EnrichTransfers, EnrichWithdrawals,
                      PlanFails
  <2>5. ASSUME NEW n \in Notes, NoteSpent(n) PROVE Selected'
    BY <1>s, <2>5 DEF NoteSpent, planVars
  <2> QED BY <1>1, <2>1, <2>2, <2>3, <2>4, <2>5 DEF PlannerNext
<1>2. CASE UNCHANGED planVars BY <1>2, <1>s DEF planVars
<1> QED BY <1>1, <1>2 DEF WalletNext, ViewStep, PlannerStep, vars

\* The notes selected for an action pay for it, and no fewer of those offered
\* would: the planner asks for note maintenance only where it is needed.
THEOREM SelectionIsMinimal == Spec => []SelectionMinimal
<1>1. WalletInit => Selected
  BY DEF WalletInit, PlanInit, Selected
<1>2. PlanTypeOK /\ Selected /\ [WalletNext]_vars => Selected'
  BY SelectedStep
<1>3. PlanTypeOK /\ Selected => SelectionMinimal
  <2> SUFFICES ASSUME PlanTypeOK, Selected, NEW i \in DOMAIN chosen
               PROVE  /\ Total(chosen[i]) >= request[i].amount
                      /\ \A S \in SUBSET offered[i] :
                           (S # {} /\ Total(S) >= request[i].amount)
                             => Cardinality(S) >= Cardinality(chosen[i])
    BY DEF SelectionMinimal
  <2>1. /\ i \in DOMAIN offered /\ i \in DOMAIN request
        /\ chosen[i] \in Selections(offered[i], request[i].amount)
    BY RequestIsSequence DEF PlanTypeOK, Selected
  <2>2. offered[i] \in SUBSET Notes /\ request[i].amount \in Nat
    BY <2>1, RequestIsSequence DEF PlanTypeOK
  <2>3. Total(chosen[i]) >= request[i].amount
    BY <2>1 DEF Selections
  <2>4. ASSUME NEW S \in SUBSET offered[i], S # {},
               Total(S) >= request[i].amount
        PROVE  Cardinality(S) >= Cardinality(chosen[i])
    BY <2>1, <2>2, <2>4, SelectionFewest
  <2> QED BY <2>3, <2>4
<1> QED BY <1>1, <1>2, <1>3, TypeCorrect, PTL DEF Spec, TypeOK

\* The planner turns an action down for want of notes only when all the notes
\* it may use do not pay for it.
THEOREM RejectsOnlyWhenShort ==
  Spec => [][SelectNotes /\ phase' = "rejected" =>
               LET a == request[Len(chosen) + 1]
                   E == Eligible(a.asset)
               IN  E = {} \/ Total(E) < a.amount]_vars
<1> DEFINE a == request[Len(chosen) + 1]
           E == Eligible(a.asset)
           Short == SelectNotes /\ phase' = "rejected"
                      => E = {} \/ Total(E) < a.amount
<1>1. WalletInit => Selected
  BY DEF WalletInit, PlanInit, Selected
<1>2. PlanTypeOK /\ Selected /\ [WalletNext]_vars => Selected'
  BY SelectedStep
<1>3. ViewTypeOK /\ PlanTypeOK /\ Selected => Short
  <2> SUFFICES ASSUME ViewTypeOK, PlanTypeOK, Selected, SelectNotes,
                      phase' = "rejected", E # {}, ~(Total(E) < a.amount)
               PROVE  FALSE
    OBVIOUS
  <2>1. Selections(E, a.amount) = {} BY DEF SelectNotes
  <2>2. E \in SUBSET Notes BY DEF Eligible, Unspent, ViewTypeOK
  <2>3. Len(chosen) + 1 \in DOMAIN request
    BY RequestIsSequence DEF PlanTypeOK, Selected, SelectNotes
  <2>4. a.amount \in Nat BY <2>3, RequestIsSequence
  <2>5. Total(E) >= a.amount BY <2>2, <2>4, TotalNumber
  <2> QED BY <2>1, <2>2, <2>4, <2>5, SelectionFound
<1> QED BY <1>1, <1>2, <1>3, TypeCorrect, PTL DEF Spec, TypeOK
=============================================================================
