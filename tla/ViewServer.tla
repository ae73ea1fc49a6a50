----------------------------- MODULE ViewServer -----------------------------
(***************************************************************************)
(* The view server of packages/wasm: it scans the blocks of the chain for  *)
(* the notes of one wallet and keeps the state commitment tree in memory;  *)
(* what it has found is flushed and saved from time to time.               *)
(*                                                                         *)
(* Its caller, the block processor, is external: it feeds the blocks in    *)
(* order, saves what flush_updates() returns in one transaction together   *)
(* with the height, and resets the server to what is stored when that      *)
(* failed.  The program may stop at any moment.  While an async call is    *)
(* under way wasm-bindgen refuses every other call of the object, so that  *)
(* the processor's calls do not interleave with each other; they do with   *)
(* whatever reads the storage.                                             *)
(*                                                                         *)
(* A tree is what block each of its slots holds: the root inserted for a   *)
(* block and its commitments inserted one by one are the same content.     *)
(* The end of an epoch only moves the position.  A wallet's blocks before  *)
(* its birthday, for which trial decryption is skipped, hold none of its   *)
(* notes.                                                                  *)
(***************************************************************************)
EXTENDS Naturals, FiniteSets

CONSTANTS
  Notes,      \* the wallet's notes on the chain
  MaxHeight,  \* bound: the newest block
  Chunks,     \* parts in which the genesis block is scanned
  Part,       \* the part in which each note would be
  Recent,     \* blocks whose notes need no historical proof
  Carries,    \* blocks that carry a nullifier window
  None
ASSUME NotesAssumption == IsFiniteSet(Notes)
ASSUME HeightAssumption == MaxHeight \in Nat
ASSUME ChunkAssumption == Chunks \in Nat \ {0} /\ Part \in [Notes -> 1..Chunks]
ASSUME WindowAssumption == Recent \in Nat /\ Carries \subseteq 0..MaxHeight
ASSUME NoneAssumption == None \notin Nat /\ None # "persist" /\ None # "scan"

Heights == 0..MaxHeight
Slots == 1..(MaxHeight + 1)
Tree == [Slots -> Heights \cup {None}]
Size == 0..(MaxHeight + 1)

\* A ScanBlockResult, with the position from which it has the tree's changes.
Updates == [from : Size, tree : Tree, size : Size, kept : SUBSET Notes,
            notes : SUBSET Notes, height : Heights]
ASSUME UpdatesAssumption == None \notin Updates

VARIABLES
  at,       \* the chain: the block that holds each note
  stored,   \* what the processor has saved
  window,   \* the nullifier window in storage: the lowest recent block
  server,   \* the object is there
  mem,      \* ... and its fields
  fed,      \* parts of the genesis block it has been fed
  doing,    \* the async call under way
  flushed,  \* what has been flushed and not saved
  broken    \* saving failed, and the processor has not reset the server yet

procVars == <<server, mem, fed, doing, flushed, broken>>
viewVars == <<at, stored, window, procVars>>

Blocks(h) == IF h = None THEN 0 ELSE h + 1
Chain(h) == [i \in Slots |-> IF i <= Blocks(h) THEN i - 1 ELSE None]
Own(h) == {n \in Notes : at[n] < Blocks(h)}
Floor(h) == IF h > Recent THEN h - Recent ELSE 0

Empty == [tree |-> Chain(None), size |-> 0, kept |-> {}, notes |-> {},
          height |-> None]

\* new(): the tree is loaded, nothing is known of what was emitted before.
Loaded ==
  [tree |-> stored.tree, size |-> stored.size, kept |-> stored.kept,
   notes |-> {}, height |-> None, last |-> None, advice |-> {}]

Init ==
  /\ at \in [Notes -> Heights]
  /\ stored = Empty /\ window = None
  /\ server = TRUE /\ mem = Loaded
  /\ fed = 0 /\ doing = None /\ flushed = None /\ broken = FALSE
-----------------------------------------------------------------------------
Idle == server /\ doing = None /\ flushed = None /\ ~broken

\* The processor's next block.
NextBlock == Blocks(IF mem.height = None THEN stored.height ELSE mem.height)

\* The server is kept after a failure.
BugLoad ==
  /\ ~server \/ broken
  /\ server' = TRUE /\ mem' = IF server THEN mem ELSE Loaded
  /\ fed' = 0 /\ broken' = FALSE
  /\ UNCHANGED <<at, stored, window, doing, flushed>>

\* initialize(), and resetTreeToStored().
Load ==
  /\ ~server \/ broken
  /\ server' = TRUE /\ mem' = Loaded
  /\ fed' = 0 /\ broken' = FALSE
  /\ UNCHANGED <<at, stored, window, doing, flushed>>

\* scan_genesis_chunk(): the first part starts the advice anew.
ScanGenesisChunk ==
  /\ Idle /\ NextBlock = 0 /\ fed < Chunks
  /\ fed' = fed + 1
  /\ LET found == {n \in Notes : at[n] = 0 /\ Part[n] = fed + 1}
         before == IF fed = 0 THEN {} ELSE mem.advice
     IN  mem' = [mem EXCEPT !.advice = before \cup found]
  /\ UNCHANGED <<at, stored, window, server, doing, flushed, broken>>

\* genesis_advice() and scan_block() are called.
ScanBegins ==
  /\ Idle /\ NextBlock <= MaxHeight
  /\ NextBlock = 0 => fed = Chunks
  /\ doing' = "persist"
  /\ UNCHANGED <<at, stored, window, server, mem, fed, flushed, broken>>

\* The window of the genesis block is not written.
BugPersistPlanningState ==
  /\ doing = "persist"
  /\ doing' = "scan"
  /\ window' = IF NextBlock \in Carries \ {0} THEN Floor(NextBlock) ELSE window
  /\ UNCHANGED <<at, stored, server, mem, fed, flushed, broken>>

\* persist_planning_state(): the window goes to storage before anything else.
PersistPlanningState ==
  /\ doing = "persist"
  /\ doing' = "scan"
  /\ window' = IF NextBlock \in Carries THEN Floor(NextBlock) ELSE window
  /\ UNCHANGED <<at, stored, server, mem, fed, flushed, broken>>

\* The notes of the block that the wallet can read: the genesis block's are
\* the advice of its parts.
Found(h) == IF h = 0 THEN mem.advice ELSE {n \in Notes : at[n] = h}

\* A block that holds nothing for the wallet is not entered.
BugScanned(h) ==
  [mem EXCEPT !.tree = IF Found(h) = {} THEN @
                       ELSE [@ EXCEPT ![mem.size + 1] = h],
              !.size = IF Found(h) = {} THEN @ ELSE @ + 1,
              !.kept = @ \cup Found(h),
              !.notes = @ \cup Found(h),
              !.height = h]

\* The block is entered in the tree, the wallet's commitments are kept.
Scanned(h) ==
  [mem EXCEPT !.tree = [@ EXCEPT ![mem.size + 1] = h],
              !.size = @ + 1,
              !.kept = @ \cup Found(h),
              !.notes = @ \cup Found(h),
              !.height = h]

\* The last storage access has returned; the rest is synchronous.
ScanEnds ==
  /\ doing = "scan"
  /\ doing' = None
  /\ mem' = Scanned(NextBlock)
  /\ UNCHANGED <<at, stored, window, server, fed, flushed, broken>>

\* A storage access fails: the call is rejected before it has changed anything
\* in memory, and the processor may call again.  (The one way to fail later, an
\* insertion into a tree that is full, is left out.)
CallFails ==
  /\ doing # None
  /\ doing' = None
  /\ UNCHANGED <<at, stored, window, server, mem, fed, flushed, broken>>

From == IF mem.last = None THEN 0 ELSE mem.last

\* Flushed before any block was scanned: the height is the initial u64::MAX.
BugFlushUpdates ==
  /\ Idle
  /\ flushed' = [from |-> From, tree |-> mem.tree, size |-> mem.size,
                 kept |-> {n \in mem.kept : at[n] >= From},
                 notes |-> mem.notes, height |-> mem.height]
  /\ mem' = [mem EXCEPT !.notes = {},
                        !.last = IF mem.size = From THEN None ELSE mem.size]
  /\ UNCHANGED <<at, stored, window, server, fed, doing, broken>>

\* flush_updates(): what has changed in the tree since the last flush and the
\* new notes, which are forgotten here.  The position is only emitted, and
\* remembered, if it has moved.  The processor flushes what it has scanned:
\* latest_height is u64::MAX before.
FlushUpdates ==
  /\ Idle /\ mem.height # None
  /\ flushed' = [from |-> From, tree |-> mem.tree, size |-> mem.size,
                 kept |-> {n \in mem.kept : at[n] >= From},
                 notes |-> mem.notes, height |-> mem.height]
  /\ mem' = [mem EXCEPT !.notes = {},
                        !.last = IF mem.size = From THEN None ELSE mem.size]
  /\ UNCHANGED <<at, stored, window, server, fed, doing, broken>>
-----------------------------------------------------------------------------
\* The processor saves what was flushed: one transaction.
Save ==
  /\ flushed # None
  /\ flushed' = None
  /\ stored' = [tree |-> [i \in Slots |->
                            IF i > flushed.from THEN flushed.tree[i]
                            ELSE stored.tree[i]],
                size |-> flushed.size,
                kept |-> stored.kept \cup flushed.kept,
                notes |-> stored.notes \cup flushed.notes,
                height |-> flushed.height]
  /\ UNCHANGED <<at, window, server, mem, fed, doing, broken>>

SaveFails ==
  /\ flushed # None
  /\ flushed' = None /\ broken' = TRUE
  /\ UNCHANGED <<at, stored, window, server, mem, fed, doing>>

Crash ==
  /\ server
  /\ server' = FALSE /\ mem' = Loaded
  /\ fed' = 0 /\ doing' = None /\ flushed' = None /\ broken' = FALSE
  /\ UNCHANGED <<at, stored, window>>

ViewNext ==
  \/ Load \/ ScanGenesisChunk \/ ScanBegins \/ PersistPlanningState \/ ScanEnds
  \/ CallFails \/ FlushUpdates \/ Save \/ SaveFails \/ Crash
-----------------------------------------------------------------------------
\* What is stored is what scanning the chain up to the stored height finds:
\* nothing is skipped, entered twice or lost, whatever failed or was stopped.
StoredIsPrefix ==
  /\ stored.tree = Chain(stored.height)
  /\ stored.kept = Own(stored.height)
  /\ stored.notes = Own(stored.height)

\* The tree in memory is that of the chain up to the block scanned last, so that
\* get_sct_root() returns that block's root; each note of it is stored, flushed
\* or still in memory.
MemoryIsPrefix ==
  server =>
    /\ mem.tree = Chain(IF mem.height = None THEN stored.height ELSE mem.height)
    /\ mem.height # None =>
         /\ mem.kept = Own(mem.height)
         /\ ~broken => Own(mem.height) =
              stored.notes \cup mem.notes
                \cup (IF flushed = None THEN {} ELSE flushed.notes)

\* The window a plan is made with is that of a block at least as new as every
\* stored note's: it was written before the notes, and is not taken back beyond
\* them by scanning again.
WindowNotBehind ==
  \A h \in Carries :
    h < Blocks(stored.height) => window # None /\ window >= Floor(h)
=============================================================================
