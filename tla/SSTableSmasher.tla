--------------------------- MODULE SSTableSmasher ---------------------------
(***************************************************************************)
(* The compaction game of the start page (scripts/app/sstable-smasher.js,  *)
(* and the dialog around it in templates/index.html): tiles fall on the    *)
(* stacks of a ring, four of a kind in a row compact, tombstones shadow    *)
(* the tile beneath them and expire.  A compaction is followed 400 ms      *)
(* later by a look at its stack (a chain step); the timers have one delay, *)
(* so that they fire in the order they were set, whatever the user does    *)
(* meanwhile, and a new game does not clear them.                          *)
(*                                                                         *)
(* The score is left open: it depends on the time between compactions, and *)
(* all it decides is when a power-up is awarded.  So is which piece falls: *)
(* the queue of random pieces, the hold slot and the assist for a stuck    *)
(* ring decide nothing else.  Tiles are told apart within their stack      *)
(* only, where an id may be used again once nothing refers to it.  Drawing *)
(* and status texts are left out.                                          *)
(***************************************************************************)
EXTENDS Naturals, Sequences, SequencesExt, FiniteSets, FiniteSetsExt, Subsequences

CONSTANTS
    NumSectors,   \* NUM_SECTORS
    MaxRows,      \* MAX_ROWS
    RunSize,      \* tiles that compact (4 in the code)
    GCGrace,      \* GC_GRACE
    ShadowTurns,  \* SHADOW_TURNS
    MaxChain,     \* MAX_CHAIN
    Thresholds,   \* how many POWERUP_THRESHOLDS there are
    PowerupCap,   \* POWERUP_CAP
    MaxDrops,     \* bound: drops of a game
    MaxTimers     \* bound: timers of earlier games still running when one starts

ASSUME RingAssumption == NumSectors \in Nat \ {0} /\ MaxRows \in Nat \ {0} /\ RunSize \in Nat \ {0, 1}
ASSUME TurnsAssumption == GCGrace \in Nat \ {0} /\ ShadowTurns \in Nat \ {0} /\ MaxChain \in Nat
ASSUME AwardsAssumption == Thresholds \in Nat /\ PowerupCap \in Nat
ASSUME GameBounds == MaxDrops \in Nat /\ MaxTimers \in Nat

VARIABLES
    gameModal, manual, startOverlay,  \* which of the layers of the dialog are shown
    isPaused, isGameOver,
    buckets, currentSector,
    dropCount,
    powerups, thresholdsHit,
    chain,     \* chain steps whose timers are running
    skipped    \* history: sectors a step passed over, until the next look at them

layers == <<gameModal, manual, startOverlay>>
awards == <<powerups, thresholdsHit>>
gameVars == <<layers, isPaused, isGameOver, buckets, currentSector, dropCount, awards, chain, skipped>>

Sectors == 0..NumSectors - 1
Kinds == {"sstable", "tombstone"}
Powerups == <<"cleanup", "repair", "minorCompaction">>

\* 0 stands for null in the last four.
Tile == [kind: Kinds, level: Nat, turnsLeft: 0..GCGrace, shadowTurns: 0..ShadowTurns,
         victim: Nat, id: Nat \ {0}]
Step == [sector: Sectors, depth: Nat]

SmasherTypeOK ==
    /\ gameModal \in BOOLEAN /\ manual \in BOOLEAN /\ startOverlay \in BOOLEAN
    /\ isPaused \in BOOLEAN /\ isGameOver \in BOOLEAN
    /\ \A s \in Sectors : buckets[s] \in Seq(Tile) /\ Len(buckets[s]) <= MaxRows
    /\ currentSector \in Sectors
    /\ dropCount \in 0..MaxDrops
    /\ powerups \in [Range(Powerups) -> 0..PowerupCap] /\ thresholdsHit \in 0..Thresholds
    /\ chain \in Seq(Step)
    /\ skipped \subseteq Sectors

(***************************************************************************)
(* Stacks, from the bottom up.                                             *)
(***************************************************************************)
Tombstone(tile) == tile.kind = "tombstone"
Ids(b) == {b[i].id : i \in DOMAIN b}
FreshId(b) == Min((1..2 * Len(b) + 1) \ (Ids(b) \cup {b[i].victim : i \in DOMAIN b}))

Splice(b, i, n, tiles) == SubSeq(b, 1, i - 1) \o tiles \o SubSeq(b, i + n, Len(b))

merged(b, level) ==
    [kind |-> "sstable", level |-> level, turnsLeft |-> 0, shadowTurns |-> 0, victim |-> 0,
     id |-> FreshId(b)]

TombstoneRuns(b) == {i \in 1..Len(b) + 1 - RunSize : \A k \in i..i + RunSize - 1 : Tombstone(b[k])}
SSTableRuns(b) ==
    {i \in 1..Len(b) + 1 - RunSize :
        \A k \in i..i + RunSize - 1 : ~Tombstone(b[k]) /\ b[k].level = b[i].level}
HasRun(b) == TombstoneRuns(b) \cup SSTableRuns(b) # {}

\* What checkCompaction makes of a stack: one run at a time, tombstones first.
Compacted(b) ==
    IF TombstoneRuns(b) # {} THEN Splice(b, Min(TombstoneRuns(b)), RunSize, <<>>)
    ELSE IF SSTableRuns(b) = {} THEN b
    ELSE LET i == Min(SSTableRuns(b)) IN Splice(b, i, RunSize, <<merged(b, b[i].level + 1)>>)

\* The runs of two and more of one level, and the one a minor compaction takes.
LevelRun(b, i, j) ==
    /\ i < j
    /\ \A k \in i..j : ~Tombstone(b[k]) /\ b[k].level = b[i].level
    /\ i > 1 => Tombstone(b[i - 1]) \/ b[i - 1].level # b[i].level
    /\ j < Len(b) => Tombstone(b[j + 1]) \/ b[j + 1].level # b[i].level
LevelRuns(b) == {r \in (DOMAIN b) \X (DOMAIN b) : LevelRun(b, r[1], r[2])}

findLowestCompactableRun(b) ==
    CHOOSE r \in LevelRuns(b) : \A q \in LevelRuns(b) :
        \/ b[r[1]].level < b[q[1]].level
        \/ b[r[1]].level = b[q[1]].level /\ r[1] <= q[1]

(***************************************************************************)
(* A turn: shadows and graces run down, then the piece lands.              *)
(***************************************************************************)
\* The shadows that are due and still have their victim beneath them.
Kills(b) ==
    {i \in DOMAIN b : b[i].shadowTurns = 1 /\ i > 1 /\ b[i - 1].id = b[i].victim}

\* A shadow that lost its victim fizzles.
ShadowTicked(b) ==
    LET Aged(tile) ==
            CASE tile.shadowTurns = 0 -> tile
              [] tile.shadowTurns = 1 -> [tile EXCEPT !.shadowTurns = 0, !.victim = 0]
              [] OTHER -> [tile EXCEPT !.shadowTurns = @ - 1]
    IN Subsequence([i \in DOMAIN b |-> Aged(b[i])],
                   DOMAIN b \ (Kills(b) \cup {i - 1 : i \in Kills(b)}))

\* As GCGraced, the turns of every tile being counted.
GCGracedAll(b) ==
    LET aged == [i \in DOMAIN b |-> [b[i] EXCEPT !.turnsLeft = @ - 1]]
    IN Subsequence(aged, {i \in DOMAIN aged : Tombstone(aged[i]) => aged[i].turnsLeft > 0})

GCGraced(b) ==
    LET aged == [i \in DOMAIN b |->
                    IF Tombstone(b[i]) THEN [b[i] EXCEPT !.turnsLeft = @ - 1] ELSE b[i]]
    IN Subsequence(aged, {i \in DOMAIN aged : Tombstone(aged[i]) => aged[i].turnsLeft > 0})

\* As Landed, a shadow being given the bottom of the stack.
LandedOnBottom(b, kind) ==
    Append(b, [kind |-> kind, level |-> 0,
               turnsLeft |-> IF kind = "tombstone" THEN GCGrace ELSE 0,
               shadowTurns |-> IF kind = "tombstone" /\ b # <<>> THEN ShadowTurns ELSE 0,
               victim |-> IF kind = "tombstone" /\ b # <<>> THEN Head(b).id ELSE 0,
               id |-> FreshId(b)])

Landed(b, kind) ==
    Append(b, [kind |-> kind, level |-> 0,
               turnsLeft |-> IF kind = "tombstone" THEN GCGrace ELSE 0,
               shadowTurns |-> IF kind = "tombstone" /\ b # <<>> THEN ShadowTurns ELSE 0,
               victim |-> IF kind = "tombstone" /\ b # <<>> THEN Last(b).id ELSE 0,
               id |-> FreshId(b)])

\* checkCompaction on some of the stacks: what becomes of them, and the chain steps set.
Checked(bs, S) == [s \in Sectors |-> IF s \in S THEN Compacted(bs[s]) ELSE bs[s]]
Scheduled(bs, S, depth) ==
    LET runs == Ascending({s \in S : HasRun(bs[s])})
    IN [k \in DOMAIN runs |-> [sector |-> runs[k], depth |-> depth]]

\* A stack that lost a tile to the turn is a new array, and the piece falls on the one
\* that was read before: it is gone.
TurnOf(piece) ==
    LET killed == {s \in Sectors : Kills(buckets[s]) # {}}
        ticked == [s \in Sectors |-> ShadowTicked(buckets[s])]
        graced == [s \in Sectors |-> GCGraced(Checked(ticked, killed)[s])]
        expired == {s \in Sectors : Len(graced[s]) < Len(Checked(ticked, killed)[s])}
        swept == Checked(graced, expired)
        fallen == IF currentSector \in killed \cup expired THEN swept
                  ELSE [swept EXCEPT ![currentSector] = Landed(@, piece)]
    IN [buckets |-> Checked(fallen, {currentSector}),
        chain |-> Scheduled(ticked, killed, 0) \o Scheduled(graced, expired, 0)
                      \o Scheduled(fallen, {currentSector}, 0)]

(***************************************************************************)
(* A game.                                                                 *)
(***************************************************************************)
SmasherInit ==
    /\ gameModal = FALSE /\ manual = FALSE /\ startOverlay = TRUE
    /\ isPaused = TRUE /\ isGameOver = FALSE
    /\ buckets = [s \in Sectors |-> <<>>] /\ currentSector = 0 /\ dropCount = 0
    /\ powerups = [key \in Range(Powerups) |-> 0] /\ thresholdsHit = 0
    /\ chain = <<>> /\ skipped = {}

resetState ==
    /\ isGameOver' = FALSE
    /\ buckets' = [s \in Sectors |-> <<>>] /\ currentSector' = 0 /\ dropCount' = 0
    /\ powerups' = [key \in Range(Powerups) |-> 0] /\ thresholdsHit' = 0
    /\ skipped' = {}

\* The page is loaded again.
LoadGame ==
    /\ gameModal' = FALSE /\ manual' = FALSE /\ startOverlay' = TRUE
    /\ isPaused' = TRUE
    /\ resetState
    /\ chain' = <<>>

\* Keys are the game's while the dialog is shown and the manual is not; in a pause, as
\* after the end of a game, all that Space does is to start anew.
Keys == gameModal /\ ~manual
Playing == Keys /\ ~isPaused /\ ~isGameOver

start ==
    /\ Keys /\ (isPaused \/ isGameOver)
    /\ Len(chain) <= MaxTimers
    /\ startOverlay' = FALSE
    /\ isPaused' = FALSE
    /\ resetState
    /\ UNCHANGED <<gameModal, manual, chain>>

Steer ==
    /\ Playing
    /\ currentSector' \in {(currentSector + 1) % NumSectors,
                           (currentSector + NumSectors - 1) % NumSectors}
    /\ UNCHANGED <<layers, isPaused, isGameOver, buckets, dropCount, awards, chain, skipped>>

endGame ==
    /\ Playing
    /\ Len(buckets[currentSector]) >= MaxRows
    /\ isGameOver' = TRUE
    /\ UNCHANGED <<layers, isPaused, buckets, currentSector, dropCount, awards, chain, skipped>>

\* checkPowerupAwards: the score has reached any number of further thresholds.
checkPowerupAwards ==
    \E hit \in thresholdsHit..Thresholds :
        /\ thresholdsHit' = hit
        /\ powerups' = [key \in DOMAIN powerups |->
              Min({PowerupCap, powerups[key] +
                     Cardinality({n \in thresholdsHit + 1..hit :
                                     Powerups[((n - 1) % Len(Powerups)) + 1] = key})})]

dropTable ==
    /\ Playing
    /\ Len(buckets[currentSector]) < MaxRows /\ dropCount < MaxDrops
    /\ \E piece \in Kinds :
          /\ buckets' = TurnOf(piece).buckets
          /\ chain' = chain \o TurnOf(piece).chain
    /\ dropCount' = dropCount + 1
    /\ checkPowerupAwards
    /\ skipped' = skipped \ {currentSector}
    /\ UNCHANGED <<layers, isPaused, isGameOver, currentSector>>

(***************************************************************************)
(* Power-ups.                                                              *)
(***************************************************************************)
Use(key) ==
    /\ Playing
    /\ powerups[key] > 0
    /\ powerups' = [powerups EXCEPT ![key] = @ - 1]
    /\ UNCHANGED <<layers, isPaused, isGameOver, currentSector, dropCount, thresholdsHit>>

\* What is left of the stacks of S, and the look at them.
Look(bs, S) ==
    /\ buckets' = Checked(bs, S)
    /\ chain' = chain \o Scheduled(bs, S, 0)
    /\ skipped' = skipped \ S

Purged(b) == Subsequence(b, {i \in DOMAIN b : ~Tombstone(b[i])})

\* As usePowerupCleanup, the stacks not being looked at.
usePowerupCleanupOnly ==
    /\ Use("cleanup")
    /\ buckets' = [s \in Sectors |-> Purged(buckets[s])]
    /\ UNCHANGED <<chain, skipped>>

usePowerupCleanup ==
    /\ Use("cleanup")
    /\ LET purged == [s \in Sectors |-> Purged(buckets[s])]
       IN Look(purged, {s \in Sectors : Len(purged[s]) < Len(buckets[s])})

usePowerupRepair ==
    /\ buckets[currentSector] # <<>>
    /\ Use("repair")
    /\ Look([buckets EXCEPT ![currentSector] = Front(@)], {currentSector})

usePowerupMinorCompaction ==
    LET b == buckets[currentSector]
        r == findLowestCompactableRun(b)
    IN /\ LevelRuns(b) # {}
       /\ Use("minorCompaction")
       /\ buckets' = [buckets EXCEPT ![currentSector] =
                        Splice(b, r[1], r[2] - r[1] + 1, <<merged(b, b[r[1]].level + 1)>>)]
       /\ chain' = Append(chain, [sector |-> currentSector, depth |-> 0])
       /\ skipped' = skipped \ {currentSector}

(***************************************************************************)
(* A timer of scheduleChainStep fires.                                     *)
(***************************************************************************)
chainStep ==
    /\ chain # <<>>
    /\ LET s == Head(chain).sector
           depth == Head(chain).depth + 1
       IN IF isPaused \/ isGameOver \/ depth > MaxChain
          THEN chain' = Tail(chain) /\ skipped' = skipped \cup {s} /\ UNCHANGED buckets
          ELSE /\ buckets' = Checked(buckets, {s})
               /\ chain' = Tail(chain) \o Scheduled(buckets, {s}, depth)
               /\ skipped' = skipped \ {s}
    /\ UNCHANGED <<layers, isPaused, isGameOver, currentSector, dropCount, awards>>

(***************************************************************************)
(* The dialog.  The manual, opened in a game, pauses it and goes on with   *)
(* it; the dialog, closed and opened again, leaves it paused.              *)
(***************************************************************************)
openSSTableSmasher ==
    /\ ~gameModal
    /\ gameModal' = TRUE
    /\ UNCHANGED <<manual, startOverlay, isPaused, isGameOver, buckets, currentSector,
                   dropCount, awards, chain, skipped>>

closeSSTableSmasher ==
    /\ gameModal
    /\ gameModal' = FALSE
    /\ isPaused' = TRUE
    /\ UNCHANGED <<manual, startOverlay, isGameOver, buckets, currentSector, dropCount,
                   awards, chain, skipped>>

toggleGameManual ==
    /\ gameModal
    /\ manual' = ~manual
    /\ isPaused' = IF startOverlay THEN isPaused ELSE ~manual
    /\ UNCHANGED <<gameModal, startOverlay, isGameOver, buckets, currentSector, dropCount, awards, chain, skipped>>

SmasherUser ==
    \/ start \/ Steer \/ endGame \/ dropTable
    \/ usePowerupCleanup \/ usePowerupRepair \/ usePowerupMinorCompaction
    \/ openSSTableSmasher \/ closeSSTableSmasher \/ toggleGameManual

SmasherNext == SmasherUser \/ chainStep

(***************************************************************************)
(* Properties                                                              *)
(***************************************************************************)

\* Four of a kind in a row are on their way to be compacted: a step of the chain is due
\* for their stack, whichever of the ways to bring them together it was, and however the
\* timers of several chains, and of an earlier game, interleave with the user (a step
\* that fires in a pause, or beyond MAX_CHAIN, is lost, until the next look at its stack).
RunsAreAttended ==
    ~isGameOver =>
        \A s \in Sectors \ skipped :
            HasRun(buckets[s]) => \E k \in DOMAIN chain : chain[k].sector = s

\* A shadow's victim, as long as it is on the ring, is the tile right beneath it: no
\* compaction, purge, expiry or repair brings another tile between the two or lends its
\* id to another, so that what a shadow deletes is what it was placed on.
VictimBeneath ==
    \A s \in Sectors : LET b == buckets[s] IN
        /\ Cardinality(Ids(b)) = Len(b)
        /\ \A i \in DOMAIN b :
              b[i].victim \in Ids(b) => i > 1 /\ b[i - 1].id = b[i].victim

\* "Space flushes the current piece into the selected sector" (index.html:205): the
\* sector is not empty then, unless the piece completed a run of tombstones.
FlushedIntoSector ==
    [][dropCount' > dropCount /\ Len(buckets[currentSector]) < RunSize - 1
          => buckets'[currentSector] # <<>>]_gameVars

=============================================================================
