------------------------------- MODULE Staging -------------------------------
(***************************************************************************)
(* The staged image of a board (components/storage): the RAM copy of the   *)
(* manifest and the image partition it describes.  Its functions take no   *)
(* lock, so each is given here as the pieces between which another task    *)
(* may act; the modules that EXTEND this one say who runs them.  A block   *)
(* is the unit in which an image is sent, staged, programmed and verified. *)
(***************************************************************************)
EXTENDS Integers, Sequences

CONSTANTS
    Image,       \* the images a host may stage
    Content,     \* what a block of flash may hold
    Data,        \* Data[i]: the blocks of image i
    Erased,      \* the content of an erased block
    Garbage,     \* the content of a block written without an erase, or half written
    Capacity,    \* blocks of the target_image partition
    NoImage      \* the zeroed manifest

ASSUME ImageAssumption ==
    /\ Data \in [Image -> Seq(Content \ {Erased, Garbage})] /\ NoImage \notin Image
    /\ {Erased, Garbage} \subseteq Content /\ Erased # Garbage
    /\ Capacity \in Nat
    /\ \A i \in Image : Len(Data[i]) \in 1 .. Capacity

VARIABLES
    staged,      \* the image partition
    manifest,    \* s_manifest
    written,     \* s_written, in blocks
    ready        \* s_ready

stagingVars == <<staged, manifest, written, ready>>

\* s_manifest.total_length; the SHA-256 of a manifest stands for its data.
TotalLength == IF manifest = NoImage THEN 0 ELSE Len(Data[manifest])
Holds(i) == \A k \in 1 .. Len(Data[i]) : staged[k] = Data[i][k]

StagingInit ==
    /\ staged = [k \in 1 .. Capacity |-> Erased] /\ manifest = NoImage
    /\ written = 0 /\ ready = FALSE

\* Mutant of BeginImage: the image that was ready stays ready.
BeginImageReady(i) ==
    /\ manifest' = i /\ written' = 0
    /\ UNCHANGED <<staged, ready>>

\* datlink_storage_begin up to its erases, for a manifest that is valid and fits.
BeginImage(i) ==
    /\ manifest' = i /\ written' = 0 /\ ready' = FALSE
    /\ UNCHANGED staged

\* The erases of datlink_storage_begin, of the length it was called with; one
\* that fails leaves the blocks from some block on as they were.
EraseImage(i) ==
    /\ \E n \in 0 .. Len(Data[i]) :
        staged' = [k \in 1 .. Capacity |-> IF k <= n THEN Erased ELSE staged[k]]
    /\ UNCHANGED <<manifest, written, ready>>

\* What flash holds after a write of c: bits are only ever cleared.
Written(before, c) == IF before = Erased THEN {c} ELSE {c, Garbage}

\* Mutant of InSequence: a block may come again.
InSequenceAgain(k) == k <= TotalLength

\* datlink_storage_write accepts the next block of the image only.
InSequence(k) == k = written + 1 /\ k <= TotalLength

WriteBlock(k, c) ==
    /\ \E after \in Written(staged[k], c) : staged' = [staged EXCEPT ![k] = after]
    /\ UNCHANGED <<manifest, written, ready>>
FailBlock(k) ==
    /\ staged' = [staged EXCEPT ![k] = Garbage]
    /\ UNCHANGED <<manifest, written, ready>>
CountBlock ==
    /\ written' = written + 1
    /\ UNCHANGED <<staged, manifest, ready>>

\* Mutant of Complete: the number of blocks is enough.
CompleteByCount == manifest # NoImage /\ written = TotalLength

\* The checks of datlink_storage_finalize.
Complete == manifest # NoImage /\ written = TotalLength /\ Holds(manifest)

\* The end of datlink_storage_finalize.
MarkReady ==
    /\ ready' = TRUE
    /\ UNCHANGED <<staged, manifest, written>>

\* datlink_storage_invalidate
Invalidate ==
    /\ manifest' = NoImage /\ written' = 0 /\ ready' = FALSE
    /\ UNCHANGED staged

\* datlink_storage_read of block k returns staged[k] or fails.
Readable(k) == k <= TotalLength

StagingType ==
    /\ staged \in [1 .. Capacity -> Content] /\ manifest \in Image \cup {NoImage}
    /\ written \in 0 .. Capacity /\ ready \in BOOLEAN
=============================================================================
