---------------------------------- MODULE Image ----------------------------------
(***************************************************************************)
(* One image on its way into the flash of the target, byte by byte: the    *)
(* manifest from the tool or from another client, its validation, the      *)
(* loops of programmer.c (erase_sectors, program_segments,                 *)
(* verify_segments), and the loader's checks of each command.  The staged  *)
(* data is what storage hands out (module Staging), byte k of it is k + 1; *)
(* each command is carried out as module LoaderService promises.           *)
(***************************************************************************)
EXTENDS Manifest

CONSTANTS
    SectorSize,   \* MSPM0G3507_FLASH_SECTOR_SIZE, SECTOR_SIZE of the loader
    ChunkSize,    \* the buffer of program_segments, as large as the loader takes
    Files,        \* files the tool may be given
    Wire,         \* manifests another client of the Gateway may send
    Past          \* the sets of words earlier operations, ended anyhow, left programmed

ASSUME ImageAssumption ==
    /\ SectorSize \in Nat \ {0} /\ SectorSize % 8 = 0 /\ FlashSize % SectorSize = 0
    /\ ChunkSize \in Nat \ {0} /\ ChunkSize % 8 = 0 /\ ChunkSize < Width
    /\ Wire \subseteq Manifests
    /\ \A words \in Past : \A w \in words : w \in 0 .. FlashSize - 1 /\ w % 8 = 0
    /\ Files \subseteq Chunks

VARIABLES
    flash,    \* MAIN flash of the target
    burnt,    \* the words programmed since their sector was erased
    job,      \* the operation
    before    \* history: the flash when it began

vars == <<flash, burnt, job, before>>

Address == 0 .. FlashSize - 1
Word == {a \in Address : a % 8 = 0}
WordOf(a) == a - (a % 8)
Sector == 0 .. FlashSize \div SectorSize - 1

\* What a byte of the flash may hold: 0xFF, a byte of the staged data, what an earlier
\* image left, or what a failed or bad write leaves.
Erased == 0
Staged(k) == k + 1
Old == FlashSize + 1
Garbage == FlashSize + 2
Byte == 0 .. Garbage

Refusal == {"RANGE", "STORAGE", "TWICE"}
Job == [phase : {"IDLE", "REJECTED", "STAGED", "ERASE", "PROGRAM", "VERIFY", "END"},
        made : BOOLEAN,          \* by the tool
        crc : BOOLEAN,           \* the CRCs of its segments are those of their data
        manifest : Manifests,
        sectors : SUBSET Sector, \* to be erased
        segment : Nat, offset : Nat,
        status : {"NONE", "OK", "ABORTED", "FAILED", "VERIFY", "CRC"} \cup Refusal,
        faulty : BOOLEAN]        \* the flash took a bad write for a good one

Init ==
    /\ burnt \in Past
    /\ flash = [a \in Address |-> IF WordOf(a) \in burnt THEN Old ELSE Erased]
    /\ job = [phase |-> "IDLE", made |-> FALSE, crc |-> TRUE,
              manifest |-> [total_length |-> 0, segments |-> <<>>], sectors |-> {},
              segment |-> 1, offset |-> 0, status |-> "NONE", faulty |-> FALSE]
    /\ before = flash

m == job.manifest
Current == m.segments[job.segment]
Ended(status) == [job EXCEPT !.phase = "END", !.status = status]
FlashQuiet == UNCHANGED <<flash, burnt, before>>
-----------------------------------------------------------------------------
(***************************************************************************)
(* The manifest arrives: the image is staged, if it is accepted.           *)
(***************************************************************************)
Receive(manifest, made) ==
    /\ job' = [job EXCEPT !.manifest = manifest, !.made = made,
                          !.phase = IF ManifestValidate(manifest) THEN "STAGED" ELSE "REJECTED"]
    /\ FlashQuiet
HostLoads(file) == job.phase = "IDLE" /\ Loads(file) /\ Receive(EncodeManifest(file), TRUE)
ClientSends(manifest) == job.phase = "IDLE" /\ Receive(manifest, FALSE)

\* Mutant of Touched: the sector after the last byte's is erased too.
TouchedBeyond(s) == s.address \div SectorSize .. Plus(s.address, s.length) \div SectorSize

\* Mutant of Touched: of the last sector only a full one counts.
TouchedShort(s) == s.address \div SectorSize .. (Plus(s.address, s.length) \div SectorSize) - 1

\* The sectors of a segment: those of its first and last byte and all between.
Touched(s) == s.address \div SectorSize .. Minus(Plus(s.address, s.length), 1) \div SectorSize

\* programmer_task checks the manifest again, and erase_sectors makes its list.  A client
\* may have sent CRCs that are not those of the data, which is not looked at until later.
Begin ==
    /\ job.phase = "STAGED"
    /\ \E crc \in {TRUE, job.made} :
       job' = IF TargetValidate(m)
              THEN [job EXCEPT !.phase = "ERASE", !.crc = crc,
                               !.sectors = UNION {Touched(m.segments[i]) : i \in DOMAIN m.segments}]
              ELSE Ended("RANGE")
    /\ FlashQuiet
-----------------------------------------------------------------------------
(***************************************************************************)
(* The loops.  Each iteration may stop for s_abort, for a failed access to *)
(* the target or for a failed read of the storage.                         *)
(***************************************************************************)
Stop ==
    /\ job.phase \in {"ERASE", "PROGRAM", "VERIFY"}
    /\ \E status \in {"ABORTED", "FAILED"} : job' = Ended(status)
    /\ FlashQuiet

\* erase_sectors, and erase_sector of the loader.
EraseSector ==
    /\ job.phase = "ERASE"
    /\ \E sector \in job.sectors :
       /\ \A other \in job.sectors : sector <= other
       /\ LET start == sector * SectorSize
              inside(a) == start <= a /\ a < start + SectorSize
              filled(byte) == [a \in Address |-> IF inside(a) THEN byte ELSE flash[a]]
          IN IF ~RangeIsMain(start, SectorSize)
             THEN job' = Ended("RANGE") /\ UNCHANGED <<flash, burnt>>
             ELSE \/ /\ flash' = filled(Erased) /\ burnt' = {w \in burnt : ~inside(w)}
                     /\ job' = [job EXCEPT !.sectors = @ \ {sector}]
                  \/ /\ flash' = filled(Garbage) /\ UNCHANGED burnt
                     /\ job' = Ended("FAILED")
    /\ UNCHANGED before
EraseDone ==
    /\ job.phase = "ERASE" /\ job.sectors = {}
    /\ job' = [job EXCEPT !.phase = "PROGRAM"]
    /\ FlashQuiet

\* The iteration after one of count bytes: the same segment, the next, or the next loop.
Advanced(count, following) ==
    IF job.offset + count < Current.length THEN [job EXCEPT !.offset = @ + count]
    ELSE IF job.segment < Len(m.segments)
    THEN [job EXCEPT !.segment = @ + 1, !.offset = 0]
    ELSE [following EXCEPT !.segment = 1, !.offset = 0]

Least(a, b) == IF a < b THEN a ELSE b

\* Mutant of Padded: the end of a segment is programmed as it is.
PaddedNot(count) == count

Padded(count) == ((count + 7) \div 8) * 8

\* datlink_storage_read
StorageReads(offset, length) ==
    offset <= m.total_length /\ length <= Minus(m.total_length, offset)

\* program_words takes what is aligned, no more than its buffer, and in MAIN.
LoaderTakes(address, length) ==
    Aligned(address) /\ length % 8 = 0 /\ length <= ChunkSize /\ RangeIsMain(address, length)

\* Mutant of Buffer: the end of the buffer is not set to 0xFF.
BufferDirty(first, count, padded) ==
    [i \in 0 .. padded - 1 |-> IF i < count THEN Staged(first + i) ELSE Garbage]

\* The buffer of a PROGRAM_64 command: data, then 0xFF up to the end of a word.
Buffer(first, count, padded) ==
    [i \in 0 .. padded - 1 |-> IF i < count THEN Staged(first + i) ELSE Erased]

\* program_segments: one command of the loader, which programs word after word and
\* stops at the first failure; any of them may have gone wrong unnoticed.
ProgramChunk ==
    /\ job.phase = "PROGRAM"
    /\ LET count == Least(Current.length - job.offset, ChunkSize)
           padded == Padded(count)
           address == Plus(Current.address, job.offset)
           first == Plus(Current.data_offset, job.offset)
           buffer == Buffer(first, count, padded)
           words(n) == {w \in Word : address <= w /\ w < address + 8 * n}
           written(n, bad) ==
               [a \in Address |->
                   IF WordOf(a) \in words(n)
                   THEN IF WordOf(a) \in bad THEN Garbage ELSE buffer[a - address]
                   ELSE flash[a]]
       IN IF ~StorageReads(first, count)
          THEN job' = Ended("STORAGE") /\ UNCHANGED <<flash, burnt>>
          ELSE IF ~LoaderTakes(address, padded)
          THEN job' = Ended("RANGE") /\ UNCHANGED <<flash, burnt>>
          ELSE IF words(padded \div 8) \cap burnt # {}
          THEN job' = Ended("TWICE") /\ UNCHANGED <<flash, burnt>>
          ELSE \E n \in 1 .. padded \div 8, ok \in BOOLEAN, bad \in SUBSET words(padded \div 8) :
               /\ ok => n = padded \div 8
               /\ flash' = written(n, bad) /\ burnt' = burnt \cup words(n)
               /\ job' = IF ok THEN [Advanced(count, [job EXCEPT !.phase = "VERIFY"])
                                        EXCEPT !.faulty = @ \/ bad # {}]
                         ELSE Ended("FAILED")
    /\ UNCHANGED before

Expected(s) == [k \in 1 .. s.length |-> Staged(s.data_offset + k - 1)]

\* Mutant of ReadBack: the data of the image is read over that of the target.
ReadBackStaged(s) == Expected(s)

\* What verify_segments reads of a segment.
ReadBack(s) == [k \in 1 .. s.length |-> flash[s.address + k - 1]]
Concatenated(n) == FlattenSeq([i \in 1 .. n |-> ReadBack(m.segments[i])])

\* Mutant of CrcRead: the CRC is not started again with each segment.
CrcReadOn(n) == Concatenated(n)

\* What the CRC of a segment is taken over.
CrcRead(n) == ReadBack(m.segments[n])

\* verify_segments, a segment at a time; at the end the hash over what was read must be
\* that of the image.
VerifySegment ==
    /\ job.phase = "VERIFY"
    /\ job' = IF ~StorageReads(Current.data_offset, Current.length) THEN Ended("STORAGE")
              ELSE IF ReadBack(Current) # Expected(Current) THEN Ended("VERIFY")
              ELSE IF ~job.crc \/ CrcRead(job.segment) # Expected(Current) THEN Ended("CRC")
              ELSE Advanced(Current.length,
                       Ended(IF Concatenated(job.segment)
                                = [k \in 1 .. m.total_length |-> Staged(k - 1)]
                             THEN "OK" ELSE "VERIFY"))
    /\ FlashQuiet

Next ==
    \/ \E file \in Files : HostLoads(file)
    \/ \E manifest \in Wire : ClientSends(manifest)
    \/ Begin \/ Stop \/ EraseSector \/ EraseDone \/ ProgramChunk \/ VerifySegment

Spec == Init /\ [][Next]_vars
-----------------------------------------------------------------------------
(***************************************************************************)
(* Properties                                                              *)
(***************************************************************************)

\* A manifest is accepted exactly if its ranges meet the rules of docs/protocol.md and
\* none is empty, in whatever order its segments and their data are, and whatever its
\* fields wrap to.
AcceptsExactly ==
    /\ job.phase = "REJECTED" => ~Rules(m)
    /\ job.phase = "STAGED" => Rules(m)

\* No check behind the validation ever fires: not the range check of the operation, of
\* the storage or of the loader (each of them leaves a half erased target behind).
NeverRefused == job.status \notin {"RANGE", "STORAGE"}

\* No word is programmed that was not erased since it was programmed last (the flash has
\* an ECC for each word of eight bytes): segments that share a word, the padding of one
\* and the beginning of the next, a sector that was not erased.
ProgrammedOnce == job.status # "TWICE"

\* README.md: sectors an image does not touch are as they were, whatever happens; in the
\* others the bytes outside the image are 0xFF when all of it is programmed.
InSegment(a) ==
    \E i \in DOMAIN m.segments :
        LET s == m.segments[i] IN s.address <= a /\ a < s.address + s.length
InSector(a) ==
    \E b \in Address : InSegment(b) /\ a \div SectorSize = b \div SectorSize
OutsideUntouched ==
    /\ \A a \in Address : flash[a] # before[a] => InSector(a)
    /\ (job.phase = "VERIFY" \/ job.status = "OK") /\ ~job.faulty =>
        \A a \in Address : InSector(a) /\ ~InSegment(a) => flash[a] = Erased

\* An operation that ends well has its image in the flash, although bad writes go
\* unnoticed when they are made.
SuccessHoldsImage ==
    job.status = "OK" =>
        \A i \in DOMAIN m.segments : LET s == m.segments[i] IN
            \A k \in 0 .. s.length - 1 : flash[s.address + k] = Staged(s.data_offset + k)

\* What the tool makes of a file is accepted, and its verification succeeds unless the
\* flash is at fault.
HostImageVerifies ==
    job.made => /\ job.phase # "REJECTED"
                /\ ~job.faulty => job.status \notin {"VERIFY", "CRC"}

TypeOK ==
    /\ flash \in [Address -> Byte] /\ before \in [Address -> Byte]
    /\ burnt \subseteq Word /\ job \in Job
=============================================================================
