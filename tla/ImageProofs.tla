------------------------------- MODULE ImageProofs -------------------------------
(***************************************************************************)
(* For any manifest and file, any size of the flash, of its sectors and of *)
(* the loader's buffer: a manifest is accepted exactly if it meets the     *)
(* rules, no check behind its validation fires, no word is programmed      *)
(* twice, an operation that ends well leaves its image in the flash, and   *)
(* what the tool makes of a file is accepted and passes verification.      *)
(***************************************************************************)
EXTENDS Image, FiniteSetTheorems, SequenceTheorems, WellFoundedInduction, TLAPS

(***************************************************************************)
(* Arithmetic.                                                             *)
(***************************************************************************)

\* Division by a sector's size: its result is monotone and names the sector of an address.
LEMMA DivBelow ==
    ASSUME NEW d \in Nat \ {0}, NEW q \in Nat, NEW x \in Nat, x < d * q
    PROVE  x \div d < q
  BY SMT

LEMMA DivMono ==
    ASSUME NEW d \in Nat \ {0}, NEW x \in Nat, NEW y \in Nat, x <= y
    PROVE  x \div d <= y \div d
  BY SMT

LEMMA DivRange ==
    ASSUME NEW d \in Nat \ {0}, NEW x \in Nat, NEW s \in Nat, x \div d = s
    PROVE  s * d <= x /\ x < s * d + d
  BY SMT

\* Whole words.
LEMMA WordSum ==
    ASSUME NEW x \in Nat, NEW y \in Nat, x % 8 = 0, y % 8 = 0
    PROVE  (x + y) % 8 = 0
  BY SMT

LEMMA WordGap ==
    ASSUME NEW x \in Nat, NEW y \in Nat, x % 8 = 0, y % 8 = 0, x < y + 8
    PROVE  x <= y
  BY SMT

LEMMA WordCount ==
    ASSUME NEW n \in Nat, NEW x \in Nat, n <= x \div 8
    PROVE  8 * n <= x
  BY SMT

\* A sector of the flash lies in the flash.
LEMMA SectorInFlash ==
    ASSUME NEW s \in Sector
    PROVE  /\ s * SectorSize \in Nat
           /\ s * SectorSize < FlashSize
           /\ SectorSize <= FlashSize - s * SectorSize
<1>1. SectorSize \in Nat \ {0} /\ FlashSize \in Nat \ {0} /\ FlashSize % SectorSize = 0
  BY ManifestAssumption, ImageAssumption
<1>2. s \in Nat /\ s * SectorSize + SectorSize <= FlashSize
  BY <1>1, SMT DEF Sector
<1> QED
  BY <1>1, <1>2, SMT

\* The padding goes to the next word.
LEMMA PaddedWord ==
    ASSUME NEW count \in Nat
    PROVE  /\ Padded(count) \in Nat
           /\ Padded(count) % 8 = 0
           /\ count <= Padded(count)
           /\ Padded(count) < count + 8
  BY SMT DEF Padded

\* Where nothing wraps, the arithmetic of fixed width is that of numbers.
LEMMA NoWrap ==
    ASSUME NEW a \in Nat, NEW b \in Nat
    PROVE  /\ a + b <= FlashSize => Plus(a, b) = a + b
           /\ a >= b => Minus(a, b) = a - b
  BY ManifestAssumption, SMT DEF Plus, Minus
-----------------------------------------------------------------------------
(***************************************************************************)
(* What the validation of a manifest gives, in numbers.                    *)
(***************************************************************************)
SegmentFits(m0, s) ==
    /\ s.address \in Nat /\ s.length \in Nat \ {0} /\ s.data_offset \in Nat
    /\ s.address % 8 = 0
    /\ s.address + s.length <= FlashSize
    /\ s.data_offset + s.length <= m0.total_length
    /\ m0.total_length \in Nat /\ m0.total_length <= FlashSize

\* Each segment of a valid manifest lies in the flash and in the data, with no wrap.
LEMMA ValidFits ==
    ASSUME NEW m0 \in Manifests, SegmentsValid(m0), NEW i \in DOMAIN m0.segments
    PROVE  SegmentFits(m0, m0.segments[i])
<1> DEFINE s == m0.segments[i]
<1>1. s \in Segment /\ m0.total_length \in Nat
  BY DEF Manifests, Field
<1>2. s.address \in Nat /\ s.length \in Nat /\ s.data_offset \in Nat
  BY <1>1 DEF Segment, Field
<1>3. SegmentValid(m0, s) /\ m0.total_length <= FlashSize
  BY DEF SegmentsValid
<1>4. s.length <= FlashSize - s.address /\ s.address < FlashSize
  BY <1>2, <1>3, NoWrap, ManifestAssumption, SMT DEF SegmentValid
<1>5. s.length <= m0.total_length - s.data_offset
  BY <1>1, <1>2, <1>3, NoWrap, SMT DEF SegmentValid
<1> QED
  BY <1>1, <1>2, <1>3, <1>4, <1>5, ManifestAssumption, SMT
     DEF SegmentValid, SegmentFits, Aligned

\* There is a first segment, and none is empty.
LEMMA SegmentIndex ==
    ASSUME NEW m0 \in Manifests, SegmentsValid(m0)
    PROVE  /\ DOMAIN m0.segments = 1 .. Len(m0.segments)
           /\ Len(m0.segments) \in Nat \ {0}
           /\ \A i \in DOMAIN m0.segments : 0 < m0.segments[i].length
<1>1. m0.segments \in Seq(Segment)
  BY DEF Manifests
<1>2. DOMAIN m0.segments = 1 .. Len(m0.segments) /\ Len(m0.segments) \in Nat
  BY <1>1
<1>3. Len(m0.segments) # 0
  BY <1>2, ManifestAssumption, SMT DEF SegmentsValid
<1>4. \A i \in DOMAIN m0.segments : 0 < m0.segments[i].length
  <2>1. ASSUME NEW i \in DOMAIN m0.segments
        PROVE  m0.segments[i].length \in Nat \ {0}
    BY ValidFits DEF SegmentFits
  <2> QED
    BY <2>1, SMT
<1> QED
  BY <1>2, <1>3, <1>4

\* Two segments of a valid manifest have no byte of the flash in common.
LEMMA ValidApart ==
    ASSUME NEW m0 \in Manifests, SegmentsValid(m0),
           NEW i \in DOMAIN m0.segments, NEW j \in DOMAIN m0.segments, i # j
    PROVE  LET s == m0.segments[i]  o == m0.segments[j]
           IN s.address + s.length <= o.address \/ o.address + o.length <= s.address
<1> DEFINE s(k) == m0.segments[k]
<1>0. DOMAIN m0.segments \subseteq Nat
  BY DEF Manifests
<1>1. SUFFICES ASSUME NEW k \in DOMAIN m0.segments, NEW l \in DOMAIN m0.segments, l < k
               PROVE  \/ s(k).address + s(k).length <= s(l).address
                      \/ s(l).address + s(l).length <= s(k).address
  BY <1>0, SMT
<1>2. l \in 1 .. k - 1
  BY <1>1, SMT DEF Manifests
<1>3. ~Overlap(s(k).address, s(k).length, s(l).address, s(l).length)
  BY <1>2 DEF SegmentsValid, Apart
<1>4. SegmentFits(m0, s(k)) /\ SegmentFits(m0, s(l))
  BY ValidFits
<1> HIDE DEF s
<1>5. /\ Plus(s(k).address, s(k).length) = s(k).address + s(k).length
      /\ Plus(s(l).address, s(l).length) = s(l).address + s(l).length
  BY <1>4, ManifestAssumption, SMT DEF Plus, SegmentFits
<1> QED
  BY <1>3, <1>4, <1>5, SMT DEF Overlap, SegmentFits

\* The sectors of a segment are sectors of the flash, and every byte of it is in one.
LEMMA TouchedSectors ==
    ASSUME NEW m0 \in Manifests, SegmentsValid(m0), NEW i \in DOMAIN m0.segments
    PROVE  LET s == m0.segments[i] IN
           /\ Touched(s) \subseteq Sector
           /\ \A a \in Nat : s.address <= a /\ a < s.address + s.length
                => a \div SectorSize \in Touched(s)
<1> DEFINE s == m0.segments[i]
           final == s.address + s.length - 1
<1>1. SegmentFits(m0, s)
  BY ValidFits
<1> HIDE DEF s
<1>2. final \in Nat /\ s.address \in Nat /\ final < FlashSize /\ s.address <= final
  BY <1>1, ManifestAssumption, SMT DEF SegmentFits
<1>3. Touched(s) = s.address \div SectorSize .. final \div SectorSize
  BY <1>1, ManifestAssumption, SMT DEF Touched, Plus, Minus, SegmentFits
<1>4. /\ SectorSize \in Nat \ {0} /\ FlashSize \div SectorSize \in Nat
      /\ FlashSize = SectorSize * (FlashSize \div SectorSize)
  BY ManifestAssumption, ImageAssumption, SMT
<1>5. final \div SectorSize < FlashSize \div SectorSize
  BY <1>2, <1>4, DivBelow
<1>6. s.address \div SectorSize \in Nat /\ final \div SectorSize \in Nat
  BY <1>2, <1>4, SMT
<1>7. Touched(s) \subseteq Sector
  BY <1>3, <1>4, <1>5, <1>6, SMT DEF Sector
<1>8. ASSUME NEW a \in Nat, s.address <= a, a < s.address + s.length
      PROVE  a \div SectorSize \in Touched(s)
  <2>1. a <= final
    BY <1>1, <1>8, SMT DEF SegmentFits
  <2> HIDE DEF final
  <2>2. s.address \div SectorSize <= a \div SectorSize
    BY <1>2, <1>4, <1>8, DivMono
  <2>3. a \div SectorSize <= final \div SectorSize
    BY <1>2, <1>4, <2>1, DivMono
  <2>4. a \div SectorSize \in Nat
    BY <1>4, SMT
  <2> QED
    BY <1>3, <1>6, <2>2, <2>3, <2>4, SMT
<1> QED
  BY <1>7, <1>8 DEF s
-----------------------------------------------------------------------------
(***************************************************************************)
(* One command of program_segments.                                        *)
(***************************************************************************)

\* The chunk at an offset that is a whole number of words: nothing wraps, the loader
\* takes it, the storage has it, and the next offset is a whole number of words again.
LEMMA ChunkFits ==
    ASSUME NEW m0, NEW s, SegmentFits(m0, s),
           NEW offset \in Nat, offset < s.length, offset % 8 = 0,
           NEW count, count = Least(s.length - offset, ChunkSize)
    PROVE  /\ count \in Nat \ {0} /\ offset + count <= s.length
           /\ (offset + count) % 8 = 0 \/ offset + count = s.length
           /\ Plus(s.address, offset) = s.address + offset
           /\ Plus(s.data_offset, offset) = s.data_offset + offset
           /\ s.data_offset + offset + count <= m0.total_length
           /\ (s.address + offset) % 8 = 0
           /\ LoaderTakes(s.address + offset, Padded(count))
<1>1. /\ s.address \in Nat /\ s.length \in Nat \ {0} /\ s.data_offset \in Nat
      /\ s.address % 8 = 0 /\ s.address + s.length <= FlashSize
      /\ s.data_offset + s.length <= m0.total_length
      /\ m0.total_length \in Nat /\ m0.total_length <= FlashSize
  BY DEF SegmentFits
<1>2. ChunkSize \in Nat \ {0} /\ ChunkSize % 8 = 0 /\ FlashSize \in Nat /\ FlashSize % 8 = 0
  BY ImageAssumption, ManifestAssumption
<1>3. count \in Nat \ {0} /\ count <= s.length - offset /\ count <= ChunkSize
      /\ (count = s.length - offset \/ count = ChunkSize)
  BY <1>1, <1>2, SMT DEF Least
<1>4. /\ Padded(count) \in Nat /\ Padded(count) % 8 = 0
      /\ count <= Padded(count) /\ Padded(count) < count + 8
  BY <1>3, PaddedWord
<1>5. (s.address + offset) % 8 = 0
  BY <1>1, WordSum
<1>6. Padded(count) <= ChunkSize
  <2>1. Padded(count) < ChunkSize + 8
    BY <1>2, <1>3, <1>4, SMT
  <2> QED
    BY <1>2, <1>4, <2>1, WordGap
<1>7. Padded(count) <= FlashSize - (s.address + offset)
  <2>1. s.address + offset + Padded(count) < FlashSize + 8 /\ s.address + offset \in Nat
    BY <1>1, <1>2, <1>3, <1>4, SMT
  <2>2. (s.address + offset + Padded(count)) % 8 = 0
    BY <1>4, <1>5, <2>1, WordSum
  <2>3. s.address + offset + Padded(count) \in Nat
    BY <1>4, <2>1, SMT
  <2>4. s.address + offset + Padded(count) <= FlashSize
    BY <1>2, <2>1, <2>2, <2>3, WordGap
  <2> QED
    BY <1>1, <1>2, <1>4, <2>4, SMT
<1>8. /\ Plus(s.address, offset) = s.address + offset
      /\ Plus(s.data_offset, offset) = s.data_offset + offset
  BY <1>1, ManifestAssumption, SMT DEF Plus
<1>9. LoaderTakes(s.address + offset, Padded(count))
  <2>1. Minus(FlashSize, s.address + offset) = FlashSize - (s.address + offset)
    BY <1>1, <1>2, SMT DEF Minus
  <2> QED
    BY <1>1, <1>2, <1>3, <1>4, <1>5, <1>6, <1>7, <2>1, SMT
       DEF LoaderTakes, Aligned, RangeIsMain
<1>10. (offset + count) % 8 = 0 \/ offset + count = s.length
  <2>1. count = ChunkSize => (offset + count) % 8 = 0
    BY <1>2, WordSum
  <2> QED
    BY <1>1, <1>3, <2>1, SMT
<1>11. offset + count <= s.length /\ s.data_offset + offset + count <= m0.total_length
  BY <1>1, <1>3, SMT
<1> QED
  BY <1>3, <1>5, <1>8, <1>9, <1>10, <1>11

\* The words a chunk programs begin within the data of the chunk.
LEMMA ChunkWords ==
    ASSUME NEW count \in Nat, NEW address \in Nat, address % 8 = 0,
           NEW n \in Nat, n <= Padded(count) \div 8,
           NEW w \in Nat, w % 8 = 0, address <= w, w < address + 8 * n
    PROVE  w < address + count
<1>1. /\ Padded(count) \in Nat /\ Padded(count) % 8 = 0 /\ Padded(count) < count + 8
  BY PaddedWord
<1>2. 8 * n <= Padded(count)
  BY <1>1, WordCount
<1>3. ASSUME address + count <= w
      PROVE  FALSE
  <2>1. w < address + Padded(count) /\ address + Padded(count) \in Nat
    BY <1>1, <1>2, SMT
  <2>2. (address + Padded(count)) % 8 = 0
    BY <1>1, WordSum
  <2>3. w + 8 \in Nat /\ (w + 8) % 8 = 0
    BY WordSum
  <2>4. address + Padded(count) < w + 8
    BY <1>1, <1>3, SMT
  <2>5. address + Padded(count) <= w
    BY <2>1, <2>2, <2>4, WordGap
  <2> QED
    BY <2>1, <2>5, SMT
<1> QED
  BY <1>3, SMT
-----------------------------------------------------------------------------
(***************************************************************************)
(* The inductive invariant.                                                *)
(***************************************************************************)

\* An operation only ever works on a manifest that was accepted.
Accepted ==
    job.phase \in {"STAGED", "ERASE", "PROGRAM", "VERIFY"} => SegmentsValid(m)

\* Where the loops are.
Place ==
    /\ job.phase \in {"IDLE", "REJECTED", "STAGED", "ERASE"} => job.segment = 1 /\ job.offset = 0
    /\ job.phase \in {"PROGRAM", "VERIFY"} =>
        job.segment \in DOMAIN m.segments /\ job.offset < Current.length
    /\ job.phase = "PROGRAM" => job.offset % 8 = 0
    /\ job.phase = "VERIFY" => job.offset = 0
    /\ job.phase # "END" => job.status = "NONE"

\* A word that is still to be programmed has been erased, or its sector still will be.
Within(w, s) == s.address <= w /\ w < s.address + s.length
Unburnt ==
    /\ job.phase = "ERASE" =>
        \A w \in burnt, i \in DOMAIN m.segments :
            Within(w, m.segments[i]) => w \div SectorSize \in job.sectors
    /\ job.phase = "PROGRAM" =>
        \A w \in burnt :
            /\ \A i \in DOMAIN m.segments : i > job.segment => ~Within(w, m.segments[i])
            /\ Within(w, Current) => w < Current.address + job.offset

\* What has been verified is in the flash.
Held(s) == \A k \in 0 .. s.length - 1 : flash[s.address + k] = Staged(s.data_offset + k)
Verified ==
    /\ job.phase = "VERIFY" => \A i \in 1 .. job.segment - 1 : Held(m.segments[i])
    /\ job.status = "OK" => \A i \in DOMAIN m.segments : Held(m.segments[i])

NotRefused == job.status \notin Refusal

IInv == TypeOK /\ Accepted /\ Place /\ Unburnt /\ Verified /\ NotRefused

LEMMA InitInv == Init => IInv
<1> SUFFICES ASSUME Init PROVE IInv
  OBVIOUS
<1>1. burnt \subseteq Word
  BY ImageAssumption DEF Init, Word, Address
<1>2. flash \in [Address -> Byte] /\ before \in [Address -> Byte]
  <2>1. Erased \in Byte /\ Old \in Byte
    BY ManifestAssumption, SMT DEF Byte, Erased, Old, Garbage
  <2> QED
    BY <2>1 DEF Init
<1>3. job \in Job
  <2>1. 0 \in Field /\ <<>> \in Seq(Segment)
    BY ManifestAssumption, SMT DEF Field
  <2>2. job.manifest \in Manifests
    BY <2>1 DEF Init, Manifests
  <2> QED
    BY <2>2, SMT DEF Init, Job, Refusal
<1>4. Accepted /\ Place /\ Unburnt /\ Verified /\ NotRefused
  BY DEF Init, Accepted, Place, Unburnt, Verified, NotRefused, Refusal
<1> QED
  BY <1>1, <1>2, <1>3, <1>4 DEF IInv, TypeOK

\* The manifest arrives.
LEMMA ReceiveInv ==
    ASSUME IInv, job.phase = "IDLE", NEW manifest \in Manifests, NEW made \in BOOLEAN,
           Receive(manifest, made)
    PROVE  IInv'
<1> USE DEF IInv, Receive, FlashQuiet
<1>1. TypeOK'
  <2>1. job \in Job /\ UNCHANGED <<flash, burnt, before>>
    BY DEF TypeOK
  <2>2. job' \in Job
    BY <2>1, Zenon DEF Job
  <2> QED
    BY <2>1, <2>2 DEF TypeOK
<1>2. job'.status = "NONE" /\ job'.segment = 1 /\ job'.offset = 0 /\ job'.manifest = manifest
  BY SMT DEF TypeOK, Job, Place
<1>3. /\ job'.phase \in {"STAGED", "REJECTED"}
      /\ job'.phase = "STAGED" => SegmentsValid(manifest)
  BY SMT DEF TypeOK, Job, ManifestValidate
<1>4. Accepted'
  BY <1>2, <1>3 DEF Accepted, m
<1>5. Place' /\ Unburnt' /\ Verified' /\ NotRefused'
  BY <1>2, <1>3 DEF Place, Unburnt, Verified, NotRefused, Refusal
<1> QED
  BY <1>1, <1>4, <1>5

\* The lists of programmer_task: its own check of the manifest never fails.
LEMMA BeginInv == IInv /\ Begin => IInv'
<1> SUFFICES ASSUME IInv, Begin PROVE IInv'
  OBVIOUS
<1> USE DEF IInv, FlashQuiet
<1>1. job.phase = "STAGED" /\ m \in Manifests /\ SegmentsValid(m)
  BY DEF Begin, Accepted, TypeOK, Job, m
<1>2. TargetValidate(m)
  BY <1>1 DEF SegmentsValid, SegmentValid, TargetValidate, RangeIsMain
<1> DEFINE all == UNION {Touched(m.segments[i]) : i \in DOMAIN m.segments}
<1>3. PICK crc \in {TRUE, job.made} :
        job' = [job EXCEPT !.phase = "ERASE", !.crc = crc, !.sectors = all]
  BY <1>2 DEF Begin
<1>4. all \subseteq Sector
  BY <1>1, TouchedSectors
<1>5. TypeOK'
  <2>1. job \in Job /\ UNCHANGED <<flash, burnt, before>> /\ crc \in BOOLEAN
    BY DEF TypeOK, Begin, Job
  <2> HIDE DEF all
  <2>2. job' \in Job
    BY <1>3, <1>4, <2>1, Zenon DEF Job
  <2> QED
    BY <2>1, <2>2 DEF TypeOK
<1>6. job'.phase = "ERASE" /\ job'.manifest = job.manifest /\ job'.sectors = all
      /\ job'.segment = 1 /\ job'.offset = 0 /\ job'.status = "NONE"
  BY <1>1, <1>3, SMT DEF TypeOK, Job, Place
<1>7. Accepted' /\ Place' /\ Verified' /\ NotRefused'
  BY <1>1, <1>6 DEF Accepted, Place, Verified, NotRefused, Refusal, m
<1>8. Unburnt'
  <2>1. ASSUME NEW w \in burnt, NEW i \in DOMAIN m.segments, Within(w, m.segments[i])
        PROVE  w \div SectorSize \in all
    <3>1. w \in Nat
      BY SMT DEF TypeOK, Word, Address
    <3> QED
      BY <1>1, <2>1, <3>1, TouchedSectors DEF Within
  <2> QED
    BY <1>6, <2>1 DEF Unburnt, Begin, m
<1> QED
  BY <1>5, <1>7, <1>8

\* The operation ends in an error other than a refusal.
LEMMA EndInv ==
    ASSUME IInv, NEW status \in {"ABORTED", "FAILED", "VERIFY", "CRC"}, job' = Ended(status),
           flash' \in [Address -> Byte], burnt' \subseteq Word, UNCHANGED before
    PROVE  IInv'
<1> USE DEF IInv, Ended
<1>1. TypeOK'
  <2>1. job \in Job
    BY DEF TypeOK
  <2>2. job' \in Job
    BY <2>1, Zenon DEF Job
  <2> QED
    BY <2>2 DEF TypeOK
<1>2. job'.phase = "END" /\ job'.status = status
  BY SMT DEF TypeOK, Job
<1> QED
  BY <1>1, <1>2 DEF Accepted, Place, Unburnt, Verified, NotRefused, Refusal

LEMMA StopInv == IInv /\ Stop => IInv'
  BY EndInv DEF Stop, FlashQuiet, IInv, TypeOK

\* The sector erased is one of the list, and the loader takes it.
InSectorOf(s, a) == s * SectorSize <= a /\ a < s * SectorSize + SectorSize
Filled(s, byte) == [a \in Address |-> IF InSectorOf(s, a) THEN byte ELSE flash[a]]
ErasesOne(s) ==
    \/ /\ flash' = Filled(s, Erased) /\ burnt' = {w \in burnt : ~InSectorOf(s, w)}
       /\ job' = [job EXCEPT !.sectors = @ \ {s}]
    \/ flash' = Filled(s, Garbage) /\ UNCHANGED burnt /\ job' = Ended("FAILED")
LEMMA EraseStep ==
    ASSUME IInv, EraseSector
    PROVE  /\ job.phase = "ERASE" /\ job \in Job /\ job.sectors \subseteq Sector
           /\ flash \in [Address -> Byte] /\ burnt \subseteq Word /\ UNCHANGED before
           /\ \E s \in job.sectors : ErasesOne(s)
<1>1. job.phase = "ERASE" /\ job \in Job /\ flash \in [Address -> Byte] /\ burnt \subseteq Word
      /\ UNCHANGED before
  BY DEF EraseSector, IInv, TypeOK
<1>2. ASSUME NEW s \in Sector
      PROVE  RangeIsMain(s * SectorSize, SectorSize)
  <2>1. Minus(FlashSize, s * SectorSize) = FlashSize - s * SectorSize
    BY SectorInFlash, ManifestAssumption, SMT DEF Minus
  <2> QED
    BY <2>1, SectorInFlash, ImageAssumption, SMT DEF RangeIsMain
<1>3. job.sectors \subseteq Sector
  BY <1>1 DEF Job
<1>4. \E s \in job.sectors : ErasesOne(s)
  BY <1>2, <1>3 DEF EraseSector, ErasesOne, Filled, InSectorOf
<1> QED
  BY <1>1, <1>3, <1>4

\* A byte is in a sector when division says so.
LEMMA SectorOf ==
    ASSUME NEW s \in Sector, NEW a \in Nat
    PROVE  InSectorOf(s, a) <=> a \div SectorSize = s
<1>1. SectorSize \in Nat \ {0} /\ s \in Nat
  BY ImageAssumption DEF Sector
<1> QED
  BY <1>1, DivRange, SMT DEF InSectorOf

\* A sector is erased: the words that stay programmed are of other sectors.
LEMMA EraseSectorInv == IInv /\ EraseSector => IInv'
<1> SUFFICES ASSUME IInv, EraseSector PROVE IInv'
  OBVIOUS
<1>1. /\ job.phase = "ERASE" /\ job \in Job /\ job.sectors \subseteq Sector
      /\ flash \in [Address -> Byte] /\ burnt \subseteq Word /\ UNCHANGED before
  BY EraseStep
<1>4. PICK s \in job.sectors : ErasesOne(s)
  BY EraseStep
<1>5. flash' \in [Address -> Byte]
  <2>1. Erased \in Byte /\ Garbage \in Byte
    BY ManifestAssumption, SMT DEF Byte, Erased, Garbage
  <2> QED
    BY <1>1, <1>4, <2>1 DEF ErasesOne, Filled
<1>6. burnt' \subseteq Word
  BY <1>1, <1>4 DEF ErasesOne
<1>7. CASE job' = Ended("FAILED")
  BY <1>1, <1>5, <1>6, <1>7, EndInv
<1>8. CASE /\ burnt' = {w \in burnt : ~InSectorOf(s, w)}
           /\ job' = [job EXCEPT !.sectors = @ \ {s}]
  <2>1. job' \in Job
    BY <1>1, <1>8, Zenon DEF Job
  <2>2. TypeOK'
    BY <1>1, <1>5, <1>6, <2>1 DEF TypeOK, IInv
  <2>3. /\ job'.phase = "ERASE" /\ job'.manifest = job.manifest /\ job'.segment = 1
        /\ job'.offset = 0 /\ job'.status = "NONE" /\ job'.sectors = job.sectors \ {s}
    BY <1>1, <1>8, SMT DEF Job, IInv, Place
  <2>4. Accepted' /\ Place' /\ Verified' /\ NotRefused'
    BY <1>1, <2>3 DEF IInv, Accepted, Place, Verified, NotRefused, Refusal, m
  <2>5. ASSUME NEW w \in burnt', NEW i \in DOMAIN m.segments, Within(w, m.segments[i])
        PROVE  w \div SectorSize \in job'.sectors
    <3>1. w \in burnt /\ ~InSectorOf(s, w) /\ w \in Nat
      BY <1>1, <1>8, SMT DEF Word, Address
    <3>2. w \div SectorSize \in job.sectors
      BY <1>1, <2>5, <3>1 DEF IInv, Unburnt
    <3>3. w \div SectorSize # s
      BY <1>1, <3>1, SectorOf
    <3> QED
      BY <2>3, <3>2, <3>3
  <2>6. Unburnt'
    BY <2>3, <2>5 DEF Unburnt, m
  <2> QED
    BY <2>2, <2>4, <2>6 DEF IInv
<1> QED
  BY <1>4, <1>7, <1>8 DEF ErasesOne

\* When no sector is left, no word of any segment is programmed.
LEMMA EraseDoneInv == IInv /\ EraseDone => IInv'
<1> SUFFICES ASSUME IInv, EraseDone PROVE IInv'
  OBVIOUS
<1>1. /\ job.phase = "ERASE" /\ job.sectors = {} /\ job \in Job
      /\ job' = [job EXCEPT !.phase = "PROGRAM"] /\ UNCHANGED <<flash, burnt, before>>
  BY DEF EraseDone, FlashQuiet, IInv, TypeOK
<1>2. job' \in Job
  BY <1>1, Zenon DEF Job
<1>3. TypeOK'
  BY <1>1, <1>2 DEF TypeOK, IInv
<1>4. /\ job'.phase = "PROGRAM" /\ job'.manifest = job.manifest /\ job'.segment = 1
      /\ job'.offset = 0 /\ job'.status = "NONE"
  BY <1>1, SMT DEF Job, IInv, Place
<1>5. m \in Manifests /\ SegmentsValid(m)
  BY <1>1 DEF IInv, Accepted, m, Job
<1>6. 1 \in DOMAIN m.segments /\ 0 < m.segments[1].length
  BY <1>5, SegmentIndex, SMT
<1>7. Accepted' /\ Verified' /\ NotRefused'
  BY <1>4, <1>5 DEF Accepted, Verified, NotRefused, Refusal, m
<1>8. Place'
  <2>1. 0 % 8 = 0
    BY SMT
  <2> QED
    BY <1>4, <1>6, <2>1 DEF Place, m, Current
<1>9. \A w \in burnt, i \in DOMAIN m.segments : ~Within(w, m.segments[i])
  BY <1>1 DEF IInv, Unburnt
<1>10. Unburnt'
  BY <1>1, <1>4, <1>6, <1>9 DEF Unburnt, m, Current
<1> QED
  BY <1>3, <1>7, <1>8, <1>10 DEF IInv

\* A word of the flash within a run of whole words lies in it with all its bytes.
LEMMA WordWithin ==
    ASSUME NEW a \in Nat, NEW first \in Nat, NEW size \in Nat,
           first % 8 = 0, size % 8 = 0, first <= WordOf(a), WordOf(a) < first + size
    PROVE  first <= a /\ a < first + size
<1>1. WordOf(a) \in Nat /\ WordOf(a) % 8 = 0 /\ WordOf(a) <= a /\ a < WordOf(a) + 8
  BY SMT DEF WordOf
<1>2. (first + size) % 8 = 0 /\ first + size \in Nat
  BY WordSum, SMT
<1>3. (WordOf(a) + 8) % 8 = 0 /\ WordOf(a) + 8 \in Nat
  BY <1>1, WordSum, SMT
<1>4. WordOf(a) + 8 <= first + size
  <2>1. WordOf(a) + 8 < first + size + 8
    BY <1>1, SMT
  <2> HIDE DEF WordOf
  <2> QED
    BY <1>2, <1>3, <2>1, WordGap
<1> QED
  BY <1>1, <1>4, SMT

\* Where the loops are after a command that programmed the segment up to end.
ChunkTo(end) ==
    \/ /\ end < Current.length
       /\ job'.phase = "PROGRAM" /\ job'.segment = job.segment /\ job'.offset = end
    \/ /\ end = Current.length /\ job.segment < Len(m.segments)
       /\ job'.phase = "PROGRAM" /\ job'.segment = job.segment + 1 /\ job'.offset = 0
    \/ end = Current.length /\ ~(job.segment < Len(m.segments)) /\ job'.phase = "VERIFY"

\* What a command does to the flash: outside its segment nothing but padding, in it
\* nothing before the offset, and from there the data, unless the flash is at fault.
ChunkEffect ==
    /\ job'.manifest = job.manifest /\ UNCHANGED before
    /\ job'.made = job.made /\ job'.crc = job.crc
    /\ \A a \in Address : flash'[a] # flash[a] =>
          /\ InSegment(WordOf(a)) /\ Within(WordOf(a), Current)
          /\ Current.address + job.offset <= a
    /\ \/ job'.phase = "END" /\ job'.status \notin {"OK", "VERIFY", "CRC"}
       \/ /\ \E end \in Nat :
                /\ ChunkTo(end)
                /\ ~job'.faulty => \A k \in job.offset .. end - 1 :
                        flash'[Current.address + k] = Staged(Current.data_offset + k)
          /\ job'.phase \in {"PROGRAM", "VERIFY"} /\ job'.status = "NONE"
          /\ ~job'.faulty =>
                /\ ~job.faulty
                /\ \A a \in Address : ~InSegment(a) /\ flash[a] = Erased => flash'[a] = Erased

\* A sum of lengths that does not pass the end is below it or is it.
LEMMA EndIs ==
    ASSUME NEW x \in Nat, NEW y \in Nat, NEW l \in Nat, x + y <= l
    PROVE  x + y \in Nat /\ (x + y < l \/ x + y = l)
  BY SMT

\* One command of the loader programs words of the segment at and behind the offset,
\* which have been erased; those before it stay as they are.
LEMMA ProgramChunkInv == IInv /\ ProgramChunk => IInv' /\ ChunkEffect
<1> SUFFICES ASSUME IInv, ProgramChunk PROVE IInv' /\ ChunkEffect
  OBVIOUS
<1> DEFINE count == Least(Current.length - job.offset, ChunkSize)
           padded == Padded(count)
           address == Plus(Current.address, job.offset)
           first == Plus(Current.data_offset, job.offset)
           buffer == Buffer(first, count, padded)
           words(n) == {w \in Word : address <= w /\ w < address + 8 * n}
           written(n, bad) ==
               [a \in Address |->
                   IF WordOf(a) \in words(n)
                   THEN IF WordOf(a) \in bad THEN Garbage ELSE buffer[a - address]
                   ELSE flash[a]]
           next == Advanced(count, [job EXCEPT !.phase = "VERIFY"])
<1>1. /\ job.phase = "PROGRAM" /\ job \in Job /\ UNCHANGED before
      /\ flash \in [Address -> Byte] /\ burnt \subseteq Word
  BY DEF ProgramChunk, IInv, TypeOK
<1>2. /\ m \in Manifests /\ SegmentsValid(m) /\ job.segment \in DOMAIN m.segments
      /\ job.segment \in Nat /\ job.offset \in Nat /\ job.offset < Current.length
      /\ job.offset % 8 = 0 /\ job.status = "NONE" /\ job.faulty \in BOOLEAN
  BY <1>1 DEF IInv, Accepted, Place, m, Job
<1>3. SegmentFits(m, Current)
  BY <1>2, ValidFits DEF Current
<1>4. /\ count \in Nat \ {0} /\ job.offset + count <= Current.length
      /\ (job.offset + count) % 8 = 0 \/ job.offset + count = Current.length
      /\ address = Current.address + job.offset
      /\ first = Current.data_offset + job.offset
      /\ first + count <= m.total_length
      /\ address % 8 = 0
      /\ LoaderTakes(address, padded)
  BY <1>2, <1>3, ChunkFits
<1>5. /\ padded \in Nat /\ padded % 8 = 0 /\ count <= padded /\ padded < count + 8
      /\ address \in Nat /\ first \in Nat
  <2>1. /\ padded \in Nat /\ padded % 8 = 0 /\ count <= padded /\ padded < count + 8
    BY <1>4, PaddedWord
  <2>2. Current.address + job.offset \in Nat /\ Current.data_offset + job.offset \in Nat
    BY <1>2, <1>3, SMT DEF SegmentFits
  <2> QED
    BY <1>4, <2>1, <2>2
<1>6. StorageReads(first, count)
  BY <1>3, <1>4, <1>5, SMT DEF StorageReads, Minus, SegmentFits
<1>7. ASSUME NEW n \in 0 .. padded \div 8, NEW w \in words(n)
      PROVE  address <= w /\ w < address + count /\ Within(w, Current)
  <2>1. w \in Nat /\ w % 8 = 0 /\ address <= w /\ w < address + 8 * n
    BY SMT DEF Word, Address
  <2>2. n \in Nat /\ n <= padded \div 8
    BY <1>5, SMT
  <2>3. w < address + count
    BY <1>4, <1>5, <2>1, <2>2, ChunkWords
  <2> HIDE DEF count, address
  <2> QED
    BY <1>2, <1>3, <1>4, <2>1, <2>3, SMT DEF Within, SegmentFits
<1>8. words(padded \div 8) \cap burnt = {}
  <2>1. ASSUME NEW w \in words(padded \div 8), w \in burnt
        PROVE  FALSE
    <3>1. padded \div 8 \in 0 .. padded \div 8
      BY <1>5, SMT
    <3>2. address <= w /\ Within(w, Current)
      BY <1>7, <3>1
    <3>3. w < Current.address + job.offset
      BY <1>1, <2>1, <3>2 DEF IInv, Unburnt
    <3>4. w \in Nat
      BY SMT DEF Word, Address
    <3> HIDE DEF count, address, words
    <3> QED
      BY <1>2, <1>4, <1>5, <3>2, <3>3, <3>4, SMT
  <2> QED
    BY <2>1
<1>9. PICK n \in 1 .. padded \div 8, ok \in BOOLEAN, bad \in SUBSET words(padded \div 8) :
        /\ ok => n = padded \div 8
        /\ flash' = written(n, bad) /\ burnt' = burnt \cup words(n)
        /\ job' = IF ok THEN [next EXCEPT !.faulty = @ \/ bad # {}] ELSE Ended("FAILED")
  <2>1. IF ~StorageReads(first, count)
        THEN job' = Ended("STORAGE") /\ UNCHANGED <<flash, burnt>>
        ELSE IF ~LoaderTakes(address, padded)
        THEN job' = Ended("RANGE") /\ UNCHANGED <<flash, burnt>>
        ELSE IF words(padded \div 8) \cap burnt # {}
        THEN job' = Ended("TWICE") /\ UNCHANGED <<flash, burnt>>
        ELSE \E n \in 1 .. padded \div 8, ok \in BOOLEAN, bad \in SUBSET words(padded \div 8) :
             /\ ok => n = padded \div 8
             /\ flash' = written(n, bad) /\ burnt' = burnt \cup words(n)
             /\ job' = IF ok THEN [next EXCEPT !.faulty = @ \/ bad # {}]
                       ELSE Ended("FAILED")
    BY DEF ProgramChunk
  <2> HIDE DEF count, padded, address, first, words, written, next
  <2> QED
    BY <1>4, <1>6, <1>8, <2>1
<1>10. burnt' \subseteq Word
  BY <1>1, <1>9
<1>11. n \in 0 .. padded \div 8 /\ n \in Nat /\ 8 * n <= padded
  BY <1>5, <1>9, WordCount, SMT
<1>12. flash' \in [Address -> Byte]
  <2>1. ASSUME NEW a \in Address, WordOf(a) \in words(n)
        PROVE  buffer[a - address] \in Byte
    <3>1. address <= WordOf(a) /\ WordOf(a) < address + padded /\ a \in Nat
      BY <1>5, <1>11, <2>1, SMT DEF Word, Address
    <3>2. address <= a /\ a < address + padded
      BY <1>4, <1>5, <3>1, WordWithin
    <3> DEFINE i == a - address
    <3>3. i \in 0 .. padded - 1
      BY <1>5, <3>1, <3>2, SMT
    <3> HIDE DEF count, padded, address, first, i
    <3>4. buffer[i] = IF i < count THEN Staged(first + i) ELSE Erased
      BY <3>3 DEF Buffer
    <3>5. i < count => Staged(first + i) \in Byte
      BY <1>3, <1>4, <1>5, <3>3, ManifestAssumption, SMT
         DEF Staged, Byte, Garbage, SegmentFits
    <3>6. Erased \in Byte
      BY ManifestAssumption, SMT DEF Byte, Erased, Garbage
    <3> QED
      BY <3>4, <3>5, <3>6 DEF i
  <2>2. Garbage \in Byte
    BY ManifestAssumption, SMT DEF Byte, Garbage
  <2> HIDE DEF count, padded, address, first, buffer, words
  <2> QED
    BY <1>1, <1>9, <2>1, <2>2
<1>13. ASSUME ~ok
       PROVE  /\ IInv' /\ job'.phase = "END" /\ job'.status = "FAILED"
              /\ job'.manifest = job.manifest /\ job'.made = job.made /\ job'.crc = job.crc
  <2>1. job' = Ended("FAILED")
    BY <1>9, <1>13
  <2>2. /\ job'.phase = "END" /\ job'.status = "FAILED" /\ job'.manifest = job.manifest
        /\ job'.made = job.made /\ job'.crc = job.crc
    BY <1>1, <2>1, SMT DEF Ended, Job
  <2> QED
    BY <1>1, <1>10, <1>12, <2>1, <2>2, EndInv
<1>14. ASSUME ok
       PROVE  /\ job' \in Job
              /\ job'.manifest = job.manifest /\ job'.status = "NONE"
              /\ job'.made = job.made /\ job'.crc = job.crc
              /\ ~job'.faulty => ~job.faulty /\ bad = {}
              /\ \/ /\ job.offset + count < Current.length
                    /\ job'.phase = "PROGRAM" /\ job'.segment = job.segment
                    /\ job'.offset = job.offset + count
                 \/ /\ ~(job.offset + count < Current.length) /\ job.segment < Len(m.segments)
                    /\ job'.phase = "PROGRAM" /\ job'.segment = job.segment + 1
                    /\ job'.offset = 0
                 \/ /\ ~(job.offset + count < Current.length) /\ ~(job.segment < Len(m.segments))
                    /\ job'.phase = "VERIFY" /\ job'.segment = 1 /\ job'.offset = 0
  <2> HIDE DEF count, words
  <2>1. job' = [next EXCEPT !.faulty = @ \/ bad # {}]
    BY <1>9, <1>14
  <2>2. job.offset + count \in Nat /\ job.segment + 1 \in Nat
    BY <1>2, <1>4, SMT
  <2>3. CASE job.offset + count < Current.length
    <3>1. job' = [[job EXCEPT !.offset = job.offset + count]
                     EXCEPT !.faulty = @ \/ bad # {}]
      BY <1>1, <2>1, <2>3, SMT DEF Advanced, Job
    <3>2. job' \in Job
      BY <1>1, <2>2, <3>1, Zenon DEF Job
    <3>3. /\ job'.manifest = job.manifest /\ job'.status = job.status
          /\ job'.made = job.made /\ job'.crc = job.crc
          /\ job'.phase = "PROGRAM" /\ job'.segment = job.segment
          /\ job'.offset = job.offset + count
      BY <1>1, <3>1, SMT DEF Job
    <3>4. ~job'.faulty => ~job.faulty /\ bad = {}
      BY <1>1, <3>1, Zenon DEF Job
    <3> QED
      BY <1>2, <2>3, <3>2, <3>3, <3>4
  <2>4. CASE ~(job.offset + count < Current.length) /\ job.segment < Len(m.segments)
    <3>1. job' = [[job EXCEPT !.segment = job.segment + 1, !.offset = 0]
                     EXCEPT !.faulty = @ \/ bad # {}]
      BY <1>1, <2>1, <2>4, SMT DEF Advanced, Job
    <3>2. job' \in Job
      BY <1>1, <2>2, <3>1, Zenon DEF Job
    <3>3. /\ job'.manifest = job.manifest /\ job'.status = job.status
          /\ job'.made = job.made /\ job'.crc = job.crc
          /\ job'.phase = "PROGRAM" /\ job'.segment = job.segment + 1
          /\ job'.offset = 0
      BY <1>1, <3>1, SMT DEF Job
    <3>4. ~job'.faulty => ~job.faulty /\ bad = {}
      BY <1>1, <3>1, Zenon DEF Job
    <3> QED
      BY <1>2, <2>4, <3>2, <3>3, <3>4
  <2>5. CASE ~(job.offset + count < Current.length) /\ ~(job.segment < Len(m.segments))
    <3>1. job' = [[[job EXCEPT !.phase = "VERIFY"] EXCEPT !.segment = 1, !.offset = 0]
                     EXCEPT !.faulty = @ \/ bad # {}]
      BY <2>1, <2>5 DEF Advanced
    <3>2. job' \in Job
      BY <1>1, <3>1, Zenon DEF Job
    <3>3. /\ job'.manifest = job.manifest /\ job'.status = job.status
          /\ job'.made = job.made /\ job'.crc = job.crc
          /\ job'.phase = "VERIFY" /\ job'.segment = 1 /\ job'.offset = 0
      BY <1>1, <3>1, SMT DEF Job
    <3>4. ~job'.faulty => ~job.faulty /\ bad = {}
      BY <1>1, <3>1, Zenon DEF Job
    <3> QED
      BY <1>2, <2>5, <3>2, <3>3, <3>4
  <2> QED
    BY <2>3, <2>4, <2>5
<1>15. ASSUME ok
       PROVE  Place'
  <2> HIDE DEF count
  <2>1. 0 % 8 = 0
    BY SMT
  <2>2. job.offset + count < Current.length => (job.offset + count) % 8 = 0
    BY <1>2, <1>4, SMT
  <2>3. job.segment < Len(m.segments) => job.segment + 1 \in DOMAIN m.segments
    BY <1>2, SegmentIndex, SMT
  <2>4. 1 \in DOMAIN m.segments
    BY <1>2, SegmentIndex, SMT
  <2> QED
    BY <1>2, <1>14, <1>15, <2>1, <2>2, <2>3, <2>4, SegmentIndex DEF Place, m, Current
<1>16. ASSUME ok
       PROVE  Unburnt'
  <2>1. ASSUME NEW w \in burnt', NEW i \in DOMAIN m.segments, i > job.segment
        PROVE  ~Within(w, m.segments[i])
    <3>1. CASE w \in burnt
      BY <1>1, <2>1, <3>1 DEF IInv, Unburnt
    <3>2. CASE w \in words(n)
      <4>1. Within(w, Current) /\ w \in Nat
        BY <1>7, <1>11, <3>2, SMT DEF Word, Address
      <4>2. i # job.segment
        BY <1>2, <2>1, SMT
      <4>3. \/ Current.address + Current.length <= m.segments[i].address
            \/ m.segments[i].address + m.segments[i].length <= Current.address
        BY <1>2, <4>2, ValidApart DEF Current
      <4>4. SegmentFits(m, m.segments[i])
        BY <1>2, ValidFits
      <4> QED
        BY <1>3, <4>1, <4>3, <4>4, SMT DEF Within, SegmentFits
    <3> QED
      BY <1>9, <3>1, <3>2
  <2>2. ASSUME NEW w \in burnt', Within(w, Current)
        PROVE  w < Current.address + (job.offset + count)
    <3>1. CASE w \in burnt
      <4>1. w < Current.address + job.offset /\ w \in Nat
        BY <1>1, <2>2, <3>1, SMT DEF IInv, Unburnt, Word, Address
      <4> HIDE DEF count
      <4> QED
        BY <1>2, <1>3, <1>4, <4>1, SMT DEF SegmentFits
    <3>2. CASE w \in words(n)
      <4>1. w < address + count
        BY <1>7, <1>11, <3>2
      <4>2. address + count = Current.address + (job.offset + count)
        <5> HIDE DEF count, address
        <5> QED
          BY <1>2, <1>3, <1>4, SMT DEF SegmentFits
      <4> QED
        BY <4>1, <4>2
    <3> QED
      BY <1>9, <3>1, <3>2
  <2> HIDE DEF count, words
  <2>3. job.segment + 1 > job.segment
    BY <1>2, SMT
  <2>4. ASSUME NEW i \in DOMAIN m.segments, i > job.segment + 1
        PROVE  i > job.segment
    BY <1>2, <2>4, SegmentIndex, SMT
  <2>5. job.segment < Len(m.segments) => job.segment + 1 \in DOMAIN m.segments
    BY <1>2, SegmentIndex, SMT
  <2>6. m' = m
    BY <1>14, <1>16 DEF m
  <2>7. CASE job'.phase = "PROGRAM" /\ job'.segment = job.segment
             /\ job'.offset = job.offset + count
    BY <2>1, <2>2, <2>6, <2>7 DEF Unburnt, Current
  <2>8. CASE job'.phase = "PROGRAM" /\ job'.segment = job.segment + 1
             /\ job.segment < Len(m.segments)
    BY <2>1, <2>3, <2>4, <2>5, <2>6, <2>8 DEF Unburnt, Current
  <2> QED
    BY <1>14, <1>16, <2>7, <2>8 DEF Unburnt
<1>17. ASSUME ok
       PROVE  Accepted' /\ Verified' /\ NotRefused' /\ TypeOK'
  <2>1. TypeOK'
    BY <1>1, <1>10, <1>12, <1>14, <1>17 DEF TypeOK, IInv
  <2>2. 1 .. 1 - 1 = {}
    BY SMT
  <2> QED
    BY <1>2, <1>14, <1>17, <2>1, <2>2 DEF Accepted, Verified, NotRefused, Refusal, m
<1>18. ASSUME NEW a \in Address, flash'[a] # flash[a]
       PROVE  /\ InSegment(WordOf(a)) /\ Within(WordOf(a), Current)
              /\ Current.address + job.offset <= a
  <2>1. WordOf(a) \in words(n)
    BY <1>9, <1>18
  <2>2. Within(WordOf(a), Current) /\ address <= WordOf(a)
    BY <1>7, <1>11, <2>1
  <2>3. InSegment(WordOf(a))
    BY <1>2, <2>2 DEF InSegment, Within, Current
  <2>4. Current.address + job.offset <= a
    <3>1. WordOf(a) \in Nat /\ WordOf(a) <= a /\ a \in Nat
      BY SMT DEF WordOf, Address
    <3> HIDE DEF address
    <3> QED
      BY <1>4, <1>5, <2>2, <3>1, SMT
  <2> QED
    BY <2>2, <2>3, <2>4
<1>19. ASSUME bad = {}, NEW a \in Address, ~InSegment(a), flash[a] = Erased
       PROVE  flash'[a] = Erased
  <2>1. CASE WordOf(a) \notin words(n)
    BY <1>9, <1>19, <2>1
  <2>2. CASE WordOf(a) \in words(n)
    <3>1. flash'[a] = buffer[a - address]
      BY <1>9, <1>19, <2>2
    <3>2. address <= WordOf(a) /\ WordOf(a) < address + padded /\ a \in Nat
      BY <1>5, <1>11, <2>2, SMT DEF Word, Address
    <3>3. address <= a /\ a < address + padded
      BY <1>4, <1>5, <3>2, WordWithin
    <3> DEFINE i == a - address
    <3>4. i \in 0 .. padded - 1
      BY <1>5, <3>2, <3>3, SMT
    <3>5. ~(i < count)
      <4>1. ~(Current.address <= a /\ a < Current.address + Current.length)
        BY <1>2, <1>19 DEF InSegment, Current
      <4> HIDE DEF count, address
      <4> QED
        BY <1>2, <1>3, <1>4, <1>5, <3>2, <3>3, <4>1, SMT DEF SegmentFits
    <3> HIDE DEF count, padded, address, first, i
    <3>6. buffer[i] = Erased
      BY <3>4, <3>5 DEF Buffer
    <3> QED
      BY <3>1, <3>6 DEF i
  <2> QED
    BY <2>1, <2>2
<1>20. ASSUME ok, bad = {}, NEW k \in job.offset .. job.offset + count - 1
       PROVE  flash'[Current.address + k] = Staged(Current.data_offset + k)
  <2> DEFINE a == Current.address + k
             i == a - address
  <2>1. /\ a \in Nat /\ a < FlashSize /\ address <= a /\ a < address + count
        /\ i \in 0 .. padded - 1 /\ i < count /\ first + i = Current.data_offset + k
    <3> HIDE DEF count, padded, address, first
    <3>1. /\ Current.address \in Nat /\ Current.data_offset \in Nat /\ Current.length \in Nat
          /\ Current.address + Current.length <= FlashSize /\ FlashSize \in Nat
      BY <1>3, ManifestAssumption DEF SegmentFits
    <3>2. k \in Nat /\ job.offset <= k /\ k < job.offset + count /\ count \in Nat
      BY <1>2, <1>4, <1>20
    <3>3. a \in Nat /\ a < FlashSize
      BY <1>2, <1>4, <3>1, <3>2
    <3>4. address <= a /\ a < address + count /\ i = k - job.offset
      BY <1>2, <1>4, <1>5, <3>1, <3>2
    <3> QED
      BY <1>2, <1>4, <1>5, <3>1, <3>2, <3>3, <3>4
  <2> HIDE DEF a, i
  <2>2. WordOf(a) \in Nat /\ WordOf(a) % 8 = 0 /\ WordOf(a) <= a /\ a < WordOf(a) + 8
    BY <2>1, SMT DEF WordOf
  <2>3. a \in Address /\ WordOf(a) \in Word
    BY <2>1, <2>2, ManifestAssumption, SMT DEF Word, Address
  <2>4. address <= WordOf(a)
    <3> HIDE DEF count, address
    <3>1. address < WordOf(a) + 8
      BY <1>5, <2>1, <2>2, SMT
    <3> HIDE DEF WordOf
    <3> QED
      BY <1>4, <1>5, <2>2, <3>1, WordGap
  <2>5. WordOf(a) < address + 8 * n
    <3> HIDE DEF count, padded, address
    <3>1. 8 * n = padded
      BY <1>5, <1>9, <1>20, SMT
    <3> QED
      BY <1>4, <1>5, <2>1, <2>2, <3>1, SMT
  <2>6. WordOf(a) \in words(n)
    BY <2>3, <2>4, <2>5
  <2>7. flash'[a] = buffer[a - address]
    <3> HIDE DEF count, padded, address, first, buffer, words
    <3> QED
      BY <1>9, <1>20, <2>3, <2>6
  <2> HIDE DEF count, padded, address, first
  <2>8. buffer[i] = Staged(first + i)
    BY <2>1 DEF Buffer
  <2> QED
    BY <2>1, <2>7, <2>8 DEF a, i
<1>21. CASE ~ok
  BY <1>1, <1>13, <1>18, <1>21 DEF ChunkEffect
<1>22. CASE ok
  <2>1. job'.phase \in {"PROGRAM", "VERIFY"} /\ job'.status = "NONE"
    BY <1>1, <1>14, <1>22
  <2>2. \E end \in Nat :
            /\ ChunkTo(end)
            /\ ~job'.faulty => \A k \in job.offset .. end - 1 :
                    flash'[Current.address + k] = Staged(Current.data_offset + k)
    <3> DEFINE end == job.offset + count
    <3>1. end \in Nat /\ (end < Current.length \/ end = Current.length)
      <4> HIDE DEF count, padded, address, words
      <4>1. job.offset \in Nat /\ count \in Nat /\ job.offset + count <= Current.length
        BY <1>2, <1>4
      <4>2. Current.length \in Nat
        BY <1>3 DEF SegmentFits
      <4> QED
        BY <4>1, <4>2, EndIs
    <3>2. ~job'.faulty => bad = {}
      BY <1>14, <1>22
    <3>3. ~job'.faulty => \A k \in job.offset .. end - 1 :
             flash'[Current.address + k] = Staged(Current.data_offset + k)
      <4>0. end = job.offset + count
        BY DEF end
      <4> HIDE DEF end, count
      <4>1. ASSUME bad = {}, NEW k \in job.offset .. end - 1
            PROVE  flash'[Current.address + k] = Staged(Current.data_offset + k)
        <5>1. k \in job.offset .. job.offset + count - 1
          BY <1>2, <1>4, <4>0, <4>1
        <5> QED
          BY <1>22, <1>20, <4>1, <5>1
      <4> QED
        BY <3>2, <4>1
    <3> HIDE DEF end
    <3>4. ChunkTo(end)
      <4>1. job.offset + count = end
        BY DEF end
      <4> HIDE DEF count
      <4> QED
        BY <1>14, <1>22, <3>1, <4>1 DEF ChunkTo
    <3> QED
      BY <3>1, <3>3, <3>4
  <2>3. ChunkEffect
    <3> HIDE DEF count, words, written
    <3> QED
      BY <1>1, <1>14, <1>18, <1>19, <1>22, <2>1, <2>2 DEF ChunkEffect
  <2> QED
    BY <1>15, <1>16, <1>17, <1>22, <2>3 DEF IInv
<1> QED
  BY <1>21, <1>22

\* A segment whose bytes are read back as they were staged is held by the flash.
LEMMA VerifySegmentInv == IInv /\ VerifySegment => IInv'
<1> SUFFICES ASSUME IInv, VerifySegment PROVE IInv'
  OBVIOUS
<1> DEFINE ok == Concatenated(job.segment) = [k \in 1 .. m.total_length |-> Staged(k - 1)]
           final == IF ok THEN "OK" ELSE "VERIFY"
           next == Advanced(Current.length, Ended(final))
<1>1. /\ job.phase = "VERIFY" /\ job \in Job /\ UNCHANGED <<flash, burnt, before>>
      /\ flash \in [Address -> Byte] /\ burnt \subseteq Word
  BY DEF VerifySegment, FlashQuiet, IInv, TypeOK
<1>2. /\ m \in Manifests /\ SegmentsValid(m) /\ job.segment \in DOMAIN m.segments
      /\ job.segment \in Nat /\ job.offset = 0 /\ job.status = "NONE"
  BY <1>1 DEF IInv, Accepted, Place, m, Job
<1>3. SegmentFits(m, Current)
  BY <1>2, ValidFits DEF Current
<1>4. StorageReads(Current.data_offset, Current.length)
  BY <1>3, SMT DEF StorageReads, Minus, SegmentFits
<1>5. \/ job' = Ended("VERIFY") \/ job' = Ended("CRC")
      \/ ReadBack(Current) = Expected(Current) /\ job' = next
  BY <1>4 DEF VerifySegment
<1>6. CASE job' = Ended("VERIFY") \/ job' = Ended("CRC")
  BY <1>1, <1>6, EndInv
<1>7. ASSUME ReadBack(Current) = Expected(Current), job' = next
      PROVE  IInv'
  <2>1. Held(Current)
    <3>1. ASSUME NEW k \in 0 .. Current.length - 1
          PROVE  flash[Current.address + k] = Staged(Current.data_offset + k)
      <4>1. k + 1 \in 1 .. Current.length /\ Current.address + (k + 1) - 1 = Current.address + k
            /\ Current.data_offset + (k + 1) - 1 = Current.data_offset + k
        BY <1>3, SMT DEF SegmentFits
      <4>2. /\ ReadBack(Current)[k + 1] = flash[Current.address + (k + 1) - 1]
            /\ Expected(Current)[k + 1] = Staged(Current.data_offset + (k + 1) - 1)
        BY <4>1 DEF ReadBack, Expected
      <4> QED
        BY <1>7, <4>1, <4>2
    <3> QED
      BY <3>1 DEF Held
  <2>2. \A i \in 1 .. job.segment : Held(m.segments[i])
    <3>1. \A i \in 1 .. job.segment - 1 : Held(m.segments[i])
      BY <1>1 DEF IInv, Verified
    <3>2. \A i \in 1 .. job.segment : i \in 1 .. job.segment - 1 \/ i = job.segment
      BY <1>2, SMT
    <3> QED
      BY <2>1, <3>1, <3>2 DEF Current
  <2>3. ~(job.offset + Current.length < Current.length)
    BY <1>2, <1>3, SMT DEF SegmentFits
  <2>4. CASE job.segment < Len(m.segments)
    <3>1. job' = [job EXCEPT !.segment = @ + 1, !.offset = 0]
      BY <1>7, <2>3, <2>4 DEF Advanced
    <3>2. job.segment + 1 \in Nat /\ job.segment + 1 - 1 = job.segment
      BY <1>2, SMT
    <3>3. job' \in Job
      BY <1>1, <3>1, <3>2, Zenon DEF Job
    <3>4. /\ job'.phase = "VERIFY" /\ job'.segment = job.segment + 1 /\ job'.offset = 0
          /\ job'.manifest = job.manifest /\ job'.status = job.status
      BY <1>1, <3>1, SMT DEF Job
    <3>5. TypeOK'
      BY <1>1, <3>3 DEF TypeOK, IInv
    <3>6. job.segment + 1 \in DOMAIN m.segments
      BY <1>2, <2>4, SegmentIndex, SMT
    <3>7. Accepted' /\ Place' /\ Unburnt' /\ NotRefused'
      BY <1>2, <3>4, <3>6, SegmentIndex
         DEF Accepted, Place, Unburnt, NotRefused, Refusal, m, Current
    <3>8. Verified'
      BY <1>1, <1>2, <2>2, <3>2, <3>4 DEF Verified, Held, m
    <3> QED
      BY <3>5, <3>7, <3>8 DEF IInv
  <2>5. CASE ~(job.segment < Len(m.segments))
    <3>1. job' = [Ended(final) EXCEPT !.segment = 1, !.offset = 0]
      BY <1>7, <2>3, <2>5 DEF Advanced
    <3>2. final \in {"OK", "VERIFY"}
      OBVIOUS
    <3> HIDE DEF final
    <3>3. job' = [[job EXCEPT !.phase = "END", !.status = final]
                     EXCEPT !.segment = 1, !.offset = 0]
      BY <3>1 DEF Ended
    <3>4. job' \in Job
      BY <1>1, <3>2, <3>3, Zenon DEF Job
    <3>5. job'.phase = "END" /\ job'.manifest = job.manifest /\ job'.status = final
      BY <1>1, <3>3, SMT DEF Job
    <3>6. TypeOK'
      BY <1>1, <3>4 DEF TypeOK, IInv
    <3>7. Accepted' /\ Place' /\ Unburnt' /\ NotRefused'
      BY <3>2, <3>5 DEF Accepted, Place, Unburnt, NotRefused, Refusal
    <3>8. \A i \in DOMAIN m.segments : i \in 1 .. job.segment
      BY <1>2, <2>5, SegmentIndex, SMT
    <3>9. Verified'
      BY <1>1, <2>2, <3>2, <3>5, <3>8 DEF Verified, Held, m
    <3> QED
      BY <3>6, <3>7, <3>9 DEF IInv
  <2> QED
    BY <2>4, <2>5
<1> QED
  BY <1>5, <1>6, <1>7
-----------------------------------------------------------------------------
(***************************************************************************)
(* What lies outside the segments.                                         *)
(***************************************************************************)

\* The bytes that are not of the image but share a sector with it.
Beside(a) == InSector(a) /\ ~InSegment(a)
Erasing(a) == a \div SectorSize \in job.sectors

Untouched == \A a \in Address : flash[a] # before[a] => InSector(a)
Fresh == job.phase \in {"IDLE", "REJECTED", "STAGED"} => flash = before
ErasedOrWill ==
    job.phase = "ERASE" =>
        \A a \in Address :
            /\ Erasing(a) => InSector(a)
            /\ InSector(a) => Erasing(a) \/ flash[a] = Erased
BesideErased ==
    (job.phase \in {"PROGRAM", "VERIFY"} \/ job.status = "OK") /\ ~job.faulty =>
        \A a \in Address : Beside(a) => flash[a] = Erased
OInv == Untouched /\ Fresh /\ ErasedOrWill /\ BesideErased

\* The beginning of a sector is the beginning of a word, so no word lies in two sectors.
LEMMA WordInSector ==
    ASSUME NEW a \in Nat
    PROVE  WordOf(a) \div SectorSize = a \div SectorSize
<1> DEFINE q == a \div SectorSize
           k == SectorSize \div 8
<1>1. SectorSize \in Nat \ {0} /\ SectorSize % 8 = 0
  BY ImageAssumption
<1>2. k \in Nat /\ SectorSize = 8 * k
  BY <1>1, SMT
<1>3. q \in Nat /\ q * SectorSize <= a /\ a < q * SectorSize + SectorSize
  BY <1>1, DivRange, SMT
<1>4. WordOf(a) \in Nat /\ WordOf(a) % 8 = 0 /\ WordOf(a) <= a /\ a < WordOf(a) + 8
  BY SMT DEF WordOf
<1> HIDE DEF q, k, WordOf
<1>5. q * SectorSize \in Nat /\ (q * SectorSize) % 8 = 0
  <2>1. q * SectorSize = 8 * (q * k) /\ q * k \in Nat
    BY <1>2, <1>3, SMT
  <2> QED
    BY <2>1, SMT
<1>6. q * SectorSize <= WordOf(a)
  <2>1. q * SectorSize < WordOf(a) + 8
    BY <1>3, <1>4, <1>5, SMT
  <2> QED
    BY <1>4, <1>5, <2>1, WordGap
<1>7. WordOf(a) < q * SectorSize + SectorSize
  BY <1>1, <1>3, <1>4, <1>5, SMT
<1>8. WordOf(a) \div SectorSize = q
  BY <1>1, <1>3, <1>4, <1>6, <1>7, SMT
<1> QED
  BY <1>8 DEF q

\* A sector in the list of a segment has a byte of the segment.
LEMMA TouchedHasByte ==
    ASSUME NEW m0 \in Manifests, SegmentsValid(m0), NEW i \in DOMAIN m0.segments,
           NEW sector \in Touched(m0.segments[i])
    PROVE  \E b \in Address : Within(b, m0.segments[i]) /\ b \div SectorSize = sector
<1> DEFINE s == m0.segments[i]
           final == s.address + s.length - 1
<1>1. SegmentFits(m0, s)
  BY ValidFits
<1>0. sector \in Touched(s)
  OBVIOUS
<1> HIDE DEF s
<1>2. /\ final \in Nat /\ s.address \in Nat /\ final < FlashSize /\ s.address <= final
      /\ final < s.address + s.length
  BY <1>1, ManifestAssumption, SMT DEF SegmentFits
<1>3. Touched(s) = s.address \div SectorSize .. final \div SectorSize
  BY <1>1, ManifestAssumption, SMTT(30) DEF Touched, Plus, Minus, SegmentFits
<1>4. SectorSize \in Nat \ {0}
  BY ImageAssumption
<1>5. CASE sector = s.address \div SectorSize
  BY <1>1, <1>2, <1>5, ManifestAssumption, SMT DEF Address, Within, SegmentFits, s
<1>6. CASE sector # s.address \div SectorSize
  <2> DEFINE b == sector * SectorSize
  <2> HIDE DEF final
  <2>1. sector \in Nat /\ s.address \div SectorSize + 1 <= sector
        /\ sector <= final \div SectorSize
    BY <1>0, <1>2, <1>3, <1>4, <1>6, SMT
  <2>2. b \in Nat /\ b \div SectorSize = sector
    BY <1>4, <2>1, SMT
  <2>3. b <= final
    BY <1>2, <1>4, <2>1, SMT
  <2>4. s.address <= b
    BY <1>2, <1>4, <2>1, SMT
  <2>5. b \in Address /\ Within(b, s)
    BY <1>1, <1>2, <2>2, <2>3, <2>4, ManifestAssumption, SMT DEF Address, Within, SegmentFits
  <2> QED
    BY <2>2, <2>5 DEF s
<1> QED
  BY <1>5, <1>6

\* The sectors listed are those that hold a byte of the image.
LEMMA BeginOutside == IInv /\ OInv /\ Begin => OInv'
<1> SUFFICES ASSUME IInv, OInv, Begin PROVE OInv'
  OBVIOUS
<1>1. /\ job.phase = "STAGED" /\ job \in Job /\ m \in Manifests /\ SegmentsValid(m)
      /\ UNCHANGED <<flash, before>> /\ flash = before
  BY DEF Begin, Accepted, TypeOK, Job, m, FlashQuiet, IInv, OInv, Fresh
<1> DEFINE all == UNION {Touched(m.segments[i]) : i \in DOMAIN m.segments}
<1>2. TargetValidate(m)
  BY <1>1 DEF SegmentsValid, SegmentValid, TargetValidate, RangeIsMain
<1>3. PICK crc \in {TRUE, job.made} :
        job' = [job EXCEPT !.phase = "ERASE", !.crc = crc, !.sectors = all]
  BY <1>2 DEF Begin
<1> HIDE DEF all
<1>4. job'.phase = "ERASE" /\ job'.manifest = job.manifest /\ job'.sectors = all
      /\ job'.status = "NONE"
  BY <1>1, <1>3, SMT DEF Job, IInv, Place
<1>5. ASSUME NEW a \in Address, a \div SectorSize \in all
      PROVE  InSector(a)
  <2>1. PICK i \in DOMAIN m.segments : a \div SectorSize \in Touched(m.segments[i])
    BY <1>5 DEF all
  <2>2. \E b \in Address : Within(b, m.segments[i]) /\ b \div SectorSize = a \div SectorSize
    BY <1>1, <2>1, TouchedHasByte
  <2> QED
    BY <2>2 DEF InSector, InSegment, Within
<1>6. ASSUME NEW a \in Address, InSector(a)
      PROVE  a \div SectorSize \in all
  <2>1. PICK b \in Address : InSegment(b) /\ a \div SectorSize = b \div SectorSize
    BY <1>6 DEF InSector
  <2>2. PICK i \in DOMAIN m.segments : Within(b, m.segments[i])
    BY <2>1 DEF InSegment, Within
  <2>3. b \in Nat
    BY SMT DEF Address
  <2>4. b \div SectorSize \in Touched(m.segments[i])
    BY <1>1, <2>2, <2>3, TouchedSectors DEF Within
  <2> QED
    BY <2>1, <2>4 DEF all
<1>7. ErasedOrWill'
  BY <1>4, <1>5, <1>6 DEF ErasedOrWill, Erasing, InSector, InSegment, m
<1> QED
  BY <1>1, <1>4, <1>7 DEF OInv, Untouched, Fresh, BesideErased

\* Whatever ends in an error leaves what it found outside the sectors of the image.
LEMMA EndOutside ==
    ASSUME job'.phase = "END", job'.status # "OK", job'.manifest = job.manifest, Untouched,
           UNCHANGED before,
           \A a \in Address : flash'[a] # flash[a] => InSector(a)
    PROVE  OInv'
<1>1. Untouched'
  BY DEF Untouched, InSector, InSegment, m
<1> QED
  BY <1>1 DEF OInv, Fresh, ErasedOrWill, BesideErased

\* Sectors are erased one by one, all of them of the image.
LEMMA EraseOutside == IInv /\ OInv /\ EraseSector => OInv'
<1> SUFFICES ASSUME IInv, OInv, EraseSector PROVE OInv'
  OBVIOUS
<1>1. /\ job.phase = "ERASE" /\ job \in Job /\ job.sectors \subseteq Sector
      /\ flash \in [Address -> Byte] /\ UNCHANGED before
  BY EraseStep
<1>2. PICK s \in job.sectors : ErasesOne(s)
  BY EraseStep
<1>3. \A a \in Address : InSectorOf(s, a) <=> a \div SectorSize = s
  BY <1>1, SectorOf DEF Address
<1>7. \A a \in Address : Erasing(a) => InSector(a)
  BY <1>1 DEF OInv, ErasedOrWill
<1>4. ASSUME NEW a \in Address, flash'[a] # flash[a]
      PROVE  InSector(a)
  <2>1. InSectorOf(s, a)
    BY <1>2, <1>4 DEF ErasesOne, Filled
  <2> QED
    BY <1>7, <1>3, <2>1, Zenon DEF Erasing
<1>5. CASE job' = Ended("FAILED")
  <2>1. job'.phase = "END" /\ job'.status = "FAILED" /\ job'.manifest = job.manifest
    BY <1>1, <1>5, SMT DEF Ended, Job
  <2> QED
    BY <1>1, <1>4, <2>1, EndOutside DEF OInv
<1>6. CASE flash' = Filled(s, Erased) /\ job' = [job EXCEPT !.sectors = @ \ {s}]
  <2>1. /\ job'.phase = "ERASE" /\ job'.manifest = job.manifest /\ job'.status = "NONE"
        /\ job'.sectors = job.sectors \ {s}
    BY <1>1, <1>6, SMT DEF Job, IInv, Place
  <2>2. Untouched'
    BY <1>1, <1>4, <2>1 DEF OInv, Untouched, InSector, InSegment, m
  <2>3. ASSUME NEW a \in Address, InSector(a)
        PROVE  a \div SectorSize \in job'.sectors \/ flash'[a] = Erased
    <3>1. CASE a \div SectorSize = s
      BY <1>3, <1>6, <3>1 DEF Filled
    <3>2. CASE a \div SectorSize # s
      <4>1. flash'[a] = flash[a]
        BY <1>3, <1>6, <3>2 DEF Filled
      <4>2. a \div SectorSize \in job.sectors \/ flash[a] = Erased
        BY <1>1, <2>3 DEF OInv, ErasedOrWill, Erasing
      <4> QED
        BY <2>1, <3>2, <4>1, <4>2
    <3> QED
      BY <3>1, <3>2
  <2>4. \A a \in Address : a \div SectorSize \in job'.sectors => InSector(a)
    BY <1>7, <2>1, Zenon DEF Erasing
  <2>5. ErasedOrWill'
    BY <2>1, <2>3, <2>4 DEF ErasedOrWill, Erasing, InSector, InSegment, m
  <2> QED
    BY <2>1, <2>2, <2>5 DEF OInv, Fresh, BesideErased
<1> QED
  BY <1>2, <1>5, <1>6 DEF ErasesOne

LEMMA EraseDoneOutside == IInv /\ OInv /\ EraseDone => OInv'
<1> SUFFICES ASSUME IInv, OInv, EraseDone PROVE OInv'
  OBVIOUS
<1>1. /\ job.phase = "ERASE" /\ job.sectors = {} /\ job \in Job
      /\ job' = [job EXCEPT !.phase = "PROGRAM"] /\ UNCHANGED <<flash, before>>
  BY DEF EraseDone, FlashQuiet, IInv, TypeOK
<1>2. job'.phase = "PROGRAM" /\ job'.manifest = job.manifest
  BY <1>1, SMT DEF Job
<1>3. \A a \in Address : InSector(a) => flash[a] = Erased
  BY <1>1 DEF OInv, ErasedOrWill, Erasing
<1>4. BesideErased' /\ Untouched'
  BY <1>1, <1>2, <1>3
     DEF BesideErased, Beside, Untouched, OInv, InSector, InSegment, m
<1> QED
  BY <1>2, <1>4 DEF OInv, Fresh, ErasedOrWill

\* Padding is 0xFF, and the words programmed are in sectors of the image.
LEMMA ProgramOutside == IInv /\ OInv /\ ProgramChunk => OInv'
<1> SUFFICES ASSUME IInv, OInv, ProgramChunk PROVE OInv'
  OBVIOUS
<1>1. ChunkEffect /\ job.phase = "PROGRAM"
  BY ProgramChunkInv DEF ProgramChunk
<1>2. ASSUME NEW a \in Address, flash'[a] # flash[a]
      PROVE  InSector(a)
  <2>1. a \in Nat
    BY SMT DEF Address
  <2>2. WordOf(a) \in Address
    BY ManifestAssumption, SMT DEF Address, WordOf
  <2>3. InSegment(WordOf(a)) /\ a \div SectorSize = WordOf(a) \div SectorSize
    BY <1>1, <1>2, <2>1, WordInSector DEF ChunkEffect
  <2> QED
    BY <2>2, <2>3 DEF InSector
<1>3. CASE job'.phase = "END" /\ job'.status # "OK"
  BY <1>1, <1>2, <1>3, EndOutside DEF OInv, ChunkEffect
<1>4. CASE ~(job'.phase = "END" /\ job'.status # "OK")
  <2>1. /\ job'.manifest = job.manifest /\ UNCHANGED before
        /\ job'.phase \in {"PROGRAM", "VERIFY"} /\ job'.status = "NONE"
        /\ ~job'.faulty =>
              /\ ~job.faulty
              /\ \A a \in Address : ~InSegment(a) /\ flash[a] = Erased => flash'[a] = Erased
    BY <1>1, <1>4 DEF ChunkEffect
  <2>2. Untouched'
    BY <1>2, <2>1 DEF Untouched, OInv, InSector, InSegment, m
  <2>3. BesideErased'
    BY <1>1, <2>1 DEF BesideErased, Beside, OInv, InSector, InSegment, m
  <2> QED
    BY <2>1, <2>2, <2>3 DEF OInv, Fresh, ErasedOrWill
<1> QED
  BY <1>3, <1>4

LEMMA VerifyOutside == IInv /\ OInv /\ VerifySegment => OInv'
<1> SUFFICES ASSUME IInv, OInv, VerifySegment PROVE OInv'
  OBVIOUS
<1>1. job.phase = "VERIFY" /\ job \in Job /\ UNCHANGED <<flash, before>>
  BY DEF VerifySegment, FlashQuiet, IInv, TypeOK
<1>2. /\ job'.manifest = job.manifest /\ job'.phase \in {"VERIFY", "END"}
      /\ ~job'.faulty => ~job.faulty
  <2>1. \/ \E status : job' = Ended(status)
        \/ job' = [job EXCEPT !.offset = @ + Current.length]
        \/ job' = [job EXCEPT !.segment = @ + 1, !.offset = 0]
        \/ \E status : job' = [Ended(status) EXCEPT !.segment = 1, !.offset = 0]
    BY DEF VerifySegment, Advanced
  <2> QED
    BY <1>1, <2>1, Zenon DEF Job, Ended
<1>3. Untouched' /\ BesideErased'
  BY <1>1, <1>2 DEF OInv, Untouched, BesideErased, Beside, InSector, InSegment, m
<1> QED
  BY <1>2, <1>3 DEF OInv, Fresh, ErasedOrWill

LEMMA StopOutside == IInv /\ OInv /\ Stop => OInv'
<1> SUFFICES ASSUME IInv, OInv, Stop PROVE OInv'
  OBVIOUS
<1>1. PICK status \in {"ABORTED", "FAILED"} : job' = Ended(status)
  BY DEF Stop
<1>2. job \in Job /\ UNCHANGED <<flash, before>>
  BY DEF Stop, FlashQuiet, IInv, TypeOK
<1>3. job'.phase = "END" /\ job'.status = status /\ job'.manifest = job.manifest
  BY <1>1, <1>2, SMT DEF Ended, Job
<1> QED
  BY <1>2, <1>3, EndOutside DEF OInv

LEMMA ReceiveOutside ==
    ASSUME IInv, OInv, job.phase = "IDLE", NEW manifest, NEW made, Receive(manifest, made)
    PROVE  OInv'
<1>1. job \in Job /\ UNCHANGED <<flash, before>> /\ flash = before /\ job.status = "NONE"
  BY DEF Receive, FlashQuiet, IInv, TypeOK, OInv, Fresh, Place
<1>2. job'.phase \in {"STAGED", "REJECTED"} /\ job'.status = "NONE"
  BY <1>1, SMT DEF Receive, Job
<1> QED
  BY <1>1, <1>2 DEF OInv, Untouched, Fresh, ErasedOrWill, BesideErased
-----------------------------------------------------------------------------
(***************************************************************************)
(* Induction over the numbers up to n, and functions made step by step.    *)
(***************************************************************************)

\* Naturals are well-founded: what does not hold of all of them has a first exception.
LEMMA LeastOf ==
    ASSUME NEW T, T \subseteq Nat, T # {} PROVE \E x \in T : \A y \in T : x <= y
<1> DEFINE R == {s \in Nat \X Nat : s[1] < s[2]}
<1>1. IsWellFoundedOn(R, Nat)
  BY NatLessThanWellFounded DEF OpToRel
<1> HIDE DEF R
<1>2. PICK x \in T : \A y \in T : <<y, x>> \notin R
  BY <1>1, WFMin
<1>3. \A y \in T : ~(y < x)
  BY <1>2 DEF R
<1>4. \A y \in T : y \in Nat /\ x \in Nat
  OBVIOUS
<1> QED
  BY <1>3, <1>4

\* Induction, for a set of numbers.
LEMMA AllOf ==
    ASSUME NEW P \in SUBSET Nat, 0 \in P, \A k \in P : k + 1 \in P
    PROVE  P = Nat
<1> DEFINE T == Nat \ P
<1>1. T = {}
  <2> SUFFICES ASSUME T # {} PROVE FALSE
    OBVIOUS
  <2>1. PICK k \in T : \A y \in T : k <= y
    BY LeastOf
  <2>2. k \in Nat /\ k \notin P /\ k # 0
    BY <2>1
  <2>3. k - 1 \in Nat /\ k - 1 < k /\ (k - 1) + 1 = k
    BY <2>2
  <2>4. k - 1 \in P
    BY <2>1, <2>3
  <2> QED
    BY <2>2, <2>3, <2>4
<1> QED
  BY <1>1


\* What holds of 0 and of each number with the one before it holds up to n.
LEMMA UpTo ==
    ASSUME NEW n \in Nat, NEW P, 0 \in P, \A i \in 1 .. n : i - 1 \in P => i \in P
    PROVE  0 .. n \subseteq P
<1> DEFINE Q == {i \in Nat : i <= n => i \in P}
<1>1. 0 \in Q
  OBVIOUS
<1>2. ASSUME NEW i \in Q PROVE i + 1 \in Q
  <2>1. i \in Nat /\ (i <= n => i \in P)
    OBVIOUS
  <2>2. ASSUME i + 1 <= n PROVE i + 1 \in P
    <3>1. i <= n /\ i + 1 \in 1 .. n /\ (i + 1) - 1 = i
      BY <2>1, <2>2
    <3> QED
      BY <2>1, <3>1
  <2> QED
    BY <2>1, <2>2
<1>3. Q = Nat
  <2> HIDE DEF Q
  <2>1. Q \in SUBSET Nat
    BY DEF Q
  <2> QED
    BY <1>1, <1>2, <2>1, AllOf
<1> QED
  BY <1>3

\* There is a function of which each value gives the next.
Iterates(S, base, n, step) ==
    \E g \in [0 .. n -> S] : g[0] = base /\ \A i \in 1 .. n : g[i] = step[<<i, g[i - 1]>>]
LEMMA Recursion ==
    ASSUME NEW S, NEW base \in S, NEW n \in Nat, NEW step \in [(1 .. n) \X S -> S]
    PROVE  Iterates(S, base, n, step)
<1> DEFINE Is(g, k) == g[0] = base /\ \A i \in 1 .. k : g[i] = step[<<i, g[i - 1]>>]
           P == {k \in 0 .. n : \E g \in [0 .. k -> S] : Is(g, k)}
<1>1. 0 \in P
  <2> DEFINE g == [i \in 0 .. 0 |-> base]
  <2>1. g \in [0 .. 0 -> S] /\ Is(g, 0)
    OBVIOUS
  <2> HIDE DEF g
  <2>2. \E f \in [0 .. 0 -> S] : Is(f, 0)
    BY <2>1
  <2> QED
    BY <2>2
<1>2. ASSUME NEW k \in 1 .. n, k - 1 \in P PROVE k \in P
  <2>1. PICK g \in [0 .. k - 1 -> S] : Is(g, k - 1)
    BY <1>2
  <2> DEFINE h == [i \in 0 .. k |-> IF i < k THEN g[i] ELSE step[<<k, g[k - 1]>>]]
  <2>2. step[<<k, g[k - 1]>>] \in S
    <3>1. k - 1 \in 0 .. k - 1
      OBVIOUS
    <3>2. <<k, g[k - 1]>> \in (1 .. n) \X S
      BY <3>1
    <3> QED
      BY <3>2
  <2>3. h \in [0 .. k -> S]
    <3>1. ASSUME NEW i \in 0 .. k PROVE h[i] \in S
      BY <2>2
    <3> QED
      BY <3>1
  <2>4. \A i \in 0 .. k - 1 : i \in 0 .. k /\ i < k /\ h[i] = g[i]
    OBVIOUS
  <2>5. h[k] = step[<<k, g[k - 1]>>]
    OBVIOUS
  <2> HIDE DEF h
  <2>6. Is(h, k)
    <3>1. h[0] = base
      BY <2>1, <2>4
    <3>2. ASSUME NEW i \in 1 .. k PROVE h[i] = step[<<i, h[i - 1]>>]
      <4>1. CASE i = k
        BY <2>4, <2>5, <4>1
      <4>2. CASE i # k
        <5>1. i \in 1 .. k - 1 /\ i \in 0 .. k - 1 /\ i - 1 \in 0 .. k - 1
          BY <4>2
        <5> QED
          BY <2>1, <2>4, <5>1
      <4> QED
        BY <4>1, <4>2
    <3> QED
      BY <3>1, <3>2
  <2>7. \E f \in [0 .. k -> S] : Is(f, k)
    BY <2>3, <2>6
  <2> QED
    BY <2>7
<1>3. 0 .. n \subseteq P
  <2> HIDE DEF P
  <2> QED
    BY <1>1, <1>2, UpTo
<1>4. n \in P
  BY <1>3
<1> QED
  BY <1>4 DEF Iterates
-----------------------------------------------------------------------------
(***************************************************************************)
(* What is accepted is what the documentation says.                        *)
(***************************************************************************)

LEMMA SegmentNumbers ==
    ASSUME NEW segments \in Seq(Segment)
    PROVE  /\ Len(segments) \in Nat /\ DOMAIN segments = 1 .. Len(segments)
           /\ \A i \in 1 .. Len(segments) :
                /\ segments[i].address \in Nat /\ segments[i].length \in Nat
                /\ segments[i].data_offset \in Nat
<1>1. \A i \in 1 .. Len(segments) : segments[i] \in Segment
  OBVIOUS
<1>2. Field \subseteq Nat
  BY ManifestAssumption DEF Field
<1>3. \A s \in Segment : s.address \in Field /\ s.length \in Field /\ s.data_offset \in Field
  BY Zenon DEF Segment
<1>4. ASSUME NEW i \in 1 .. Len(segments)
      PROVE  /\ segments[i].address \in Nat /\ segments[i].length \in Nat
             /\ segments[i].data_offset \in Nat
  BY <1>1, <1>2, <1>3, Zenon
<1> QED
  BY <1>4

\* datlink_manifest_validate adds up the lengths, in uint32_t.
LEMMA LengthSumsAre ==
    ASSUME NEW segments \in Seq(Segment)
    PROVE  /\ LengthSums(segments)[0] = 0
           /\ \A i \in 1 .. Len(segments) :
                LengthSums(segments)[i] = Plus(LengthSums(segments)[i - 1], segments[i].length)
<1> DEFINE n == Len(segments)
           Body(g, i) == IF i = 0 THEN 0 ELSE Plus(g[i - 1], segments[i].length)
           step == [x \in (1 .. n) \X Int |-> Plus(x[2], segments[x[1]].length)]
<1>1. n \in Nat /\ \A i \in 1 .. n : segments[i].length \in Int
  BY SegmentNumbers
<1>2. step \in [(1 .. n) \X Int -> Int]
  <2>1. ASSUME NEW x \in (1 .. n) \X Int PROVE Plus(x[2], segments[x[1]].length) \in Int
    <3>1. x[2] \in Int /\ segments[x[1]].length \in Int /\ Width \in Int
      BY <1>1, ManifestAssumption
    <3> QED
      BY <3>1 DEF Plus
  <2> QED
    BY <2>1
<1>3. \A i \in 1 .. n, v \in Int : step[<<i, v>>] = Plus(v, segments[i].length)
  OBVIOUS
<1> HIDE DEF step, n
<1>4. PICK g \in [0 .. n -> Int] : g[0] = 0 /\ \A i \in 1 .. n : g[i] = step[<<i, g[i - 1]>>]
  <2> DEFINE S == Int
             base == 0
  <2>1. base \in S /\ n \in Nat /\ step \in [(1 .. n) \X S -> S]
    BY <1>1, <1>2
  <2> HIDE DEF S, base
  <2>2. Iterates(S, base, n, step)
    BY <2>1, Recursion
  <2> QED
    BY <2>2 DEF S, base, Iterates
<1>5. g = [i \in 0 .. n |-> Body(g, i)]
  <2>1. ASSUME NEW i \in 0 .. n PROVE g[i] = Body(g, i)
    <3>1. CASE i = 0
      BY <1>4, <3>1
    <3>2. CASE i # 0
      <4>1. i \in 1 .. n /\ i - 1 \in 0 .. n
        BY <1>1, <3>2
      <4> QED
        BY <1>3, <1>4, <3>2, <4>1
    <3> QED
      BY <3>1, <3>2
  <2> HIDE DEF Body
  <2> QED
    BY <2>1
<1>6. LengthSums(segments) = CHOOSE f : f = [i \in 0 .. n |-> Body(f, i)]
  BY DEF LengthSums, n
<1>7. LengthSums(segments) = [i \in 0 .. n |-> Body(LengthSums(segments), i)]
  <2> HIDE DEF Body
  <2> QED
    BY <1>5, <1>6
<1>8. 0 \in 0 .. n /\ \A i \in 1 .. n : i \in 0 .. n /\ i # 0
  BY <1>1
<1> QED
  BY <1>7, <1>8 DEF n

Data(m0, i) == Span(m0.segments[i].data_offset, m0.segments[i].length)
Covered(m0, i) == UNION {Data(m0, j) : j \in 1 .. i}

\* While the data of segments are apart and in the image, the sum of their lengths is the
\* number of bytes they cover: it does not wrap.
LEMMA SumIsCount ==
    ASSUME NEW m0 \in Manifests, m0.total_length <= FlashSize,
           \A i \in DOMAIN m0.segments : Data(m0, i) \subseteq 0 .. m0.total_length - 1,
           \A i, j \in DOMAIN m0.segments : i # j => Data(m0, i) \cap Data(m0, j) = {}
    PROVE  /\ LengthSum(m0) = Cardinality(Covered(m0, Len(m0.segments)))
           /\ Covered(m0, Len(m0.segments)) \subseteq 0 .. m0.total_length - 1
<1> DEFINE n == Len(m0.segments)
           total == m0.total_length
           len(i) == m0.segments[i].length
           sum == LengthSums(m0.segments)
           C(i) == Covered(m0, i)
           P == {i \in 0 .. n : IsFiniteSet(C(i)) /\ sum[i] = Cardinality(C(i))}
<1>1. /\ m0.segments \in Seq(Segment) /\ n \in Nat /\ DOMAIN m0.segments = 1 .. n
      /\ total \in Nat /\ total < Width /\ Width \in Nat
      /\ \A i \in 1 .. n : len(i) \in Nat /\ m0.segments[i].data_offset \in Nat
  <2>1. m0.segments \in Seq(Segment) /\ total \in Field
    BY Zenon DEF Manifests
  <2> HIDE DEF total
  <2>2. total \in Nat /\ total < Width /\ Width \in Nat
    BY <2>1, ManifestAssumption DEF Field
  <2> QED
    BY <2>1, <2>2, SegmentNumbers
<1>2. sum[0] = 0 /\ \A i \in 1 .. n : sum[i] = Plus(sum[i - 1], len(i))
  BY <1>1, LengthSumsAre
<1>3. IsFiniteSet(0 .. total - 1) /\ Cardinality(0 .. total - 1) = total
  <2> HIDE DEF total
  <2>1. 0 \in Int /\ total - 1 \in Int
    BY <1>1
  <2>2. /\ IsFiniteSet(0 .. total - 1)
        /\ Cardinality(0 .. total - 1) = IF 0 > total - 1 THEN 0 ELSE total - 1 - 0 + 1
    BY <2>1, FS_Interval, Zenon
  <2> QED
    BY <1>1, <2>2
<1>4. ASSUME NEW i \in 1 .. n PROVE IsFiniteSet(Data(m0, i)) /\ Cardinality(Data(m0, i)) = len(i)
  <2> DEFINE first == m0.segments[i].data_offset
             size == len(i)
  <2>1. first \in Nat /\ size \in Nat
    BY <1>1
  <2>2. Data(m0, i) = first .. first + size - 1
    BY DEF Data, Span
  <2> HIDE DEF first, size
  <2>3. first \in Int /\ first + size - 1 \in Int
    BY <2>1
  <2>4. IsFiniteSet(first .. first + size - 1) /\ Cardinality(first .. first + size - 1) = size
    BY <2>1, <2>3, FS_Interval
  <2> QED
    BY <2>2, <2>4 DEF size
<1>5. \A i \in 0 .. n : C(i) \subseteq 0 .. total - 1
  BY <1>1 DEF Covered
<1> HIDE DEF sum, len
<1>6. 0 \in P
  <2>1. C(0) = {}
    BY DEF Covered
  <2> HIDE DEF C
  <2>2. IsFiniteSet(C(0)) /\ Cardinality(C(0)) = 0
    BY <2>1, FS_EmptySet
  <2> QED
    BY <1>1, <1>2, <2>2
<1>7. ASSUME NEW i \in 1 .. n, i - 1 \in P PROVE i \in P
  <2>1. IsFiniteSet(C(i - 1)) /\ sum[i - 1] = Cardinality(C(i - 1)) /\ i \in 0 .. n /\ i \in Nat
    BY <1>7
  <2>2. C(i) = C(i - 1) \cup Data(m0, i)
    <3>1. 1 .. i = (1 .. i - 1) \cup {i}
      BY <2>1
    <3> QED
      BY <3>1 DEF Covered
  <2>3. C(i - 1) \cap Data(m0, i) = {}
    <3>1. \A j \in 1 .. i - 1 : j \in 1 .. n /\ j # i
      BY <1>1
    <3> QED
      BY <1>1, <3>1 DEF Covered
  <2> HIDE DEF C, P
  <2>4. IsFiniteSet(C(i)) /\ Cardinality(C(i)) = sum[i - 1] + len(i)
    <3>1. Cardinality(C(i - 1) \cap Data(m0, i)) = 0
      BY <2>3, FS_EmptySet
    <3>2. /\ IsFiniteSet(C(i - 1) \cup Data(m0, i))
          /\ Cardinality(C(i - 1) \cup Data(m0, i))
               = Cardinality(C(i - 1)) + Cardinality(Data(m0, i))
                   - Cardinality(C(i - 1) \cap Data(m0, i))
      BY <1>4, <2>1, FS_Union
    <3>3. Cardinality(C(i - 1)) \in Nat /\ Cardinality(Data(m0, i)) \in Nat
      BY <1>4, <2>1, FS_CardinalityType
    <3> QED
      BY <1>4, <2>1, <2>2, <3>1, <3>2, <3>3
  <2>5. Cardinality(C(i)) <= total
    <3> DEFINE All == 0 .. total - 1
    <3>1. C(i) \in SUBSET All /\ IsFiniteSet(All) /\ Cardinality(All) = total
      BY <1>3, <1>5, <2>1
    <3> HIDE DEF All
    <3>2. Cardinality(C(i)) <= Cardinality(All)
      BY <3>1, FS_Subset
    <3> QED
      BY <3>1, <3>2
  <2>6. sum[i - 1] \in Nat
    BY <2>1, FS_CardinalityType
  <2>7. sum[i] = sum[i - 1] + len(i)
    BY <1>1, <1>2, <2>4, <2>5, <2>6 DEF Plus
  <2> QED
    BY <2>1, <2>4, <2>7 DEF P
<1>8. 0 .. n \subseteq P
  <2> HIDE DEF P
  <2> QED
    BY <1>1, <1>6, <1>7, UpTo
<1>9. n \in 0 .. n
  BY <1>1
<1> QED
  BY <1>5, <1>8, <1>9 DEF LengthSum, sum

\* The numbers of a manifest.
LEMMA ManifestNumbers ==
    ASSUME NEW m0 \in Manifests
    PROVE  /\ m0.segments \in Seq(Segment) /\ Len(m0.segments) \in Nat
           /\ DOMAIN m0.segments = 1 .. Len(m0.segments)
           /\ m0.total_length \in Nat /\ m0.total_length < Width
           /\ \A i \in 1 .. Len(m0.segments) :
                /\ m0.segments[i].address \in Nat /\ m0.segments[i].length \in Nat
                /\ m0.segments[i].data_offset \in Nat
<1>1. m0.segments \in Seq(Segment) /\ m0.total_length \in Field
  BY Zenon DEF Manifests
<1>2. m0.total_length \in Nat /\ m0.total_length < Width
  BY <1>1, ManifestAssumption DEF Field
<1> QED
  BY <1>1, <1>2, SegmentNumbers

\* Two spans of bytes have none in common exactly if one ends before the other begins.
LEMMA SpansApart ==
    ASSUME NEW a \in Nat, NEW n \in Nat \ {0}, NEW b \in Nat, NEW k \in Nat \ {0}
    PROVE  Span(a, n) \cap Span(b, k) = {} <=> a + n <= b \/ b + k <= a
<1>1. ASSUME a + n <= b \/ b + k <= a PROVE Span(a, n) \cap Span(b, k) = {}
  BY <1>1 DEF Span
<1>2. ASSUME ~(a + n <= b \/ b + k <= a) PROVE Span(a, n) \cap Span(b, k) # {}
  <2>1. CASE a <= b
    <3>1. b \in Span(a, n) /\ b \in Span(b, k)
      BY <1>2, <2>1 DEF Span
    <3> QED
      BY <3>1
  <2>2. CASE ~(a <= b)
    <3>1. a \in Span(a, n) /\ a \in Span(b, k)
      BY <1>2, <2>2 DEF Span
    <3> QED
      BY <3>1
  <2> QED
    BY <2>1, <2>2
<1> QED
  BY <1>1, <1>2

\* A span lies among the first bytes exactly if it ends among them.
LEMMA SpanWithin ==
    ASSUME NEW a \in Nat, NEW n \in Nat \ {0}, NEW size \in Nat
    PROVE  Span(a, n) \subseteq 0 .. size - 1 <=> a + n <= size
<1>1. ASSUME Span(a, n) \subseteq 0 .. size - 1 PROVE a + n <= size
  <2>1. a + n - 1 \in Span(a, n)
    BY DEF Span
  <2> QED
    BY <1>1, <2>1
<1>2. ASSUME a + n <= size PROVE Span(a, n) \subseteq 0 .. size - 1
  BY <1>2 DEF Span
<1> QED
  BY <1>1, <1>2

\* Two segments that fit do not wrap, and Apart says that they have no byte in common,
\* neither of the flash nor of the data.
LEMMA ApartIs ==
    ASSUME NEW m0, NEW s, NEW o, SegmentFits(m0, s), SegmentFits(m0, o)
    PROVE  Apart(s, o) <=> /\ Span(s.address, s.length) \cap Span(o.address, o.length) = {}
                           /\ Span(s.data_offset, s.length) \cap Span(o.data_offset, o.length) = {}
<1> DEFINE a == s.address
           n == s.length
           d == s.data_offset
           b == o.address
           k == o.length
           e == o.data_offset
<1>1. /\ a \in Nat /\ n \in Nat \ {0} /\ d \in Nat /\ b \in Nat /\ k \in Nat \ {0} /\ e \in Nat
      /\ a + n <= FlashSize /\ d + n <= FlashSize /\ b + k <= FlashSize /\ e + k <= FlashSize
  BY ManifestAssumption DEF SegmentFits
<1>2. Apart(s, o) <=> ~Overlap(a, n, b, k) /\ ~Overlap(d, n, e, k)
  BY DEF Apart
<1> HIDE DEF a, n, d, b, k, e
<1>3. /\ Plus(a, n) = a + n /\ Plus(b, k) = b + k /\ Plus(d, n) = d + n /\ Plus(e, k) = e + k
  BY <1>1, NoWrap
<1>4. ~Overlap(a, n, b, k) <=> a + n <= b \/ b + k <= a
  BY <1>1, <1>3 DEF Overlap
<1>5. ~Overlap(d, n, e, k) <=> d + n <= e \/ e + k <= d
  BY <1>1, <1>3 DEF Overlap
<1>6. /\ Span(a, n) \cap Span(b, k) = {} <=> a + n <= b \/ b + k <= a
      /\ Span(d, n) \cap Span(e, k) = {} <=> d + n <= e \/ e + k <= d
  BY <1>1, SpansApart
<1>7. Apart(s, o) <=> Span(a, n) \cap Span(b, k) = {} /\ Span(d, n) \cap Span(e, k) = {}
  BY <1>2, <1>4, <1>5, <1>6
<1> QED
  BY <1>7 DEF a, n, d, b, k, e

\* What a segment that fits means for the checks of one segment.
LEMMA FitsIsValid ==
    ASSUME NEW m0, NEW s, SegmentFits(m0, s) PROVE SegmentValid(m0, s)
<1>1. /\ s.address \in Nat /\ s.length \in Nat \ {0} /\ s.data_offset \in Nat
      /\ s.address % 8 = 0
      /\ s.address + s.length <= FlashSize
      /\ s.data_offset + s.length <= m0.total_length
      /\ m0.total_length \in Nat /\ FlashSize \in Nat
  BY ManifestAssumption DEF SegmentFits
<1> QED
  BY <1>1 DEF SegmentValid, Aligned, Minus

\* The bytes of the segments' data.
LEMMA CoveredIs ==
    ASSUME NEW m0 \in Manifests
    PROVE  Covered(m0, Len(m0.segments)) = UNION {Data(m0, i) : i \in DOMAIN m0.segments}
  BY ManifestNumbers DEF Covered

\* Whatever the checks accept meets the rules.
LEMMA ValidatedMeetsRules ==
    ASSUME NEW m0 \in Manifests, ManifestValidate(m0) PROVE Rules(m0)
<1> DEFINE s(i) == m0.segments[i]
           all == 0 .. m0.total_length - 1
           C == Covered(m0, Len(m0.segments))
<1>1. /\ SegmentsValid(m0) /\ LengthSum(m0) = m0.total_length
      /\ Len(m0.segments) \in 1 .. MaxSegments /\ m0.total_length <= FlashSize
  BY DEF ManifestValidate, SegmentsValid
<1>2. /\ DOMAIN m0.segments = 1 .. Len(m0.segments) /\ Len(m0.segments) \in Nat
      /\ m0.total_length \in Nat
  BY ManifestNumbers
<1>3. \A i \in DOMAIN m0.segments : SegmentFits(m0, s(i))
  BY <1>1, ValidFits
<1>4. \A i, j \in DOMAIN m0.segments : j < i => Apart(s(i), s(j))
  <2>1. ASSUME NEW i \in DOMAIN m0.segments, NEW j \in DOMAIN m0.segments, j < i
        PROVE  Apart(s(i), s(j))
    <3>1. j \in 1 .. i - 1
      BY <1>2, <2>1
    <3> QED
      BY <1>1, <3>1 DEF SegmentsValid
  <2> QED
    BY <2>1
<1>5. ASSUME NEW i \in DOMAIN m0.segments, NEW j \in DOMAIN m0.segments, i # j
      PROVE  /\ Span(s(i).address, s(i).length) \cap Span(s(j).address, s(j).length) = {}
             /\ Data(m0, i) \cap Data(m0, j) = {}
  <2>1. j < i \/ i < j
    BY <1>2, <1>5
  <2> QED
    BY <1>3, <1>4, <2>1, ApartIs DEF Data
<1>6. ASSUME NEW i \in DOMAIN m0.segments
      PROVE  /\ s(i).length # 0 /\ s(i).address % 8 = 0
             /\ Span(s(i).address, s(i).length) \subseteq 0 .. FlashSize - 1
             /\ Data(m0, i) \subseteq all
  <2>1. SegmentFits(m0, s(i))
    BY <1>3
  <2> QED
    BY <2>1, SpanWithin, ManifestAssumption DEF SegmentFits, Data
<1>7. AddressRules(m0)
  BY <1>1, <1>5, <1>6 DEF AddressRules
<1>8. C = all
  <2>1. m0.total_length = Cardinality(C) /\ C \subseteq all
    BY <1>1, <1>5, <1>6, SumIsCount
  <2>2. IsFiniteSet(all) /\ Cardinality(all) = m0.total_length
    <3> DEFINE size == m0.total_length
    <3>1. 0 \in Int /\ size - 1 \in Int /\ size \in Nat
      BY <1>2
    <3> HIDE DEF size
    <3>2. /\ IsFiniteSet(0 .. size - 1)
          /\ Cardinality(0 .. size - 1) = IF 0 > size - 1 THEN 0 ELSE size - 1 - 0 + 1
      BY <3>1, FS_Interval, Zenon
    <3>3. IsFiniteSet(0 .. size - 1) /\ Cardinality(0 .. size - 1) = size
      BY <3>1, <3>2
    <3> QED
      BY <3>3 DEF size
  <2> HIDE DEF C, all
  <2> QED
    BY <2>1, <2>2, FS_Subset
<1>9. DataRules(m0)
  BY <1>5, <1>8, CoveredIs DEF DataRules, Data
<1> QED
  BY <1>1, <1>7, <1>9 DEF Rules

\* Whatever meets the rules passes the checks.
LEMMA RulesAreValidated ==
    ASSUME NEW m0 \in Manifests, Rules(m0) PROVE ManifestValidate(m0)
<1> DEFINE s(i) == m0.segments[i]
           all == 0 .. m0.total_length - 1
<1>1. /\ DOMAIN m0.segments = 1 .. Len(m0.segments) /\ Len(m0.segments) \in Nat
      /\ m0.total_length \in Nat
      /\ \A i \in DOMAIN m0.segments :
            s(i).address \in Nat /\ s(i).length \in Nat /\ s(i).data_offset \in Nat
  BY ManifestNumbers
<1>2. /\ Len(m0.segments) \in 1 .. MaxSegments /\ m0.total_length <= FlashSize
      /\ \A i \in DOMAIN m0.segments :
            /\ s(i).length # 0 /\ s(i).address % 8 = 0
            /\ Span(s(i).address, s(i).length) \subseteq 0 .. FlashSize - 1
      /\ \A i, j \in DOMAIN m0.segments : i # j =>
            /\ Span(s(i).address, s(i).length) \cap Span(s(j).address, s(j).length) = {}
            /\ Data(m0, i) \cap Data(m0, j) = {}
      /\ UNION {Data(m0, i) : i \in DOMAIN m0.segments} = all
  BY DEF Rules, AddressRules, DataRules, Data
<1>3. \A i \in DOMAIN m0.segments : Data(m0, i) \subseteq all
  BY <1>2
<1>4. ASSUME NEW i \in DOMAIN m0.segments PROVE SegmentFits(m0, s(i))
  <2>1. s(i).address + s(i).length <= FlashSize
    BY <1>1, <1>2, SpanWithin, ManifestAssumption
  <2>2. s(i).data_offset + s(i).length <= m0.total_length
    BY <1>1, <1>2, <1>3, SpanWithin DEF Data
  <2> QED
    BY <1>1, <1>2, <2>1, <2>2 DEF SegmentFits
<1>5. \A i \in DOMAIN m0.segments : SegmentValid(m0, s(i))
  BY <1>4, FitsIsValid
<1>6. ASSUME NEW i \in DOMAIN m0.segments, NEW j \in 1 .. i - 1 PROVE Apart(s(i), s(j))
  <2>1. j \in DOMAIN m0.segments /\ i # j
    BY <1>1
  <2> QED
    BY <1>2, <1>4, <2>1, ApartIs DEF Data
<1>7. m0.total_length # 0
  <2>1. 1 \in DOMAIN m0.segments
    BY <1>1, <1>2
  <2> QED
    BY <1>1, <1>4, <2>1 DEF SegmentFits
<1>8. SegmentsValid(m0)
  BY <1>2, <1>5, <1>6, <1>7 DEF SegmentsValid
<1>9. LengthSum(m0) = m0.total_length
  <2>1. LengthSum(m0) = Cardinality(all)
    BY <1>2, <1>3, SumIsCount, CoveredIs
  <2> DEFINE size == m0.total_length
  <2>2. 0 \in Int /\ size - 1 \in Int /\ size \in Nat
    BY <1>1
  <2> HIDE DEF size
  <2>3. Cardinality(0 .. size - 1) = IF 0 > size - 1 THEN 0 ELSE size - 1 - 0 + 1
    BY <2>2, FS_Interval, Zenon
  <2>4. Cardinality(0 .. size - 1) = size
    BY <2>2, <2>3
  <2> QED
    BY <2>1, <2>4 DEF size
<1> QED
  BY <1>8, <1>9 DEF ManifestValidate
-----------------------------------------------------------------------------
(***************************************************************************)
(* What the tool makes of a file.                                          *)
(***************************************************************************)
Piece == [address : Nat, length : Nat]

\* A chunk is put somewhere among those sorted so far.
LEMMA InsertedIs ==
    ASSUME NEW sorted \in Chunks, NEW c \in Piece
    PROVE  Inserted(sorted, c) \in Chunks /\ Len(Inserted(sorted, c)) = Len(sorted) + 1
<1> DEFINE n == Len(sorted)
           front == {i \in DOMAIN sorted : sorted[i].address <= c.address}
           k == Cardinality(front)
           s == SubSeq(sorted, 1, (1 + k) - 1)
           t == SubSeq(sorted, 1 + k, n)
<1>1. /\ n \in Nat /\ DOMAIN sorted = 1 .. n /\ n = Len(sorted)
      /\ \A i \in 1 .. n : sorted[i] \in Piece
  <2>1. sorted \in Seq(Piece)
    BY DEF Chunks, Piece
  <2> QED
    BY <2>1
<1> HIDE DEF n
<1>2. k \in Nat /\ k <= n
  <2> DEFINE All == 1 .. n
  <2>1. front \in SUBSET All
    BY <1>1
  <2>2. IsFiniteSet(All) /\ Cardinality(All) = n
    <3>1. 1 \in Int /\ n \in Int
      BY <1>1
    <3>2. IsFiniteSet(1 .. n) /\ Cardinality(1 .. n) = IF 1 > n THEN 0 ELSE n - 1 + 1
      BY <3>1, FS_Interval, Zenon
    <3> QED
      BY <1>1, <3>2
  <2> HIDE DEF front, All
  <2>3. IsFiniteSet(front) /\ Cardinality(front) <= Cardinality(All)
    BY <2>1, <2>2, FS_Subset
  <2>4. Cardinality(front) \in Nat
    BY <2>3, FS_CardinalityType
  <2> QED
    BY <2>2, <2>3, <2>4
<1> HIDE DEF k
<1>3. s \in Seq(Piece) /\ Len(s) = k
  <2>1. /\ 1 \in Int /\ (1 + k) - 1 \in Int /\ (1 + k) - 1 = k
        /\ \A i \in 1 .. (1 + k) - 1 : sorted[i] \in Piece
    BY <1>1, <1>2
  <2>2. s \in Seq(Piece) /\ Len(s) = IF 1 <= (1 + k) - 1 THEN ((1 + k) - 1) - 1 + 1 ELSE 0
    BY <2>1, SubSeqProperties
  <2> QED
    BY <1>2, <2>2
<1>4. t \in Seq(Piece) /\ Len(t) = n - k
  <2>1. 1 + k \in Int /\ n \in Int /\ \A i \in 1 + k .. n : sorted[i] \in Piece
    BY <1>1, <1>2
  <2>2. t \in Seq(Piece) /\ Len(t) = IF 1 + k <= n THEN n - (1 + k) + 1 ELSE 0
    BY <2>1, SubSeqProperties
  <2>3. n \in Nat
    BY <1>1
  <2>4. (IF 1 + k <= n THEN n - (1 + k) + 1 ELSE 0) = n - k
    BY <1>2, <2>3
  <2> QED
    BY <2>2, <2>4
<1>5. Inserted(sorted, c) = s \o <<c>> \o t
  BY <1>1 DEF Inserted, InsertAt, k
<1> HIDE DEF s, t
<1>6. <<c>> \in Seq(Piece) /\ Len(<<c>>) = 1
  BY SMT
<1>7. s \o <<c>> \in Seq(Piece) /\ Len(s \o <<c>>) = k + 1
  BY <1>3, <1>6, ConcatProperties
<1>8. s \o <<c>> \o t \in Seq(Piece) /\ Len(s \o <<c>> \o t) = k + 1 + (n - k)
  BY <1>4, <1>7, ConcatProperties
<1> QED
  BY <1>1, <1>2, <1>5, <1>8 DEF Chunks, Piece

\* The sorted chunks are as many.
LEMMA SortingIs ==
    ASSUME NEW chunks \in Chunks
    PROVE  /\ Sorting(chunks)[Len(chunks)] \in Chunks
           /\ Len(Sorting(chunks)[Len(chunks)]) = Len(chunks)
<1> DEFINE n == Len(chunks)
           Body(g, i) == IF i = 0 THEN <<>> ELSE Inserted(g[i - 1], chunks[i])
           step == [x \in (1 .. n) \X Chunks |-> Inserted(x[2], chunks[x[1]])]
           f == Sorting(chunks)
           P == {i \in 0 .. n : f[i] \in Chunks /\ Len(f[i]) = i}
<1>1. n \in Nat /\ n = Len(chunks) /\ \A i \in 1 .. n : chunks[i] \in Piece
  <2>1. chunks \in Seq(Piece)
    BY DEF Chunks, Piece
  <2> QED
    BY <2>1
<1> HIDE DEF n
<1>2. step \in [(1 .. n) \X Chunks -> Chunks]
  <2>1. ASSUME NEW x \in (1 .. n) \X Chunks PROVE Inserted(x[2], chunks[x[1]]) \in Chunks
    <3>1. x[1] \in 1 .. n /\ x[2] \in Chunks
      OBVIOUS
    <3>2. chunks[x[1]] \in Piece
      BY <1>1, <3>1
    <3> QED
      BY <3>1, <3>2, InsertedIs
  <2> QED
    BY <2>1
<1>3. \A i \in 1 .. n, v \in Chunks : step[<<i, v>>] = Inserted(v, chunks[i])
  OBVIOUS
<1> HIDE DEF step
<1>4. <<>> \in Chunks /\ Len(<<>>) = 0
  BY DEF Chunks
<1>5. PICK g \in [0 .. n -> Chunks] :
        g[0] = <<>> /\ \A i \in 1 .. n : g[i] = step[<<i, g[i - 1]>>]
  <2> DEFINE base == <<>>
  <2>1. n \in Nat /\ base \in Chunks
    BY <1>1, <1>4
  <2> HIDE DEF base
  <2>2. Iterates(Chunks, base, n, step)
    BY <1>2, <2>1, Recursion
  <2> QED
    BY <2>2 DEF Iterates, base
<1>6. g = [i \in 0 .. n |-> Body(g, i)]
  <2>1. ASSUME NEW i \in 0 .. n PROVE g[i] = Body(g, i)
    <3>1. CASE i = 0
      BY <1>5, <3>1
    <3>2. CASE i # 0
      <4>1. i \in 1 .. n /\ i - 1 \in 0 .. n
        BY <1>1, <3>2
      <4> QED
        BY <1>3, <1>5, <3>2, <4>1
    <3> QED
      BY <3>1, <3>2
  <2> HIDE DEF Body
  <2> QED
    BY <2>1
<1>7. f = CHOOSE h : h = [i \in 0 .. n |-> Body(h, i)]
  BY DEF Sorting, n
<1>8. f = [i \in 0 .. n |-> Body(f, i)]
  <2> HIDE DEF Body, f
  <2> QED
    BY <1>6, <1>7
<1>9. f[0] = <<>> /\ \A i \in 1 .. n : f[i] = Inserted(f[i - 1], chunks[i])
  <2>1. 0 \in 0 .. n /\ \A i \in 1 .. n : i \in 0 .. n /\ i # 0
    BY <1>1
  <2> HIDE DEF f
  <2> QED
    BY <1>8, <2>1
<1> HIDE DEF f
<1>10. 0 \in P
  BY <1>1, <1>4, <1>9
<1>11. ASSUME NEW i \in 1 .. n, i - 1 \in P PROVE i \in P
  <2>1. f[i - 1] \in Chunks /\ Len(f[i - 1]) = i - 1 /\ chunks[i] \in Piece
    BY <1>1, <1>11
  <2>2. f[i] \in Chunks /\ Len(f[i]) = (i - 1) + 1
    BY <1>9, <2>1, InsertedIs
  <2> QED
    BY <1>1, <2>2
<1>12. n \in P
  <2> HIDE DEF P
  <2>1. 0 .. n \subseteq P
    BY <1>1, <1>10, <1>11, UpTo
  <2> QED
    BY <1>1, <2>1
<1> QED
  BY <1>1, <1>12 DEF f

\* What _merge has so far, and the order it keeps.
Merged == [ok : BOOLEAN, out : Chunks]
Sorted(out) ==
    \A j \in 1 .. Len(out) :
        /\ out[j].length # 0
        /\ \A i \in 1 .. j - 1 : out[i].address + out[i].length < out[j].address
Neat(acc) == acc.ok => Sorted(acc.out)

\* A piece behind all others may be added to them.
LEMMA SortedAppend ==
    ASSUME NEW out \in Seq(Piece), Sorted(out), NEW c \in Piece, c.length # 0,
           \A i \in 1 .. Len(out) : out[i].address + out[i].length < c.address
    PROVE  Append(out, c) \in Seq(Piece) /\ Sorted(Append(out, c))
<1> DEFINE n == Len(out)
           u == Append(out, c)
<1>1. /\ u \in Seq(Piece) /\ Len(u) = n + 1 /\ n \in Nat /\ u[n + 1] = c
      /\ \A i \in 1 .. n : u[i] = out[i]
  BY AppendProperties
<1> HIDE DEF u
<1>2. ASSUME NEW j \in 1 .. Len(u)
      PROVE  u[j].length # 0 /\ \A i \in 1 .. j - 1 : u[i].address + u[i].length < u[j].address
  <2>1. CASE j = n + 1
    BY <1>1, <2>1
  <2>2. CASE j # n + 1
    <3>1. j \in 1 .. n /\ \A i \in 1 .. j - 1 : i \in 1 .. n
      BY <1>1, <2>2
    <3>2. out[j].length # 0 /\ \A i \in 1 .. j - 1 : out[i].address + out[i].length < out[j].address
      BY <3>1 DEF Sorted
    <3> QED
      BY <1>1, <3>1, <3>2
  <2> QED
    BY <2>1, <2>2
<1>3. Sorted(u)
  BY <1>2 DEF Sorted
<1> QED
  BY <1>1, <1>3 DEF u

\* All but the last piece are still sorted.
LEMMA SortedFront ==
    ASSUME NEW out \in Seq(Piece), Sorted(out), out # <<>>
    PROVE  /\ Front(out) \in Seq(Piece) /\ Sorted(Front(out))
           /\ Len(out) \in Nat \ {0} /\ Len(Front(out)) = Len(out) - 1
           /\ \A i \in 1 .. Len(out) - 1 :
                /\ Front(out)[i] = out[i]
                /\ out[i].address + out[i].length < out[Len(out)].address
<1> DEFINE n == Len(out)
           u == Front(out)
<1>1. n \in Nat \ {0} /\ \A i \in 1 .. n : out[i] \in Piece
  BY EmptySeq, LenProperties
<1>2. u \in Seq(Piece) /\ Len(u) = n - 1 /\ \A i \in 1 .. n - 1 : u[i] = out[i]
  <2>1. 1 \in Int /\ n - 1 \in Int /\ \A i \in 1 .. n - 1 : out[i] \in Piece
    BY <1>1
  <2>2. /\ SubSeq(out, 1, n - 1) \in Seq(Piece)
        /\ Len(SubSeq(out, 1, n - 1)) = IF 1 <= n - 1 THEN (n - 1) - 1 + 1 ELSE 0
        /\ \A i \in 1 .. (n - 1) - 1 + 1 : SubSeq(out, 1, n - 1)[i] = out[1 + i - 1]
    BY <2>1, SubSeqProperties
  <2>3. u = SubSeq(out, 1, n - 1)
    BY DEF Front
  <2> HIDE DEF u, n
  <2>4. (n - 1) - 1 + 1 = n - 1 /\ \A i \in 1 .. n - 1 : 1 + i - 1 = i
    BY <1>1
  <2> QED
    BY <1>1, <2>2, <2>3, <2>4
<1>3. \A j \in 1 .. n, i \in 1 .. n : i < j => out[i].address + out[i].length < out[j].address
  BY <1>1 DEF Sorted
<1>4. \A j \in 1 .. n : out[j].length # 0
  BY DEF Sorted
<1> HIDE DEF u, n
<1>5. Sorted(u)
  <2>1. ASSUME NEW j \in 1 .. Len(u)
        PROVE  u[j].length # 0 /\ \A i \in 1 .. j - 1 : u[i].address + u[i].length < u[j].address
    <3>1. j \in 1 .. n - 1 /\ j \in 1 .. n
      BY <1>1, <1>2, <2>1
    <3>2. \A i \in 1 .. j - 1 : i \in 1 .. n - 1 /\ i \in 1 .. n /\ i < j
      BY <1>1, <3>1
    <3> QED
      BY <1>2, <1>3, <1>4, <3>1, <3>2
  <2> QED
    BY <2>1 DEF Sorted
<1>6. \A i \in 1 .. n - 1 : i \in 1 .. n /\ n \in 1 .. n /\ i < n
  BY <1>1
<1> QED
  BY <1>1, <1>2, <1>3, <1>5, <1>6 DEF u, n

\* The numbers of a piece.
LEMMA PieceNumbers ==
    ASSUME NEW s \in Seq(Piece), NEW i \in 1 .. Len(s)
    PROVE  s[i].address \in Nat /\ s[i].length \in Nat
<1>1. s[i] \in Piece
  OBVIOUS
<1> QED
  BY <1>1 DEF Piece

\* One iteration of _merge keeps the pieces in order.
LEMMA JoinedIs ==
    ASSUME NEW acc \in Merged, NEW c \in Piece
    PROVE  Joined(acc, c) \in Merged /\ (Neat(acc) => Neat(Joined(acc, c)))
<1> DEFINE out == acc.out
           n == Len(out)
           l == out[n]
           end == l.address + l.length
           k == [l EXCEPT !.length = l.length + c.length]
           new == Joined(acc, c)
<1>1. /\ acc.ok \in BOOLEAN /\ out \in Seq(Piece) /\ c.address \in Nat /\ c.length \in Nat
      /\ acc = [ok |-> acc.ok, out |-> acc.out]
  BY DEF Merged, Chunks, Piece
<1>2. \/ new = acc
      \/ /\ acc.ok /\ c.length # 0 /\ (out = <<>> \/ c.address > end)
         /\ new = [acc EXCEPT !.out = Append(out, c)]
      \/ /\ acc.ok /\ c.length # 0 /\ out # <<>> /\ c.address = end
         /\ new = [acc EXCEPT !.out = Append(Front(out), k)]
      \/ new = [acc EXCEPT !.ok = FALSE]
  <2>1. CASE ~acc.ok \/ c.length = 0
    BY <2>1 DEF Joined
  <2>2. CASE acc.ok /\ c.length # 0 /\ (out = <<>> \/ c.address > end)
    <3>1. acc.out = <<>> \/ c.address > Last(acc.out).address + Last(acc.out).length
      BY <2>2 DEF Last
    <3>2. ~(~acc.ok \/ c.length = 0)
      BY <2>2
    <3>3. ~(acc.out # <<>> /\ c.address = Last(acc.out).address + Last(acc.out).length)
      BY <1>1, <3>1
    <3> QED
      BY <2>2, <3>1, <3>2, <3>3 DEF Joined
  <2>3. CASE acc.ok /\ c.length # 0 /\ out # <<>> /\ c.address = end
    <3>1. acc.out # <<>> /\ c.address = Last(acc.out).address + Last(acc.out).length
      BY <2>3 DEF Last
    <3>2. ~(~acc.ok \/ c.length = 0)
      BY <2>3
    <3>3. ~(acc.out = <<>> \/ c.address > Last(acc.out).address + Last(acc.out).length)
      BY <1>1, <3>1
    <3>4. Joined(acc, c)
            = [acc EXCEPT !.out =
                  Append(Front(acc.out),
                         [Last(acc.out) EXCEPT !.length = Last(acc.out).length + c.length])]
      BY <2>3, <3>1, <3>2, <3>3, Zenon DEF Joined
    <3>5. Last(acc.out) = l
      BY DEF Last
    <3> QED
      BY <2>3, <3>4, <3>5, Zenon
  <2>4. CASE acc.ok /\ c.length # 0 /\ out # <<>> /\ ~(c.address > end) /\ c.address # end
    BY <2>4 DEF Joined, Last
  <2> QED
    BY <1>1, <2>1, <2>2, <2>3, <2>4
<1> HIDE DEF new
<1>3. CASE new = acc
  BY <1>3 DEF new
<1>4. CASE new = [acc EXCEPT !.ok = FALSE]
  BY <1>4 DEF new, Merged, Neat
<1>5. ASSUME acc.ok, c.length # 0, out = <<>> \/ c.address > end,
             new = [acc EXCEPT !.out = Append(out, c)]
      PROVE  new \in Merged /\ (Neat(acc) => Neat(new))
  <2>1. Append(out, c) \in Seq(Piece)
    BY <1>1, AppendProperties
  <2>2. new \in Merged /\ new.out = Append(out, c)
    BY <1>1, <1>5, <2>1 DEF Merged, Chunks, Piece
  <2>3. ASSUME Neat(acc) PROVE Neat(new)
    <3>1. Sorted(out)
      BY <1>5, <2>3 DEF Neat
    <3>2. \A i \in 1 .. Len(out) : out[i].address + out[i].length < c.address
      <4>1. CASE out = <<>>
        BY <4>1
      <4>2. CASE out # <<>> /\ c.address > end
        <5>1. /\ n \in Nat \ {0}
              /\ \A i \in 1 .. n - 1 : out[i].address + out[i].length < l.address
          BY <1>1, <3>1, <4>2, SortedFront
        <5>2. \A i \in 1 .. n : out[i].address \in Nat /\ out[i].length \in Nat
          BY <1>1, PieceNumbers
        <5> HIDE DEF n
        <5>3. n \in 1 .. n /\ \A i \in 1 .. n : i \in 1 .. n - 1 \/ i = n
          BY <5>1
        <5> HIDE DEF out
        <5>4. ASSUME NEW i \in 1 .. n PROVE out[i].address + out[i].length < c.address
          BY <1>1, <4>2, <5>1, <5>2, <5>3, SMTT(30)
        <5> QED
          BY <5>4 DEF n
      <4> QED
        BY <1>5, <4>1, <4>2
    <3> QED
      BY <1>1, <1>5, <2>2, <3>1, <3>2, SortedAppend DEF Neat
  <2> QED
    BY <2>2, <2>3
<1>6. ASSUME acc.ok, c.length # 0, out # <<>>, c.address = end,
             new = [acc EXCEPT !.out = Append(Front(out), k)]
      PROVE  new \in Merged /\ (Neat(acc) => Neat(new))
  <2>1. n \in Nat \ {0} /\ l \in Piece
    BY <1>1, <1>6, EmptySeq
  <2>2. Front(out) \in Seq(Piece)
    <3>1. 1 \in Int /\ n - 1 \in Int /\ \A i \in 1 .. n - 1 : out[i] \in Piece
      BY <1>1, <2>1
    <3>2. SubSeq(out, 1, n - 1) \in Seq(Piece)
      BY <3>1, SubSeqProperties
    <3> QED
      BY <3>2 DEF Front
  <2> HIDE DEF l
  <2>3. k \in Piece /\ k.address = l.address /\ k.length = l.length + c.length
    BY <1>1, <2>1 DEF Piece
  <2> HIDE DEF k
  <2>4. Append(Front(out), k) \in Seq(Piece)
    BY <2>2, <2>3, AppendProperties
  <2>5. new \in Merged /\ new.out = Append(Front(out), k)
    BY <1>1, <1>6, <2>4 DEF Merged, Chunks, Piece
  <2>6. ASSUME Neat(acc) PROVE Neat(new)
    <3>1. Sorted(out)
      BY <1>6, <2>6 DEF Neat
    <3>2. /\ Sorted(Front(out)) /\ Len(Front(out)) = n - 1
          /\ \A i \in 1 .. n - 1 :
                Front(out)[i] = out[i] /\ out[i].address + out[i].length < k.address
      BY <1>1, <1>6, <2>3, <3>1, SortedFront DEF l
    <3>3. k.length # 0
      BY <1>1, <1>6, <2>1, <2>3 DEF Piece
    <3> QED
      BY <2>2, <2>3, <2>5, <3>2, <3>3, SortedAppend DEF Neat
  <2> QED
    BY <2>5, <2>6
<1> QED
  BY <1>2, <1>3, <1>4, <1>5, <1>6 DEF new

\* What _merge makes of sorted chunks is in order, with gaps, unless it is an error.
LEMMA MergingIs ==
    ASSUME NEW sorted \in Chunks
    PROVE  Merging(sorted)[Len(sorted)] \in Merged /\ Neat(Merging(sorted)[Len(sorted)])
<1> DEFINE n == Len(sorted)
           none == [ok |-> TRUE, out |-> <<>>]
           Body(g, i) == IF i = 0 THEN none ELSE Joined(g[i - 1], sorted[i])
           step == [x \in (1 .. n) \X Merged |-> Joined(x[2], sorted[x[1]])]
           f == Merging(sorted)
           P == {i \in 0 .. n : f[i] \in Merged /\ Neat(f[i])}
<1>1. n \in Nat /\ n = Len(sorted) /\ \A i \in 1 .. n : sorted[i] \in Piece
  <2>1. sorted \in Seq(Piece)
    BY DEF Chunks, Piece
  <2> QED
    BY <2>1
<1> HIDE DEF n
<1>2. step \in [(1 .. n) \X Merged -> Merged]
  <2>1. ASSUME NEW x \in (1 .. n) \X Merged PROVE Joined(x[2], sorted[x[1]]) \in Merged
    <3>1. x[1] \in 1 .. n /\ x[2] \in Merged
      OBVIOUS
    <3>2. sorted[x[1]] \in Piece
      BY <1>1, <3>1
    <3> QED
      BY <3>1, <3>2, JoinedIs
  <2> QED
    BY <2>1
<1>3. \A i \in 1 .. n, v \in Merged : step[<<i, v>>] = Joined(v, sorted[i])
  OBVIOUS
<1> HIDE DEF step
<1>4. none \in Merged /\ Neat(none)
  BY DEF Merged, Chunks, Neat, Sorted
<1> HIDE DEF none
<1>5. PICK g \in [0 .. n -> Merged] :
        g[0] = none /\ \A i \in 1 .. n : g[i] = step[<<i, g[i - 1]>>]
  <2>1. Iterates(Merged, none, n, step)
    BY <1>1, <1>2, <1>4, Recursion
  <2> QED
    BY <2>1 DEF Iterates
<1>6. g = [i \in 0 .. n |-> Body(g, i)]
  <2>1. ASSUME NEW i \in 0 .. n PROVE g[i] = Body(g, i)
    <3>1. CASE i = 0
      BY <1>5, <3>1
    <3>2. CASE i # 0
      <4>1. i \in 1 .. n /\ i - 1 \in 0 .. n
        BY <1>1, <3>2
      <4> QED
        BY <1>3, <1>5, <3>2, <4>1
    <3> QED
      BY <3>1, <3>2
  <2> HIDE DEF Body
  <2> QED
    BY <2>1
<1>7. f = CHOOSE h : h = [i \in 0 .. n |-> Body(h, i)]
  BY DEF Merging, n, none
<1>8. f = [i \in 0 .. n |-> Body(f, i)]
  <2> HIDE DEF Body, f
  <2> QED
    BY <1>6, <1>7
<1>9. f[0] = none /\ \A i \in 1 .. n : f[i] = Joined(f[i - 1], sorted[i])
  <2>1. 0 \in 0 .. n /\ \A i \in 1 .. n : i \in 0 .. n /\ i # 0
    BY <1>1
  <2> HIDE DEF f
  <2> QED
    BY <1>8, <2>1
<1> HIDE DEF f
<1>10. 0 \in P
  BY <1>1, <1>4, <1>9
<1>11. ASSUME NEW i \in 1 .. n, i - 1 \in P PROVE i \in P
  <2>1. f[i - 1] \in Merged /\ Neat(f[i - 1]) /\ sorted[i] \in Piece /\ i \in 0 .. n
    BY <1>1, <1>11
  <2>2. f[i] \in Merged /\ Neat(f[i])
    BY <1>9, <2>1, JoinedIs
  <2> QED
    BY <2>1, <2>2
<1>12. n \in P
  <2> HIDE DEF P
  <2>1. 0 .. n \subseteq P
    BY <1>1, <1>10, <1>11, UpTo
  <2> QED
    BY <1>1, <2>1
<1> QED
  BY <1>12 DEF f, n

\* So it is for any chunks.
LEMMA MergeIs ==
    ASSUME NEW file \in Chunks
    PROVE  Merge(file) \in Merged /\ Neat(Merge(file))
<1>1. Sorting(file)[Len(file)] \in Chunks /\ Len(Sorting(file)[Len(file)]) = Len(file)
  BY SortingIs
<1> QED
  BY <1>1, MergingIs DEF Merge

\* encode_manifest, chunk by chunk: the data of one begins where that of those before ends.
Record == [address : Nat, length : Nat, data_offset : Nat]
LEMMA RecordingIs ==
    ASSUME NEW out \in Seq(Piece)
    PROVE  LET f == Recording(out) IN
           /\ f \in [0 .. Len(out) -> [total : Nat, segments : Seq(Record)]]
           /\ f[0].total = 0 /\ f[0].segments = <<>>
           /\ \A i \in 1 .. Len(out) :
                /\ f[i].total = f[i - 1].total + out[i].length
                /\ f[i].segments = Append(f[i - 1].segments,
                                          [address |-> out[i].address, length |-> out[i].length,
                                           data_offset |-> f[i - 1].total])
<1> DEFINE n == Len(out)
           S == [total : Nat, segments : Seq(Record)]
           none == [total |-> 0, segments |-> <<>>]
           Body(g, i) == IF i = 0 THEN none ELSE Recorded(g[i - 1], out[i])
           step == [x \in (1 .. n) \X S |-> Recorded(x[2], out[x[1]])]
           f == Recording(out)
<1>1. n \in Nat /\ n = Len(out) /\ \A i \in 1 .. n : out[i] \in Piece
  OBVIOUS
<1> HIDE DEF n
<1>2. ASSUME NEW acc \in S, NEW c \in Piece PROVE Recorded(acc, c) \in S
  <2>1. /\ acc.total \in Nat /\ acc.segments \in Seq(Record)
        /\ c.address \in Nat /\ c.length \in Nat
    BY DEF Piece
  <2>2. [address |-> c.address, length |-> c.length, data_offset |-> acc.total] \in Record
    BY <2>1 DEF Record
  <2>3. Append(acc.segments, [address |-> c.address, length |-> c.length,
                              data_offset |-> acc.total]) \in Seq(Record)
    BY <2>1, <2>2, AppendProperties
  <2> QED
    BY <2>1, <2>3 DEF Recorded
<1>3. none \in S
  OBVIOUS
<1> HIDE DEF S, none
<1>4. step \in [(1 .. n) \X S -> S]
  <2>1. ASSUME NEW x \in (1 .. n) \X S PROVE Recorded(x[2], out[x[1]]) \in S
    <3>1. x[1] \in 1 .. n /\ x[2] \in S
      OBVIOUS
    <3>2. out[x[1]] \in Piece
      BY <1>1, <3>1
    <3> QED
      BY <1>2, <3>1, <3>2
  <2> QED
    BY <2>1
<1>5. \A i \in 1 .. n, v \in S : step[<<i, v>>] = Recorded(v, out[i])
  OBVIOUS
<1> HIDE DEF step
<1>6. PICK g \in [0 .. n -> S] :
        g[0] = none /\ \A i \in 1 .. n : g[i] = step[<<i, g[i - 1]>>]
  <2>1. Iterates(S, none, n, step)
    BY <1>1, <1>3, <1>4, Recursion
  <2> QED
    BY <2>1 DEF Iterates
<1>7. \A i \in 1 .. n : i \in 0 .. n /\ i - 1 \in 0 .. n /\ i # 0
  BY <1>1
<1>8. g = [i \in 0 .. n |-> Body(g, i)]
  <2>1. ASSUME NEW i \in 0 .. n PROVE g[i] = Body(g, i)
    <3>1. CASE i = 0
      BY <1>6, <3>1
    <3>2. CASE i # 0
      <4>1. i \in 1 .. n /\ i - 1 \in 0 .. n
        BY <1>1, <3>2
      <4> QED
        BY <1>5, <1>6, <3>2, <4>1
    <3> QED
      BY <3>1, <3>2
  <2> HIDE DEF Body
  <2> QED
    BY <2>1
<1>9. f = CHOOSE h : h = [i \in 0 .. n |-> Body(h, i)]
  BY DEF Recording, n, none
<1>10. f = [i \in 0 .. n |-> Body(f, i)]
  <2> HIDE DEF Body, f
  <2> QED
    BY <1>8, <1>9
<1>11. f[0] = none /\ \A i \in 1 .. n : f[i] = Recorded(f[i - 1], out[i])
  <2>1. 0 \in 0 .. n
    BY <1>1
  <2> HIDE DEF f
  <2> QED
    BY <1>7, <1>10, <2>1
<1> HIDE DEF f
<1>12. f \in [0 .. n -> S]
  <2> DEFINE P == {i \in 0 .. n : f[i] \in S}
  <2>1. 0 \in P
    BY <1>1, <1>3, <1>11
  <2>2. ASSUME NEW i \in 1 .. n, i - 1 \in P PROVE i \in P
    BY <1>1, <1>2, <1>7, <1>11, <2>2
  <2>3. 0 .. n \subseteq P
    <3> HIDE DEF P
    <3> QED
      BY <1>1, <2>1, <2>2, UpTo
  <2>4. \A i \in 0 .. n : f[i] \in S
    BY <2>3
  <2> HIDE DEF P, Body
  <2> QED
    BY <1>10, <2>4
<1>13. \A i \in 1 .. n :
        /\ f[i].total = f[i - 1].total + out[i].length
        /\ f[i].segments = Append(f[i - 1].segments,
                                  [address |-> out[i].address, length |-> out[i].length,
                                   data_offset |-> f[i - 1].total])
  <2>1. ASSUME NEW i \in 1 .. n
        PROVE  /\ f[i].total = f[i - 1].total + out[i].length
               /\ f[i].segments = Append(f[i - 1].segments,
                                         [address |-> out[i].address, length |-> out[i].length,
                                          data_offset |-> f[i - 1].total])
    <3> DEFINE t == f[i - 1].total + out[i].length
               s == Append(f[i - 1].segments,
                           [address |-> out[i].address, length |-> out[i].length,
                            data_offset |-> f[i - 1].total])
    <3>1. f[i] = [total |-> t, segments |-> s]
      BY <1>11, Zenon DEF Recorded
    <3> HIDE DEF t, s
    <3>2. f[i].total = t /\ f[i].segments = s
      BY <3>1
    <3> QED
      BY <3>2 DEF t, s
  <2> QED
    BY <2>1, Zenon
<1>14. f[0].total = 0 /\ f[0].segments = <<>>
  BY <1>11 DEF none
<1>15. f \in [0 .. Len(out) -> [total : Nat, segments : Seq(Record)]]
  BY <1>12 DEF n, S
<1> QED
  BY <1>13, <1>14, <1>15 DEF f, n

\* The numbers of what is recorded: segment j begins in the flash where its piece does,
\* and in the data where the pieces before it end.
Recorder(out, f) ==
    \A i \in 1 .. Len(out) :
        /\ f[i].total \in Nat /\ f[i].total = f[i - 1].total + out[i].length
        /\ f[i].segments \in Seq(Record) /\ Len(f[i].segments) = i
        /\ \A j \in 1 .. i :
            f[i].segments[j] = [address |-> out[j].address, length |-> out[j].length,
                                data_offset |-> f[j - 1].total]
LEMMA RecordsAre ==
    ASSUME NEW out \in Seq(Piece)
    PROVE  Recorder(out, Recording(out)) /\ Recording(out)[0].total = 0
<1> DEFINE n == Len(out)
           f == Recording(out)
           entry(j) == [address |-> out[j].address, length |-> out[j].length,
                        data_offset |-> f[j - 1].total]
           Is(i) == Len(f[i].segments) = i /\ \A j \in 1 .. i : f[i].segments[j] = entry(j)
           P == {i \in 0 .. n : Is(i)}
<1>1. /\ n \in Nat
      /\ \A i \in 0 .. n : f[i].total \in Nat /\ f[i].segments \in Seq(Record)
      /\ f[0].total = 0 /\ f[0].segments = <<>>
      /\ \A i \in 1 .. n : /\ f[i].total = f[i - 1].total + out[i].length
                           /\ f[i].segments = Append(f[i - 1].segments, entry(i))
  <2>1. n \in Nat
    OBVIOUS
  <2>2. f \in [0 .. n -> [total : Nat, segments : Seq(Record)]]
    BY RecordingIs
  <2>3. \A i \in 0 .. n : f[i] \in [total : Nat, segments : Seq(Record)]
    BY <2>2, Zenon
  <2>4. \A i \in 0 .. n : f[i].total \in Nat /\ f[i].segments \in Seq(Record)
    BY <2>3, Zenon
  <2> QED
    BY <2>1, <2>4, RecordingIs
<1> HIDE DEF f, n
<1>2. \A i \in 1 .. n : entry(i) \in Record
  <2>1. ASSUME NEW i \in 1 .. n PROVE entry(i) \in Record
    <3>1. i - 1 \in 0 .. n
      BY <1>1
    <3>2. out[i] \in Piece
      BY DEF n
    <3> QED
      BY <1>1, <3>1, <3>2 DEF Piece, Record
  <2> QED
    BY <2>1
<1> HIDE DEF entry
<1>3. 0 \in P
  BY <1>1
<1>4. ASSUME NEW i \in 1 .. n, i - 1 \in P PROVE i \in P
  <2> DEFINE s == f[i - 1].segments
             u == f[i].segments
  <2>1. /\ s \in Seq(Record) /\ Len(s) = i - 1 /\ \A j \in 1 .. i - 1 : s[j] = entry(j)
        /\ u = Append(s, entry(i)) /\ entry(i) \in Record /\ i \in 0 .. n /\ i \in Nat
    BY <1>1, <1>2, <1>4, SMTT(30)
  <2> HIDE DEF s, u
  <2>2. /\ Len(u) = (i - 1) + 1 /\ u[(i - 1) + 1] = entry(i)
        /\ \A j \in 1 .. i - 1 : u[j] = s[j]
    BY <2>1, AppendProperties
  <2>3. ASSUME NEW j \in 1 .. i PROVE u[j] = entry(j)
    <3>1. j = i \/ j \in 1 .. i - 1
      BY <2>1
    <3> QED
      BY <2>1, <2>2, <3>1
  <2>4. Len(u) = i
    BY <2>1, <2>2
  <2> QED
    BY <2>1, <2>3, <2>4 DEF u
<1>5. \A i \in 0 .. n : Is(i)
  <2> HIDE DEF P
  <2>1. 0 .. n \subseteq P
    BY <1>1, <1>3, <1>4, UpTo
  <2> QED
    BY <2>1 DEF P
<1>6. \A i \in 1 .. n : i \in 0 .. n
  OBVIOUS
<1> QED
  BY <1>1, <1>5, <1>6 DEF Recorder, f, n, entry

\* The pieces the tool takes, and where the data of each begins: before the piece in the
\* flash ends.
LEMMA TotalsAre ==
    ASSUME NEW out \in Seq(Piece), Sorted(out), NEW f,
           Recorder(out, f), f[0].total = 0
    PROVE  /\ \A i \in 1 .. Len(out) : f[i].total <= out[i].address + out[i].length
           /\ \A i \in 0 .. Len(out), j \in 0 .. Len(out) : i <= j => f[i].total <= f[j].total
<1> DEFINE n == Len(out)
           total(i) == f[i].total
           P == {i \in 0 .. n : i # 0 => total(i) <= out[i].address + out[i].length}
           Q == {j \in 0 .. n : \A i \in 0 .. j : total(i) <= total(j)}
<1>1. /\ n \in Nat /\ \A i \in 0 .. n : total(i) \in Nat
      /\ \A i \in 1 .. n : /\ total(i) = total(i - 1) + out[i].length
                           /\ out[i].length \in Nat /\ out[i].address \in Nat
      /\ total(0) = 0
  <2>1. n \in Nat /\ \A i \in 0 .. n : i = 0 \/ i \in 1 .. n
    OBVIOUS
  <2> QED
    BY <2>1, PieceNumbers DEF Recorder
<1>2. \A i \in 2 .. n : out[i - 1].address + out[i - 1].length < out[i].address
  <2>1. \A i \in 2 .. n : i \in 1 .. n /\ i - 1 \in 1 .. i - 1
    BY <1>1
  <2> QED
    BY <2>1 DEF Sorted
<1> HIDE DEF n, total
<1>3. 0 \in P /\ 0 \in Q
  <2>1. 0 \in 0 .. n /\ \A i \in 0 .. 0 : i = 0
    BY <1>1
  <2> QED
    BY <1>1, <2>1
<1>4. ASSUME NEW i \in 1 .. n, i - 1 \in P PROVE i \in P
  <2>0. i \in 0 .. n /\ i - 1 \in 0 .. n
    BY <1>1
  <2>1. CASE i = 1
    BY <1>1, <2>0, <2>1
  <2>2. CASE i # 1
    <3>1. i \in 2 .. n /\ i - 1 \in 1 .. n
      BY <1>1, <2>2
    <3>2. total(i - 1) <= out[i - 1].address + out[i - 1].length
      BY <1>4, <3>1
    <3>3. out[i - 1].address + out[i - 1].length < out[i].address
      BY <1>2, <3>1
    <3>4. total(i) <= out[i].address + out[i].length
      <4>1. /\ total(i) \in Nat /\ total(i - 1) \in Nat
            /\ total(i) = total(i - 1) + out[i].length
            /\ out[i].length \in Nat /\ out[i].address \in Nat
            /\ out[i - 1].length \in Nat /\ out[i - 1].address \in Nat
        BY <1>1, <2>0, <3>1
      <4> QED
        BY <3>2, <3>3, <4>1, SMTT(30)
    <3> QED
      BY <2>0, <3>4
  <2> QED
    BY <2>1, <2>2
<1>5. ASSUME NEW j \in 1 .. n, j - 1 \in Q PROVE j \in Q
  <2>0. j \in 0 .. n /\ j - 1 \in 0 .. n
    BY <1>1
  <2>1. total(j - 1) <= total(j)
    <3>1. /\ total(j) \in Nat /\ total(j - 1) \in Nat /\ out[j].length \in Nat
          /\ total(j) = total(j - 1) + out[j].length
      BY <1>1, <2>0
    <3> QED
      BY <3>1
  <2>2. ASSUME NEW i \in 0 .. j PROVE total(i) <= total(j)
    <3>1. i \in 0 .. n /\ (i = j \/ i \in 0 .. j - 1)
      BY <1>1
    <3>2. i = j \/ total(i) <= total(j - 1)
      BY <1>5, <3>1
    <3>3. total(i) \in Nat /\ total(j) \in Nat /\ total(j - 1) \in Nat
      BY <1>1, <2>0, <3>1
    <3> QED
      BY <2>1, <3>2, <3>3
  <2> QED
    BY <2>0, <2>2
<1>6. 0 .. n \subseteq P /\ 0 .. n \subseteq Q
  <2> HIDE DEF P, Q
  <2>1. 0 .. n \subseteq P
    BY <1>1, <1>3, <1>4, UpTo
  <2>2. 0 .. n \subseteq Q
    BY <1>1, <1>3, <1>5, UpTo
  <2> QED
    BY <2>1, <2>2
<1>7. \A i \in 1 .. n : total(i) <= out[i].address + out[i].length
  <2>1. \A i \in 1 .. n : i \in 0 .. n /\ i # 0
    BY <1>1
  <2> QED
    BY <1>6, <2>1
<1>8. \A i \in 0 .. n, j \in 0 .. n : i <= j => total(i) <= total(j)
  <2>1. \A i \in 0 .. n, j \in 0 .. n : i <= j => i \in 0 .. j
    BY <1>1
  <2> QED
    BY <1>6, <2>1
<1> QED
  BY <1>7, <1>8 DEF n, total

\* The data of the segments follow each other, from the first byte of the data to its last.
DataEnd(m0, i) == m0.segments[i].data_offset + m0.segments[i].length
Consecutive(m0) ==
    /\ \A i \in DOMAIN m0.segments :
        m0.segments[i].data_offset = IF i = 1 THEN 0 ELSE DataEnd(m0, i - 1)
    /\ m0.total_length = DataEnd(m0, Len(m0.segments))

\* What the tool makes of a file it takes is a manifest the firmware accepts.
LEMMA EncodedIs ==
    ASSUME NEW file \in Chunks, Loads(file)
    PROVE  /\ EncodeManifest(file) \in Manifests
           /\ ManifestValidate(EncodeManifest(file))
           /\ Consecutive(EncodeManifest(file))
<1> DEFINE out == Merge(file).out
           f == Recording(out)
           n == Len(out)
           total(i) == f[i].total
           m0 == EncodeManifest(file)
           segs == m0.segments
<1>1. /\ out \in Seq(Piece) /\ Sorted(out) /\ n \in 1 .. MaxSegments
      /\ \A i \in 1 .. n : out[i].address % 8 = 0 /\ out[i].address + out[i].length <= FlashSize
  <2>1. Merge(file).ok /\ Sorted(out) /\ out \in Seq(Piece)
    BY MergeIs DEF Loads, Neat, Merged, Chunks, Piece
  <2> QED
    BY <2>1 DEF Loads, Aligned
<1>2. Recorder(out, f) /\ total(0) = 0
  BY <1>1, RecordsAre
<1>3. m0 = [total_length |-> f[n].total, segments |-> f[n].segments]
  BY DEF EncodeManifest
<1> HIDE DEF out, f, m0
<1>4. /\ n \in Nat \ {0} /\ n <= MaxSegments
      /\ \A i \in 0 .. n : total(i) \in Nat
      /\ \A i \in 1 .. n : /\ total(i) = total(i - 1) + out[i].length
                           /\ out[i].length \in Nat \ {0} /\ out[i].address \in Nat
                           /\ total(i) <= out[i].address + out[i].length
      /\ \A i \in 0 .. n, j \in 0 .. n : i <= j => total(i) <= total(j)
  <2>1. n \in Nat \ {0} /\ n <= MaxSegments
    BY <1>1, ManifestAssumption
  <2>2. \A i \in 0 .. n : i = 0 \/ i \in 1 .. n
    BY <2>1
  <2>3. \A i \in 1 .. n : out[i].length \in Nat /\ out[i].address \in Nat /\ out[i].length # 0
    BY <1>1, PieceNumbers DEF Sorted
  <2>4. \A i \in 0 .. n : total(i) \in Nat
    BY <1>2, <2>2 DEF Recorder
  <2>5. \A i \in 1 .. n : total(i) = total(i - 1) + out[i].length
    BY <1>2 DEF Recorder
  <2> QED
    BY <1>1, <1>2, <2>1, <2>3, <2>4, <2>5, TotalsAre
<1>5. /\ segs \in Seq(Record) /\ Len(segs) = n /\ m0.total_length = total(n)
      /\ \A j \in 1 .. n : segs[j] = [address |-> out[j].address, length |-> out[j].length,
                                      data_offset |-> total(j - 1)]
  <2>1. n \in 1 .. n
    BY <1>4
  <2>2. m0.total_length = f[n].total /\ segs = f[n].segments
    BY <1>3
  <2> QED
    BY <1>2, <2>1, <2>2 DEF Recorder
<1> HIDE DEF n, total
<1>6. total(n) \in Nat /\ total(n) <= FlashSize
  <2>1. n \in 1 .. n /\ n \in 0 .. n
    BY <1>4
  <2>2. total(n) \in Nat /\ total(n) <= out[n].address + out[n].length
    BY <1>4, <2>1
  <2>3. /\ out[n].address + out[n].length <= FlashSize
        /\ out[n].address \in Nat /\ out[n].length \in Nat
    BY <1>1, <1>4, <2>1 DEF n
  <2> QED
    BY <2>2, <2>3, ManifestAssumption
<1>7. ASSUME NEW j \in 1 .. n
      PROVE  /\ SegmentFits(m0, segs[j]) /\ segs[j] \in Segment
             /\ segs[j].address = out[j].address /\ segs[j].length = out[j].length
             /\ segs[j].data_offset = total(j - 1) /\ DataEnd(m0, j) = total(j)
  <2> DEFINE a == out[j].address
             k == out[j].length
             d == total(j - 1)
  <2>1. /\ j \in 0 .. n /\ j - 1 \in 0 .. n /\ n \in 0 .. n /\ j <= n /\ j \in Nat
    BY <1>4
  <2>2. /\ a \in Nat /\ k \in Nat \ {0} /\ d \in Nat /\ total(j) = d + k /\ total(j) <= total(n)
    BY <1>4, <2>1
  <2>3. a % 8 = 0 /\ a + k <= FlashSize
    BY <1>1 DEF n
  <2>4. segs[j] = [address |-> a, length |-> k, data_offset |-> d]
    BY <1>5
  <2> HIDE DEF a, k, d
  <2>5. segs[j].address = a /\ segs[j].length = k /\ segs[j].data_offset = d
    BY <2>4
  <2>6. a \in Field /\ k \in Field /\ d \in Field
    BY <1>6, <2>2, <2>3, ManifestAssumption DEF Field
  <2>7. segs[j] \in Segment
    BY <2>4, <2>6 DEF Segment
  <2>8. SegmentFits(m0, segs[j])
    BY <1>5, <1>6, <2>2, <2>3, <2>5 DEF SegmentFits
  <2>9. DataEnd(m0, j) = total(j)
    BY <2>2, <2>5 DEF DataEnd
  <2> QED
    BY <2>5, <2>7, <2>8, <2>9 DEF a, k, d
<1>8. DOMAIN segs = 1 .. n
  BY <1>5
<1>9. m0 \in Manifests
  <2>1. segs \in Seq(Segment)
    BY <1>4, <1>5, <1>7, SMTT(30)
  <2>2. total(n) \in Field
    BY <1>6, ManifestAssumption DEF Field
  <2>3. m0 = [total_length |-> total(n), segments |-> segs]
    BY <1>3, <1>5
  <2> QED
    BY <2>1, <2>2, <2>3 DEF Manifests
<1>10. Consecutive(m0)
  <2>1. ASSUME NEW i \in 1 .. n
        PROVE  segs[i].data_offset = IF i = 1 THEN 0 ELSE DataEnd(m0, i - 1)
    <3>1. CASE i = 1
      BY <1>2, <1>7, <3>1 DEF total
    <3>2. CASE i # 1
      <4>1. i - 1 \in 1 .. n
        BY <1>4, <3>2
      <4> QED
        BY <1>7, <3>2, <4>1
    <3> QED
      BY <3>1, <3>2
  <2>2. n \in 1 .. n
    BY <1>4
  <2> QED
    BY <1>5, <1>7, <1>8, <2>1, <2>2 DEF Consecutive
<1>11. ASSUME NEW i \in 1 .. n, NEW j \in 1 .. i - 1 PROVE Apart(segs[i], segs[j])
  <2>1. /\ j \in 1 .. n /\ j < i /\ i \in 0 .. n /\ j \in 0 .. n /\ i - 1 \in 0 .. n /\ j <= i - 1
        /\ j \in Nat
    BY <1>4
  <2>2. out[j].address + out[j].length < out[i].address
    BY <1>1, <2>1 DEF Sorted, n
  <2>3. total(j) <= total(i - 1)
    BY <1>4, <2>1
  <2>4. /\ SegmentFits(m0, segs[i]) /\ SegmentFits(m0, segs[j])
        /\ segs[i].address = out[i].address /\ segs[j].address = out[j].address
        /\ segs[j].length = out[j].length
        /\ segs[j].data_offset + segs[j].length = total(j) /\ segs[i].data_offset = total(i - 1)
    BY <1>7, <2>1 DEF DataEnd
  <2>5. segs[j].address + segs[j].length <= segs[i].address
    <3>1. /\ out[j].address \in Nat /\ out[j].length \in Nat /\ out[i].address \in Nat
      BY <1>4, <2>1
    <3> QED
      BY <2>2, <2>4, <3>1
  <2>6. segs[j].data_offset + segs[j].length <= segs[i].data_offset
    BY <2>3, <2>4
  <2>7. /\ Span(segs[i].address, segs[i].length) \cap Span(segs[j].address, segs[j].length) = {}
        /\ Span(segs[i].data_offset, segs[i].length)
             \cap Span(segs[j].data_offset, segs[j].length) = {}
    BY <2>4, <2>5, <2>6, SpansApart DEF SegmentFits
  <2> QED
    BY <2>4, <2>7, ApartIs
<1>12. SegmentsValid(m0)
  <2>1. m0.total_length # 0
    <3>1. 1 \in 1 .. n
      BY <1>4
    <3>2. SegmentFits(m0, segs[1])
      BY <1>7, <3>1
    <3> QED
      BY <3>2 DEF SegmentFits
  <2>2. Len(segs) \in 1 .. MaxSegments
    BY <1>4, <1>5
  <2>3. \A i \in 1 .. n : SegmentValid(m0, segs[i])
    BY <1>7, FitsIsValid
  <2> QED
    BY <1>5, <1>6, <1>8, <1>11, <2>1, <2>2, <2>3 DEF SegmentsValid
<1>13. LengthSum(m0) = m0.total_length
  <2> DEFINE sum == LengthSums(segs)
             P == {i \in 0 .. n : sum[i] = total(i)}
  <2>1. segs \in Seq(Segment)
    BY <1>4, <1>5, <1>7
  <2>2. sum[0] = 0 /\ \A i \in 1 .. n : sum[i] = Plus(sum[i - 1], out[i].length)
    BY <1>5, <1>7, <2>1, LengthSumsAre
  <2> HIDE DEF sum
  <2>3. 0 \in P
    BY <1>2, <1>4, <2>2 DEF total
  <2>4. ASSUME NEW i \in 1 .. n, i - 1 \in P PROVE i \in P
    <3>1. i \in 0 .. n /\ i - 1 \in 0 .. n /\ n \in 0 .. n /\ i <= n
      BY <1>4
    <3>2. /\ sum[i - 1] = total(i - 1) /\ sum[i] = Plus(sum[i - 1], out[i].length)
      BY <2>2, <2>4
    <3>3. /\ total(i - 1) \in Nat /\ out[i].length \in Nat /\ total(i) <= total(n)
          /\ total(i) = total(i - 1) + out[i].length /\ total(i) \in Nat
      BY <1>4, <3>1
    <3>4. total(i - 1) + out[i].length <= FlashSize
      BY <1>6, <3>3, ManifestAssumption
    <3>5. sum[i] = total(i)
      BY <3>2, <3>3, <3>4, NoWrap
    <3> QED
      BY <3>1, <3>5
  <2>5. n \in P
    <3> HIDE DEF P
    <3>1. 0 .. n \subseteq P
      BY <1>4, <2>3, <2>4, UpTo
    <3> QED
      BY <1>4, <3>1
  <2> QED
    BY <1>5, <2>5 DEF LengthSum, sum
<1> QED
  BY <1>9, <1>10, <1>12, <1>13 DEF ManifestValidate, m0
-----------------------------------------------------------------------------
(***************************************************************************)
(* The hash over what was read, at the end of the verification.            *)
(***************************************************************************)

\* The sequences in a row, each joined to those before it.
LEMMA FlattenIs ==
    ASSUME NEW n \in Nat \ {0}, NEW seqs \in [1 .. n -> Seq(Nat)]
    PROVE  \E f \in [1 .. n -> Seq(Nat)] :
              /\ f[1] = seqs[1] /\ \A i \in 2 .. n : f[i] = f[i - 1] \o seqs[i]
              /\ FlattenSeq(seqs) = f[n]
<1> DEFINE S == Seq(Nat)
           none == <<>>
           Body(h, i) == IF i = 1 THEN seqs[i] ELSE h[i - 1] \o seqs[i]
           step == [x \in (1 .. n) \X S |-> x[2] \o seqs[x[1]]]
           Is(h) == h = [i \in 1 .. n |-> Body(h, i)]
           f == CHOOSE h : Is(h)
<1>1. \A i \in 1 .. n : seqs[i] \in Seq(Nat)
  OBVIOUS
<1>2. step \in [(1 .. n) \X S -> S]
  <2>1. ASSUME NEW x \in (1 .. n) \X S PROVE x[2] \o seqs[x[1]] \in S
    <3>1. x[1] \in 1 .. n /\ x[2] \in Seq(Nat)
      OBVIOUS
    <3> QED
      BY <1>1, <3>1, ConcatProperties
  <2> QED
    BY <2>1
<1>3. \A i \in 1 .. n, v \in S : step[<<i, v>>] = v \o seqs[i]
  OBVIOUS
<1>4. none \in S
  OBVIOUS
<1> HIDE DEF step
<1>5. PICK g \in [0 .. n -> S] :
        g[0] = none /\ \A i \in 1 .. n : g[i] = step[<<i, g[i - 1]>>]
  <2> HIDE DEF S, none
  <2>1. Iterates(S, none, n, step)
    BY <1>2, <1>4, Recursion
  <2> QED
    BY <2>1 DEF Iterates
<1> DEFINE h0 == [i \in 1 .. n |-> g[i]]
<1>6. h0 \in [1 .. n -> S] /\ \A i \in 1 .. n : h0[i] = g[i] /\ i \in 0 .. n /\ i - 1 \in 0 .. n
  <2>1. \A i \in 1 .. n : i \in 0 .. n /\ i - 1 \in 0 .. n
    OBVIOUS
  <2> HIDE DEF S
  <2> QED
    BY <1>5, <2>1
<1>7. g[1] = seqs[1]
  <2>1. g[1] = none \o seqs[1] /\ seqs[1] \in Seq(Nat)
    <3>1. 1 \in 1 .. n /\ 1 - 1 = 0
      OBVIOUS
    <3> QED
      BY <1>1, <1>3, <1>4, <1>5, <3>1
  <2> QED
    BY <2>1, ConcatEmptySeq
<1> HIDE DEF h0
<1>8. Is(h0)
  <2>1. ASSUME NEW i \in 1 .. n PROVE h0[i] = Body(h0, i)
    <3>1. CASE i = 1
      BY <1>6, <1>7, <3>1
    <3>2. CASE i # 1
      <4>1. i - 1 \in 1 .. n
        BY <3>2
      <4>2. g[i] = g[i - 1] \o seqs[i]
        BY <1>3, <1>5, <1>6
      <4> QED
        BY <1>6, <3>2, <4>1, <4>2
    <3> QED
      BY <3>1, <3>2
  <2> HIDE DEF Body, S
  <2> QED
    BY <1>6, <2>1
<1>9. Is(f)
  <2> HIDE DEF Is
  <2> QED
    BY <1>8
<1>10. FlattenSeq(seqs) = f[n]
  <2>1. Len(seqs) = n
    OBVIOUS
  <2> QED
    BY <2>1 DEF FlattenSeq
<1> HIDE DEF f
<1>11. /\ f[1] = seqs[1] /\ \A i \in 2 .. n : f[i] = f[i - 1] \o seqs[i]
       /\ f = [i \in 1 .. n |-> f[i]]
  <2>1. 1 \in 1 .. n /\ \A i \in 2 .. n : i \in 1 .. n /\ i # 1
    OBVIOUS
  <2> QED
    BY <1>9, <2>1
<1>12. \A i \in 1 .. n : f[i] \in Seq(Nat)
  <2> DEFINE P == {i \in 0 .. n : i # 0 => f[i] \in Seq(Nat)}
  <2>1. 0 \in P
    OBVIOUS
  <2>2. ASSUME NEW i \in 1 .. n, i - 1 \in P PROVE i \in P
    <3>1. CASE i = 1
      BY <1>1, <1>11, <3>1
    <3>2. CASE i # 1
      <4>1. i \in 2 .. n /\ i - 1 # 0 /\ f[i - 1] \in Seq(Nat) /\ seqs[i] \in Seq(Nat)
        BY <1>1, <2>2, <3>2
      <4>2. f[i] = f[i - 1] \o seqs[i]
        BY <1>11, <4>1
      <4>3. f[i - 1] \o seqs[i] \in Seq(Nat)
        BY <4>1, ConcatProperties
      <4>4. f[i] \in Seq(Nat)
        BY <4>2, <4>3, Zenon
      <4> QED
        BY <4>4
    <3> QED
      BY <3>1, <3>2
  <2>3. 0 .. n \subseteq P
    <3> HIDE DEF P
    <3> QED
      BY <2>1, <2>2, UpTo
  <2> QED
    BY <2>3
<1>13. f \in [1 .. n -> Seq(Nat)]
  BY <1>11, <1>12
<1> QED
  BY <1>10, <1>11, <1>13

\* A segment held by the flash is read back as it was staged.
LEMMA HeldIsRead ==
    ASSUME NEW m0, NEW s, SegmentFits(m0, s), Held(s)
    PROVE  /\ ReadBack(s) = Expected(s)
           /\ Expected(s) \in Seq(Nat) /\ Len(Expected(s)) = s.length
           /\ \A k \in 1 .. s.length : Expected(s)[k] = s.data_offset + k
<1> DEFINE n == s.length
           a == s.address
           d == s.data_offset
<1>1. n \in Nat /\ a \in Nat /\ d \in Nat
  BY DEF SegmentFits
<1>2. \A k \in 0 .. n - 1 : flash[a + k] = Staged(d + k)
  BY DEF Held
<1>3. /\ ReadBack(s) = [k \in 1 .. n |-> flash[a + k - 1]]
      /\ Expected(s) = [k \in 1 .. n |-> Staged(d + k - 1)]
  BY DEF ReadBack, Expected
<1> HIDE DEF n, a, d
<1>4. ASSUME NEW k \in 1 .. n
      PROVE  flash[a + k - 1] = Staged(d + k - 1) /\ Staged(d + k - 1) = d + k /\ d + k \in Nat
  <2>1. k - 1 \in 0 .. n - 1 /\ a + (k - 1) = a + k - 1 /\ d + (k - 1) = d + k - 1
    BY <1>1
  <2>2. Staged(d + k - 1) = d + k /\ d + k \in Nat
    BY <1>1 DEF Staged
  <2> QED
    BY <1>2, <2>1, <2>2
<1>5. ReadBack(s) = Expected(s)
  BY <1>3, <1>4
<1>6. \A k \in 1 .. n : Expected(s)[k] = d + k
  BY <1>3, <1>4
<1>7. Expected(s) \in Seq(Nat) /\ Len(Expected(s)) = n
  <2>1. Expected(s) = [k \in 1 .. n |-> d + k]
    BY <1>3, <1>4
  <2> QED
    BY <1>1, <2>1
<1> QED
  BY <1>5, <1>6, <1>7 DEF n, d

\* When the flash holds all segments of an image of the tool, what was read is the image,
\* from its first byte to its last.
LEMMA ConcatenatedIs ==
    ASSUME m \in Manifests, SegmentsValid(m), Consecutive(m),
           \A i \in DOMAIN m.segments : Held(m.segments[i])
    PROVE  Concatenated(Len(m.segments)) = [k \in 1 .. m.total_length |-> Staged(k - 1)]
<1> DEFINE n == Len(m.segments)
           seqs == [i \in 1 .. n |-> ReadBack(m.segments[i])]
           image(size) == [k \in 1 .. size |-> k]
<1>1. n \in Nat \ {0} /\ DOMAIN m.segments = 1 .. n
  BY SegmentIndex
<1> HIDE DEF n
<1>2. ASSUME NEW i \in 1 .. n
      PROVE  /\ seqs[i] \in Seq(Nat) /\ Len(seqs[i]) = m.segments[i].length
             /\ m.segments[i].length \in Nat /\ m.segments[i].data_offset \in Nat
             /\ \A k \in 1 .. m.segments[i].length : seqs[i][k] = m.segments[i].data_offset + k
  <2>1. SegmentFits(m, m.segments[i]) /\ Held(m.segments[i])
    BY <1>1, ValidFits
  <2>2. seqs[i] = ReadBack(m.segments[i])
    OBVIOUS
  <2>3. m.segments[i].length \in Nat /\ m.segments[i].data_offset \in Nat
    BY <2>1 DEF SegmentFits
  <2> QED
    BY <2>1, <2>2, <2>3, HeldIsRead
<1>3. seqs \in [1 .. n -> Seq(Nat)]
  <2>1. \A i \in 1 .. n : ReadBack(m.segments[i]) \in Seq(Nat)
    BY <1>2
  <2> QED
    BY <2>1
<1>4. Concatenated(n) = FlattenSeq(seqs)
  BY DEF Concatenated
<1> HIDE DEF seqs
<1>5. PICK f \in [1 .. n -> Seq(Nat)] :
        /\ f[1] = seqs[1] /\ \A i \in 2 .. n : f[i] = f[i - 1] \o seqs[i]
        /\ FlattenSeq(seqs) = f[n]
  BY <1>1, <1>3, FlattenIs
<1> DEFINE P == {i \in 0 .. n :
                    i # 0 => /\ Len(f[i]) = DataEnd(m, i)
                             /\ \A k \in 1 .. Len(f[i]) : f[i][k] = k}
<1>6. 0 \in P
  BY <1>1
<1>7. ASSUME NEW i \in 1 .. n, i - 1 \in P PROVE i \in P
  <2> DEFINE s == m.segments[i]
             d == s.data_offset
             l == s.length
  <2>0. i \in 0 .. n /\ i # 0 /\ i \in DOMAIN m.segments /\ DataEnd(m, i) = d + l
    BY <1>1 DEF DataEnd
  <2>1. /\ seqs[i] \in Seq(Nat) /\ Len(seqs[i]) = l /\ l \in Nat /\ d \in Nat
        /\ \A k \in 1 .. l : seqs[i][k] = d + k
    BY <1>2
  <2>2. CASE i = 1
    <3>1. d = 0
      BY <2>0, <2>2 DEF Consecutive
    <3>2. f[i] = seqs[i]
      BY <1>5, <2>2
    <3> HIDE DEF d, l
    <3>3. Len(f[i]) = d + l /\ \A k \in 1 .. Len(f[i]) : f[i][k] = k
      BY <2>1, <3>1, <3>2
    <3> QED
      BY <2>0, <3>3
  <2>3. CASE i # 1
    <3>1. i \in 2 .. n /\ i - 1 \in 1 .. n /\ i - 1 # 0
      BY <1>1, <2>3
    <3>2. d = DataEnd(m, i - 1)
      BY <2>0, <2>3 DEF Consecutive
    <3> DEFINE u == f[i - 1]
               v == seqs[i]
    <3>3. u \in Seq(Nat) /\ Len(u) = d /\ (\A k \in 1 .. d : u[k] = k) /\ f[i] = u \o v
      BY <1>5, <1>7, <3>1, <3>2
    <3> HIDE DEF u, d, l
    <3>4. v \in Seq(Nat) /\ Len(v) = l /\ (\A k \in 1 .. l : v[k] = d + k)
      BY <2>1
    <3> HIDE DEF v
    <3>5. /\ Len(u \o v) = d + l
          /\ \A k \in 1 .. d + l : (u \o v)[k] = IF k <= d THEN u[k] ELSE v[k - d]
      BY <3>3, <3>4, ConcatProperties, ZenonT(60)
    <3>6. ASSUME NEW k \in 1 .. d + l PROVE (u \o v)[k] = k
      <4>1. CASE k <= d
        <5>1. k \in 1 .. d
          BY <2>1, <4>1
        <5> QED
          BY <3>3, <3>5, <4>1, <5>1
      <4>2. CASE ~(k <= d)
        <5>1. k - d \in 1 .. l /\ d + (k - d) = k
          BY <2>1, <4>2
        <5> QED
          BY <3>4, <3>5, <4>2, <5>1
      <4> QED
        BY <4>1, <4>2
    <3>7. Len(f[i]) = DataEnd(m, i) /\ \A k \in 1 .. Len(f[i]) : f[i][k] = k
      BY <2>0, <3>3, <3>5, <3>6
    <3> QED
      BY <2>0, <3>7
  <2> QED
    BY <2>2, <2>3
<1>8. Len(f[n]) = m.total_length /\ \A k \in 1 .. Len(f[n]) : f[n][k] = k
  <2>1. 0 .. n \subseteq P
    <3> HIDE DEF P
    <3> QED
      BY <1>1, <1>6, <1>7, UpTo
  <2>2. n \in 0 .. n /\ n # 0
    BY <1>1
  <2>3. m.total_length = DataEnd(m, n)
    BY DEF Consecutive, n
  <2> QED
    BY <2>1, <2>2, <2>3
<1>9. f[n] = [k \in 1 .. m.total_length |-> Staged(k - 1)]
  <2> DEFINE r == f[n]
             size == m.total_length
  <2>1. r \in Seq(Nat) /\ Len(r) = size /\ size \in Nat /\ \A k \in 1 .. Len(r) : r[k] = k
    BY <1>1, <1>5, <1>8, ManifestNumbers
  <2> HIDE DEF r, size
  <2>2. /\ image(size) \in Seq(Nat) /\ Len(image(size)) = size
        /\ \A k \in 1 .. size : image(size)[k] = k
    BY <2>1
  <2> HIDE DEF image
  <2>3. r = image(size)
    BY <2>1, <2>2, SeqEqual
  <2>4. \A k \in 1 .. size : Staged(k - 1) = k
    BY <2>1 DEF Staged
  <2> QED
    BY <2>3, <2>4 DEF r, size, image
<1> QED
  BY <1>4, <1>5, <1>9 DEF n
-----------------------------------------------------------------------------
(***************************************************************************)
(* What is accepted, and what becomes of an image of the tool.             *)
(***************************************************************************)

\* The answer to a manifest is that of the checks.
Decided ==
    /\ job.phase = "REJECTED" => ~ManifestValidate(m)
    /\ job.phase = "STAGED" => ManifestValidate(m)

\* An image of the tool has the CRCs of its data, one segment behind the other.
Tooled ==
    /\ job.phase = "IDLE" => job.crc
    /\ job.made => job.crc /\ job.phase # "REJECTED" /\ Consecutive(m)

\* What has been programmed is in the flash, unless the flash is at fault.
HeldTo(s, end) == \A k \in 0 .. end - 1 : flash[s.address + k] = Staged(s.data_offset + k)
Programmed ==
    ~job.faulty =>
        /\ job.phase = "PROGRAM" =>
            /\ \A i \in DOMAIN m.segments : i < job.segment => Held(m.segments[i])
            /\ HeldTo(Current, job.offset)
        /\ job.phase = "VERIFY" => \A i \in DOMAIN m.segments : Held(m.segments[i])
Verifies == job.made /\ ~job.faulty => job.status \notin {"VERIFY", "CRC"}

HInv == Decided /\ Tooled /\ Programmed /\ Verifies

\* The answer to a manifest, and that the tool's are accepted.
LEMMA ReceiveHost ==
    ASSUME IInv, HInv, job.phase = "IDLE", NEW manifest \in Manifests, NEW made \in BOOLEAN,
           Receive(manifest, made),
           made => ManifestValidate(manifest) /\ Consecutive(manifest)
    PROVE  HInv'
<1>1. job \in Job /\ job.status = "NONE" /\ job.crc
  BY DEF IInv, TypeOK, Place, HInv, Tooled
<1>2. job' = [job EXCEPT !.manifest = manifest, !.made = made,
                         !.phase = IF ManifestValidate(manifest) THEN "STAGED" ELSE "REJECTED"]
  BY DEF Receive
<1> DEFINE next == IF ManifestValidate(manifest) THEN "STAGED" ELSE "REJECTED"
<1>3. /\ next \in {"STAGED", "REJECTED"}
      /\ next = "REJECTED" => ~ManifestValidate(manifest)
      /\ next = "STAGED" => ManifestValidate(manifest)
  OBVIOUS
<1> HIDE DEF next
<1>4. /\ job'.phase = next /\ job'.manifest = manifest /\ job'.made = made
      /\ job'.status = "NONE" /\ job'.crc = job.crc
  BY <1>1, <1>2, Zenon DEF Job, next
<1>5. Decided' /\ Tooled'
  BY <1>1, <1>3, <1>4 DEF Decided, Tooled, m
<1>6. Programmed' /\ Verifies'
  BY <1>3, <1>4 DEF Programmed, Verifies
<1> QED
  BY <1>5, <1>6 DEF HInv

\* Only a client that is not the tool may have sent wrong CRCs.
LEMMA BeginHost == IInv /\ HInv /\ Begin => HInv'
<1> SUFFICES ASSUME IInv, HInv, Begin PROVE HInv'
  OBVIOUS
<1>1. /\ job \in Job /\ job.phase = "STAGED" /\ job.status = "NONE"
      /\ m \in Manifests /\ SegmentsValid(m)
  BY DEF IInv, TypeOK, Place, Accepted, Begin, Job, m
<1>2. TargetValidate(m)
  BY <1>1 DEF SegmentsValid, SegmentValid, TargetValidate, RangeIsMain
<1> DEFINE all == UNION {Touched(m.segments[i]) : i \in DOMAIN m.segments}
<1>3. PICK crc \in {TRUE, job.made} :
        job' = [job EXCEPT !.phase = "ERASE", !.crc = crc, !.sectors = all]
  BY <1>2 DEF Begin
<1> HIDE DEF all
<1>4. /\ job'.phase = "ERASE" /\ job'.manifest = job.manifest /\ job'.made = job.made
      /\ job'.status = job.status /\ job'.crc = crc
  BY <1>1, <1>3, SMT DEF Job
<1>5. job.made => crc
  BY <1>3, Zenon
<1> QED
  BY <1>1, <1>4, <1>5 DEF HInv, Decided, Tooled, Programmed, Verifies, Consecutive, DataEnd, m

\* An operation that ends, though not in the verification.
LEMMA EndHost ==
    ASSUME HInv, job'.phase = "END", job'.status \notin {"VERIFY", "CRC"},
           job'.manifest = job.manifest, job'.made = job.made, job'.crc = job.crc
    PROVE  HInv'
  BY DEF HInv, Decided, Tooled, Programmed, Verifies, Consecutive, DataEnd, m

\* What leaves the phases before the programming alone.
LEMMA StopHost == IInv /\ HInv /\ Stop => HInv'
<1> SUFFICES ASSUME IInv, HInv, Stop PROVE HInv'
  OBVIOUS
<1>1. PICK status \in {"ABORTED", "FAILED"} : job' = Ended(status)
  BY DEF Stop
<1>2. job \in Job
  BY DEF IInv, TypeOK
<1>3. /\ job'.phase = "END" /\ job'.status = status /\ job'.manifest = job.manifest
      /\ job'.made = job.made /\ job'.crc = job.crc
  BY <1>1, <1>2, SMT DEF Ended, Job
<1> QED
  BY <1>3, EndHost

LEMMA EraseHost == IInv /\ HInv /\ EraseSector => HInv'
<1> SUFFICES ASSUME IInv, HInv, EraseSector PROVE HInv'
  OBVIOUS
<1>1. job.phase = "ERASE" /\ job \in Job /\ job.status = "NONE"
  BY EraseStep DEF IInv, Place
<1>2. PICK s \in job.sectors : ErasesOne(s)
  BY EraseStep
<1>3. CASE job' = Ended("FAILED")
  <2>1. /\ job'.phase = "END" /\ job'.status = "FAILED" /\ job'.manifest = job.manifest
        /\ job'.made = job.made /\ job'.crc = job.crc
    BY <1>1, <1>3, SMT DEF Ended, Job
  <2> QED
    BY <2>1, EndHost
<1>4. CASE job' = [job EXCEPT !.sectors = @ \ {s}]
  <2>1. /\ job'.phase = "ERASE" /\ job'.status = "NONE" /\ job'.manifest = job.manifest
        /\ job'.made = job.made /\ job'.crc = job.crc
    BY <1>1, <1>4, SMT DEF Job
  <2> QED
    BY <1>1, <2>1 DEF HInv, Decided, Tooled, Programmed, Verifies, Consecutive, DataEnd, m
<1> QED
  BY <1>2, <1>3, <1>4 DEF ErasesOne

\* Nothing has been programmed yet.
LEMMA EraseDoneHost == IInv /\ HInv /\ EraseDone => HInv'
<1> SUFFICES ASSUME IInv, HInv, EraseDone PROVE HInv'
  OBVIOUS
<1>1. /\ job.phase = "ERASE" /\ job \in Job /\ job.segment = 1 /\ job.offset = 0
      /\ job' = [job EXCEPT !.phase = "PROGRAM"] /\ job.status = "NONE"
      /\ m \in Manifests /\ SegmentsValid(m)
  BY DEF EraseDone, IInv, TypeOK, Place, Accepted, Job, m
<1>2. /\ job'.phase = "PROGRAM" /\ job'.status = "NONE" /\ job'.manifest = job.manifest
      /\ job'.made = job.made /\ job'.crc = job.crc /\ job'.segment = 1 /\ job'.offset = 0
  BY <1>1, SMT DEF Job
<1>3. \A i \in DOMAIN m.segments : ~(i < 1)
  BY <1>1, SegmentIndex, SMT
<1>4. 0 .. 0 - 1 = {}
  BY SMT
<1>5. Programmed'
  BY <1>2, <1>3, <1>4 DEF Programmed, HeldTo, m
<1> QED
  BY <1>1, <1>2, <1>5 DEF HInv, Decided, Tooled, Verifies, Consecutive, DataEnd, m

\* A command leaves alone what was programmed before it.
LEMMA ChunkKeeps ==
    ASSUME IInv, ProgramChunk, NEW i \in DOMAIN m.segments, NEW k \in Nat,
           k < m.segments[i].length, i # job.segment \/ k < job.offset
    PROVE  flash'[m.segments[i].address + k] = flash[m.segments[i].address + k]
<1> DEFINE s == m.segments[i]
           a == s.address + k
<1>1. /\ m \in Manifests /\ SegmentsValid(m) /\ job.segment \in DOMAIN m.segments
      /\ job.segment \in Nat /\ job.offset \in Nat
  BY DEF ProgramChunk, IInv, TypeOK, Accepted, Place, m, Job
<1>2. SegmentFits(m, s) /\ SegmentFits(m, Current)
  BY <1>1, ValidFits DEF Current
<1>3. /\ s.address \in Nat /\ s.length \in Nat /\ s.address % 8 = 0
      /\ s.address + s.length <= FlashSize
      /\ Current.address \in Nat /\ Current.length \in Nat
  BY <1>2 DEF SegmentFits
<1>4. k < s.length
  OBVIOUS
<1>5. i # job.segment => \/ s.address + s.length <= Current.address
                         \/ Current.address + Current.length <= s.address
  BY <1>1, ValidApart DEF Current
<1>6. i = job.segment => s = Current
  BY DEF Current
<1> HIDE DEF s
<1>7. a \in Nat /\ a \in Address
  BY <1>3, <1>4, ManifestAssumption, SMT DEF Address
<1>8. WordOf(a) \in Nat /\ WordOf(a) % 8 = 0 /\ WordOf(a) <= a /\ a < WordOf(a) + 8
  BY <1>7, SMT DEF WordOf
<1>9. s.address <= WordOf(a) /\ WordOf(a) < s.address + s.length
  <2>1. s.address < WordOf(a) + 8
    BY <1>3, <1>8, SMT
  <2> HIDE DEF WordOf
  <2>2. s.address <= WordOf(a)
    BY <1>3, <1>8, <2>1, WordGap
  <2> QED
    BY <1>3, <1>4, <1>8, <2>2, SMT
<1> HIDE DEF WordOf
<1>10. ASSUME flash'[a] # flash[a] PROVE FALSE
  <2>1. Within(WordOf(a), Current) /\ Current.address + job.offset <= a
    BY <1>7, <1>10, ProgramChunkInv DEF ChunkEffect
  <2>2. CASE i # job.segment
    BY <1>3, <1>5, <1>8, <1>9, <2>1, <2>2, SMT DEF Within
  <2>3. CASE i = job.segment
    BY <1>1, <1>3, <1>6, <2>1, <2>3, SMT
  <2> QED
    BY <2>2, <2>3
<1> QED
  BY <1>10 DEF s

\* A command adds what it programs to what is in the flash.
LEMMA ProgramHost == IInv /\ HInv /\ ProgramChunk => HInv'
<1> SUFFICES ASSUME IInv, HInv, ProgramChunk PROVE HInv'
  OBVIOUS
<1>1. ChunkEffect /\ job.phase = "PROGRAM" /\ IInv'
  BY ProgramChunkInv DEF ProgramChunk
<1>2. /\ m \in Manifests /\ SegmentsValid(m) /\ job.segment \in DOMAIN m.segments
      /\ job.segment \in Nat /\ job.offset \in Nat /\ job.offset < Current.length
  BY <1>1 DEF IInv, TypeOK, Accepted, Place, m, Job
<1>3. /\ DOMAIN m.segments = 1 .. Len(m.segments) /\ Len(m.segments) \in Nat
      /\ \A i \in DOMAIN m.segments : SegmentFits(m, m.segments[i])
  BY <1>2, SegmentIndex, ValidFits
<1>4. CASE job'.phase = "END" /\ job'.status \notin {"OK", "VERIFY", "CRC"}
  BY <1>1, <1>4, EndHost DEF ChunkEffect
<1>5. CASE ~(job'.phase = "END" /\ job'.status \notin {"OK", "VERIFY", "CRC"})
  <2>1. PICK end \in Nat :
            /\ ChunkTo(end)
            /\ ~job'.faulty => \A k \in job.offset .. end - 1 :
                    flash'[Current.address + k] = Staged(Current.data_offset + k)
    BY <1>1, <1>5 DEF ChunkEffect
  <2>2. /\ job'.phase \in {"PROGRAM", "VERIFY"} /\ job'.status = "NONE"
        /\ job'.manifest = job.manifest /\ job'.made = job.made /\ job'.crc = job.crc
        /\ ~job'.faulty => ~job.faulty
    BY <1>1, <1>5 DEF ChunkEffect
  <2>3. m' = m
    BY <2>2 DEF m
  <2>4. /\ end <= Current.length /\ Current.length \in Nat
        /\ Current = m.segments[job.segment]
    BY <1>2, <1>3, <2>1 DEF ChunkTo, Current, SegmentFits
  <2>5. ASSUME ~job'.faulty, NEW k \in 0 .. end - 1
        PROVE  flash'[Current.address + k] = Staged(Current.data_offset + k)
    <3>1. CASE k < job.offset
      <4>1. k \in 0 .. job.offset - 1 /\ k \in Nat /\ k < Current.length
        BY <1>2, <2>4, <3>1
      <4>2. flash[Current.address + k] = Staged(Current.data_offset + k)
        BY <1>1, <2>2, <2>5, <4>1 DEF HInv, Programmed, HeldTo
      <4>3. flash'[Current.address + k] = flash[Current.address + k]
        BY <1>2, <2>4, <3>1, <4>1, ChunkKeeps
      <4> QED
        BY <4>2, <4>3
    <3>2. CASE ~(k < job.offset)
      <4>1. k \in job.offset .. end - 1
        BY <1>2, <3>2
      <4> QED
        BY <2>1, <2>5, <4>1
    <3> QED
      BY <3>1, <3>2
  <2> DEFINE Holds(s) ==
        \A k \in 0 .. s.length - 1 : flash'[s.address + k] = Staged(s.data_offset + k)
  <2>6. ASSUME ~job'.faulty, NEW i \in DOMAIN m.segments, i < job.segment
        PROVE  Holds(m.segments[i])
    <3> DEFINE s == m.segments[i]
    <3>1. ASSUME NEW k \in 0 .. s.length - 1
          PROVE  flash'[s.address + k] = Staged(s.data_offset + k)
      <4>1. flash[s.address + k] = Staged(s.data_offset + k)
        BY <1>1, <2>2, <2>6 DEF HInv, Programmed, Held
      <4>2. k \in Nat /\ k < s.length /\ i # job.segment
        <5>1. s.length \in Nat
          BY <1>3 DEF SegmentFits
        <5> HIDE DEF s
        <5> QED
          BY <1>2, <1>3, <2>6, <5>1
      <4>3. flash'[s.address + k] = flash[s.address + k]
        BY <4>2, ChunkKeeps
      <4> QED
        BY <4>1, <4>3
    <3> QED
      BY <3>1
  <2>7. ASSUME ~job'.faulty, end = Current.length PROVE Holds(m.segments[job.segment])
    BY <2>4, <2>5, <2>7
  <2>8. Programmed'
    <3> SUFFICES ASSUME ~job'.faulty PROVE
            /\ job'.phase = "PROGRAM" =>
                /\ \A i \in DOMAIN m.segments : i < job'.segment => Holds(m.segments[i])
                /\ HeldTo(Current, job.offset)'
            /\ job'.phase = "VERIFY" => \A i \in DOMAIN m.segments : Holds(m.segments[i])
      BY <2>3 DEF Programmed, Held
    <3> HIDE DEF Holds
    <3>1. CASE job'.phase = "PROGRAM" /\ job'.segment = job.segment /\ job'.offset = end
      <4>1. HeldTo(Current, job.offset)'
        BY <2>3, <2>5, <3>1 DEF HeldTo, Current
      <4> QED
        BY <2>6, <3>1, <4>1
    <3>2. CASE /\ end = Current.length /\ job'.phase = "PROGRAM"
               /\ job'.segment = job.segment + 1 /\ job'.offset = 0
      <4>1. HeldTo(Current, job.offset)'
        BY <3>2 DEF HeldTo
      <4>2. \A i \in DOMAIN m.segments : i < job'.segment => i < job.segment \/ i = job.segment
        BY <1>2, <1>3, <3>2
      <4> QED
        BY <2>6, <2>7, <3>2, <4>1, <4>2
    <3>3. CASE /\ end = Current.length /\ ~(job.segment < Len(m.segments))
               /\ job'.phase = "VERIFY"
      <4>1. \A i \in DOMAIN m.segments : i < job.segment \/ i = job.segment
        BY <1>2, <1>3, <3>3
      <4> QED
        BY <2>6, <2>7, <3>3, <4>1
    <3> QED
      BY <2>1, <3>1, <3>2, <3>3 DEF ChunkTo
  <2>9. Decided' /\ Tooled' /\ Verifies'
    BY <1>1, <2>2, <2>3 DEF HInv, Decided, Tooled, Verifies, Consecutive, DataEnd
  <2> QED
    BY <2>8, <2>9 DEF HInv
<1> QED
  BY <1>4, <1>5

\* The verification of an image of the tool succeeds when the flash holds it.
LEMMA VerifyHost == IInv /\ HInv /\ VerifySegment => HInv'
<1> SUFFICES ASSUME IInv, HInv, VerifySegment PROVE HInv'
  OBVIOUS
<1> DEFINE whole == Concatenated(job.segment) = [k \in 1 .. m.total_length |-> Staged(k - 1)]
           final == IF whole THEN "OK" ELSE "VERIFY"
           next == Advanced(Current.length, Ended(final))
<1>1. /\ job.phase = "VERIFY" /\ job \in Job /\ UNCHANGED <<flash, burnt, before>>
      /\ job.status = "NONE" /\ job.offset = 0
      /\ m \in Manifests /\ SegmentsValid(m) /\ job.segment \in DOMAIN m.segments
      /\ job.segment \in Nat
  BY DEF VerifySegment, FlashQuiet, IInv, TypeOK, Accepted, Place, m, Job
<1>2. SegmentFits(m, Current)
  BY <1>1, ValidFits DEF Current
<1>3. StorageReads(Current.data_offset, Current.length)
  BY <1>2, SMT DEF StorageReads, Minus, SegmentFits
<1>4. job' = IF ReadBack(Current) # Expected(Current) THEN Ended("VERIFY")
             ELSE IF ~job.crc \/ CrcRead(job.segment) # Expected(Current) THEN Ended("CRC")
             ELSE next
  BY <1>3 DEF VerifySegment
<1>5. ASSUME job.made, ~job.faulty PROVE job' = next
  <2>1. Held(Current) /\ job.crc
    BY <1>1, <1>5 DEF HInv, Programmed, Tooled, Current
  <2>2. ReadBack(Current) = Expected(Current)
    BY <1>2, <2>1, HeldIsRead
  <2>3. CrcRead(job.segment) = ReadBack(Current)
    BY DEF CrcRead, Current
  <2> HIDE DEF next
  <2> QED
    BY <1>4, <2>1, <2>2, <2>3
<1>6. ASSUME job.made, ~job.faulty, ~(job.segment < Len(m.segments)) PROVE final = "OK"
  <2>1. job.segment = Len(m.segments)
    BY <1>1, <1>6, SegmentIndex, SMT
  <2>2. Consecutive(m) /\ \A i \in DOMAIN m.segments : Held(m.segments[i])
    BY <1>1, <1>6 DEF HInv, Programmed, Tooled
  <2>3. whole
    BY <1>1, <2>1, <2>2, ConcatenatedIs
  <2> QED
    BY <2>3
<1>7. ~(job.offset + Current.length < Current.length)
  BY <1>1, <1>2, SMT DEF SegmentFits
<1> HIDE DEF final
<1>8. next = IF job.segment < Len(m.segments) THEN [job EXCEPT !.segment = @ + 1, !.offset = 0]
             ELSE [Ended(final) EXCEPT !.segment = 1, !.offset = 0]
  BY <1>7 DEF Advanced
<1>9. /\ job'.manifest = job.manifest /\ job'.made = job.made /\ job'.crc = job.crc
      /\ job'.faulty = job.faulty
      /\ \/ job'.phase = "VERIFY" /\ job'.status = "NONE"
         \/ job'.phase = "END"
  <2>1. \/ \E status : job' = Ended(status)
        \/ job' = [job EXCEPT !.segment = @ + 1, !.offset = 0]
        \/ job' = [Ended(final) EXCEPT !.segment = 1, !.offset = 0]
    <3> HIDE DEF next
    <3> QED
      BY <1>4, <1>8
  <2> QED
    BY <1>1, <2>1, Zenon DEF Job, Ended
<1>10. Verifies'
  <2> SUFFICES ASSUME job.made, ~job.faulty PROVE job'.status \notin {"VERIFY", "CRC"}
    BY <1>9 DEF Verifies
  <2>1. job' = next
    BY <1>5
  <2>2. CASE job.segment < Len(m.segments)
    <3>1. job' = [job EXCEPT !.segment = @ + 1, !.offset = 0]
      BY <1>8, <2>1, <2>2
    <3> QED
      BY <1>1, <3>1, SMT DEF Job
  <2>3. CASE ~(job.segment < Len(m.segments))
    <3>1. job' = [Ended("OK") EXCEPT !.segment = 1, !.offset = 0]
      BY <1>6, <1>8, <2>1, <2>3
    <3>2. job'.status = "OK"
      BY <1>1, <3>1, SMT DEF Job, Ended
    <3> QED
      BY <3>2
  <2> QED
    BY <2>2, <2>3
<1>11. m' = m
  BY <1>9 DEF m
<1>12. Programmed'
  BY <1>1, <1>9, <1>11 DEF HInv, Programmed, Held
<1>13. Decided' /\ Tooled'
  BY <1>1, <1>9, <1>11 DEF HInv, Decided, Tooled, Consecutive, DataEnd
<1> QED
  BY <1>10, <1>12, <1>13 DEF HInv
-----------------------------------------------------------------------------
(***************************************************************************)
(* Theorems.                                                               *)
(***************************************************************************)
LEMMA NextInv == IInv /\ [Next]_vars => IInv'
<1> SUFFICES ASSUME IInv, [Next]_vars PROVE IInv'
  OBVIOUS
<1>1. ASSUME NEW file \in Files, HostLoads(file) PROVE IInv'
  BY <1>1, ReceiveInv, EncodedIs, ImageAssumption DEF HostLoads
<1>2. ASSUME NEW manifest \in Wire, ClientSends(manifest) PROVE IInv'
  BY <1>2, ReceiveInv, ImageAssumption DEF ClientSends
<1>3. CASE UNCHANGED vars
  BY <1>3 DEF vars, IInv, TypeOK, Accepted, Place, Unburnt, Verified, Held, NotRefused,
     m, Current
<1> QED
  BY <1>1, <1>2, <1>3, BeginInv, StopInv, EraseSectorInv, EraseDoneInv, ProgramChunkInv,
     VerifySegmentInv DEF Next

LEMMA Invariance == Spec => []IInv
  BY InitInv, NextInv, PTL DEF Spec

LEMMA OutsideInvariance == Spec => []OInv
<1>1. Init => OInv
  BY DEF Init, OInv, Untouched, Fresh, ErasedOrWill, BesideErased
<1>2. IInv /\ OInv /\ [Next]_vars => OInv'
  <2> SUFFICES ASSUME IInv, OInv, [Next]_vars PROVE OInv'
    OBVIOUS
  <2>1. ASSUME NEW file \in Files, HostLoads(file) PROVE OInv'
    BY <2>1, ReceiveOutside DEF HostLoads
  <2>2. ASSUME NEW manifest \in Wire, ClientSends(manifest) PROVE OInv'
    BY <2>2, ReceiveOutside DEF ClientSends
  <2>3. CASE UNCHANGED vars
    BY <2>3 DEF vars, OInv, Untouched, Fresh, ErasedOrWill, BesideErased, Erasing, Beside,
       InSector, InSegment, m
  <2> QED
    BY <2>1, <2>2, <2>3, BeginOutside, StopOutside, EraseOutside, EraseDoneOutside,
       ProgramOutside, VerifyOutside DEF Next
<1> QED
  BY <1>1, <1>2, Invariance, PTL DEF Spec

LEMMA HostInvariance == Spec => []HInv
<1>1. Init => HInv
  BY DEF Init, HInv, Decided, Tooled, Programmed, Verifies
<1>2. IInv /\ HInv /\ [Next]_vars => HInv'
  <2> SUFFICES ASSUME IInv, HInv, [Next]_vars PROVE HInv'
    OBVIOUS
  <2>1. ASSUME NEW file \in Files, HostLoads(file) PROVE HInv'
    BY <2>1, ReceiveHost, EncodedIs, ImageAssumption DEF HostLoads
  <2>2. ASSUME NEW manifest \in Wire, ClientSends(manifest) PROVE HInv'
    BY <2>2, ReceiveHost, ImageAssumption DEF ClientSends
  <2>3. CASE UNCHANGED vars
    BY <2>3 DEF vars, HInv, Decided, Tooled, Programmed, Verifies, Held, HeldTo, Consecutive,
       DataEnd, m, Current
  <2> QED
    BY <2>1, <2>2, <2>3, BeginHost, StopHost, EraseHost, EraseDoneHost, ProgramHost, VerifyHost
       DEF Next
<1> QED
  BY <1>1, <1>2, Invariance, PTL DEF Spec

\* The state of an image's way into the flash has its types: bytes never leave their
\* range, and the list of sectors holds sectors of the flash only.
THEOREM TypeCorrect == Spec => []TypeOK
<1>1. IInv => TypeOK
  BY DEF IInv
<1> QED
  BY <1>1, Invariance, PTL

\* Whatever manifest a client sends, once it is accepted no range check of the operation,
\* of the storage or of the loader refuses a part of it when the target is half erased.
THEOREM NothingRefused == Spec => []NeverRefused
<1>1. IInv => NeverRefused
  BY DEF IInv, NotRefused, Refusal, NeverRefused
<1> QED
  BY <1>1, Invariance, PTL

\* No word of the flash is programmed again before its sector is erased, whatever an
\* earlier operation left there and however the segments and their padding lie.
THEOREM WordsOnce == Spec => []ProgrammedOnce
<1>1. IInv => ProgrammedOnce
  BY DEF IInv, NotRefused, Refusal, ProgrammedOnce
<1> QED
  BY <1>1, Invariance, PTL

\* An operation that reports success has every byte of its image in the flash.
THEOREM SuccessIsInFlash == Spec => []SuccessHoldsImage
<1>1. IInv => SuccessHoldsImage
  BY DEF IInv, Verified, Held, SuccessHoldsImage
<1> QED
  BY <1>1, Invariance, PTL

\* Sectors the image does not touch stay as they were, whether the operation succeeds,
\* fails or is aborted; when all is programmed the bytes beside the image are 0xFF.
THEOREM OutsideKept == Spec => []OutsideUntouched
<1>1. OInv => OutsideUntouched
  BY DEF OInv, Untouched, BesideErased, Beside, OutsideUntouched
<1> QED
  BY <1>1, OutsideInvariance, PTL

\* For every manifest: it is accepted exactly if its ranges meet the rules of
\* docs/protocol.md and none is empty, whatever the order of its segments and of their
\* data and whatever its fields wrap to.
THEOREM AcceptedExactly == Spec => []AcceptsExactly
<1>1. IInv /\ HInv => AcceptsExactly
  <2> SUFFICES ASSUME IInv, HInv PROVE AcceptsExactly
    OBVIOUS
  <2>1. m \in Manifests
    BY DEF IInv, TypeOK, Job, m
  <2>2. ManifestValidate(m) <=> Rules(m)
    BY <2>1, ValidatedMeetsRules, RulesAreValidated
  <2> QED
    BY <2>2 DEF HInv, Decided, AcceptsExactly
<1> QED
  BY <1>1, Invariance, HostInvariance, PTL

\* What the tool makes of any file it takes is accepted, and its verification succeeds
\* unless the flash is at fault.
THEOREM HostImageIsVerified == Spec => []HostImageVerifies
<1>1. HInv => HostImageVerifies
  BY DEF HInv, Tooled, Verifies, HostImageVerifies
<1> QED
  BY <1>1, HostInvariance, PTL
=============================================================================
