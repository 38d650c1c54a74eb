--------------------------------- MODULE Manifest ---------------------------------
(***************************************************************************)
(* The description of an image: what the tool makes of a file              *)
(* (tools/datlink_cli: image.py, encode_manifest), and what the firmware   *)
(* accepts (datlink_manifest_validate, mspm0g3507_validate_manifest), in   *)
(* arithmetic of fixed width.  Version, target and operation id are those  *)
(* the firmware knows; a count of segments that does not fit the length of *)
(* the message is rejected by datlink_manifest_decode before all this.     *)
(***************************************************************************)
EXTENDS Naturals, Sequences, FiniteSets, SequencesExt

CONSTANTS
    FlashSize,     \* MSPM0G3507_FLASH_SIZE
    MaxSegments,   \* DATLINK_IMAGE_MAX_SEGMENTS
    Width          \* 2^32

ASSUME ManifestAssumption ==
    /\ FlashSize \in Nat \ {0} /\ FlashSize % 8 = 0
    /\ MaxSegments \in Nat \ {0}
    /\ Width \in Nat /\ Width > 2 * FlashSize /\ Width > MaxSegments * FlashSize

Field == 0 .. Width - 1
Segment == [address : Field, length : Field, data_offset : Field]
Manifests == [total_length : Field, segments : Seq(Segment)]

\* uint32_t arithmetic
Plus(a, b) == IF a + b < Width THEN a + b ELSE a + b - Width
Minus(a, b) == IF a >= b THEN a - b ELSE a + Width - b

\* mspm0g3507_range_is_main, and range_is_main of the loader
RangeIsMain(address, length) ==
    length # 0 /\ address < FlashSize /\ length <= Minus(FlashSize, address)

Aligned(address) == address % 8 = 0

\* The checks of datlink_manifest_validate, of one segment and of two.
SegmentValid(m, s) ==
    /\ s.length # 0 /\ Aligned(s.address)
    /\ s.address < FlashSize /\ s.length <= Minus(FlashSize, s.address)
    /\ s.data_offset <= m.total_length
    /\ s.length <= Minus(m.total_length, s.data_offset)
Overlap(a, n, b, k) == a < Plus(b, k) /\ b < Plus(a, n)

\* Mutant of Apart: the ranges of the data may overlap.
ApartInFlash(s, o) == ~Overlap(s.address, s.length, o.address, o.length)

Apart(s, o) ==
    /\ ~Overlap(s.address, s.length, o.address, o.length)
    /\ ~Overlap(s.data_offset, s.length, o.data_offset, o.length)
SegmentsValid(m) ==
    /\ Len(m.segments) \in 1 .. MaxSegments
    /\ m.total_length # 0 /\ m.total_length <= FlashSize
    /\ \A i \in DOMAIN m.segments :
        /\ SegmentValid(m, m.segments[i])
        /\ \A j \in 1 .. i - 1 : Apart(m.segments[i], m.segments[j])
LengthSums(segments) ==
    LET sum[i \in 0 .. Len(segments)] ==
            IF i = 0 THEN 0 ELSE Plus(sum[i - 1], segments[i].length)
    IN sum
LengthSum(m) == LengthSums(m.segments)[Len(m.segments)]
ManifestValidate(m) == SegmentsValid(m) /\ LengthSum(m) = m.total_length

\* mspm0g3507_validate_manifest
TargetValidate(m) ==
    /\ Len(m.segments) \in 1 .. MaxSegments
    /\ \A i \in DOMAIN m.segments : RangeIsMain(m.segments[i].address, m.segments[i].length)
-----------------------------------------------------------------------------
(***************************************************************************)
(* The tool.  A file is a sequence of chunks, each an address and the      *)
(* length of its data; the data is concatenated as it is recorded.         *)
(***************************************************************************)

Chunks == Seq([address : Nat, length : Nat])

\* sorted(chunks): each chunk behind those whose address is not higher.  (Of two at the
\* same address the order is by their data, but then one is empty or they overlap.)
Inserted(sorted, c) ==
    InsertAt(sorted, 1 + Cardinality({i \in DOMAIN sorted : sorted[i].address <= c.address}), c)
Sorting(chunks) ==
    LET at[i \in 0 .. Len(chunks)] == IF i = 0 THEN <<>> ELSE Inserted(at[i - 1], chunks[i])
    IN at

\* _merge: chunks in the order of their addresses, adjacent ones joined; an overlap is
\* an error.
Joined(acc, c) ==
    LET last == Last(acc.out)
        end == last.address + last.length
        longer == [last EXCEPT !.length = @ + c.length]
    IN
    CASE ~acc.ok \/ c.length = 0 -> acc
      [] acc.ok /\ c.length # 0 /\ (acc.out = <<>> \/ c.address > end) ->
            [acc EXCEPT !.out = Append(@, c)]
      [] acc.ok /\ c.length # 0 /\ acc.out # <<>> /\ c.address = end ->
            [acc EXCEPT !.out = Append(Front(@), longer)]
      [] OTHER -> [acc EXCEPT !.ok = FALSE]
Merging(sorted) ==
    LET at[i \in 0 .. Len(sorted)] ==
            IF i = 0 THEN [ok |-> TRUE, out |-> <<>>] ELSE Joined(at[i - 1], sorted[i])
    IN at
Merge(chunks) == Merging(Sorting(chunks)[Len(chunks)])[Len(chunks)]

\* load_image, which encode_manifest repeats: the files the tool takes.
Loads(chunks) ==
    LET merged == Merge(chunks) IN
    /\ merged.ok /\ Len(merged.out) \in 1 .. MaxSegments
    /\ \A i \in DOMAIN merged.out :
        LET c == merged.out[i] IN Aligned(c.address) /\ c.address + c.length <= FlashSize

\* encode_manifest: the data of a segment is where the image ends so far.
Recorded(acc, c) ==
    [total |-> acc.total + c.length,
     segments |-> Append(acc.segments, [address |-> c.address, length |-> c.length,
                                        data_offset |-> acc.total])]
Recording(out) ==
    LET at[i \in 0 .. Len(out)] ==
            IF i = 0 THEN [total |-> 0, segments |-> <<>>] ELSE Recorded(at[i - 1], out[i])
    IN at
EncodeManifest(chunks) ==
    LET out == Merge(chunks).out
        all == Recording(out)[Len(out)]
    IN [total_length |-> all.total, segments |-> all.segments]
-----------------------------------------------------------------------------
(***************************************************************************)
(* The rules of docs/protocol.md ("Image manifest") about ranges, over     *)
(* sets of bytes, and that no segment is empty, which datlink_protocol.c   *)
(* adds.  The CRCs and the hash are compared when the data are there.      *)
(***************************************************************************)
Span(first, length) == first .. first + length - 1
AddressRules(m) ==
    /\ Len(m.segments) \in 1 .. MaxSegments
    /\ \A i \in DOMAIN m.segments : LET s == m.segments[i] IN
        /\ s.length # 0 /\ s.address % 8 = 0
        /\ Span(s.address, s.length) \subseteq 0 .. FlashSize - 1
        /\ \A j \in DOMAIN m.segments : i # j =>
            LET o == m.segments[j]
            IN Span(s.address, s.length) \cap Span(o.address, o.length) = {}
DataRules(m) ==
    LET data(i) == Span(m.segments[i].data_offset, m.segments[i].length) IN
    /\ \A i, j \in DOMAIN m.segments : i # j => data(i) \cap data(j) = {}
    /\ UNION {data(i) : i \in DOMAIN m.segments} = 0 .. m.total_length - 1
Rules(m) == AddressRules(m) /\ DataRules(m) /\ m.total_length <= FlashSize
=============================================================================
