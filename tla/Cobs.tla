---------------------------------- MODULE Cobs ----------------------------------
(***************************************************************************)
(* The framing of datlink_protocol.c: consistent overhead byte stuffing, a *)
(* zero after each frame, and the checks of datlink_usb_decode.  A byte is *)
(* a number; MaxCode is 0xFF of the code and RawMax DATLINK_USB_RAW_MAX,   *)
(* both smaller.  An empty sequence is a failure, as 0 is in the code.     *)
(***************************************************************************)
EXTENDS Naturals, Sequences

CONSTANTS
    MaxCode,   \* the code of a full block, which no zero follows
    RawMax,    \* longest record of a frame
    Record     \* the records of frames: version, length and CRC are right

ASSUME CobsAssumption ==
    /\ MaxCode \in Nat /\ MaxCode > 1
    /\ RawMax \in Nat \ {0}
    /\ Record \subseteq Seq(Nat) /\ \A r \in Record : Len(r) \in 1 .. RawMax

\* DATLINK_USB_ENCODED_MAX: also the size of decoder_task's buffer.
EncodedMax == RawMax + RawMax \div (MaxCode - 1) + 2

\* A block of bytes other than zero is closed by a zero, which is dropped, or when full.
Stuffed(acc, byte) ==
    LET block == IF byte = 0 THEN acc.block ELSE Append(acc.block, byte)
    IN IF byte = 0 \/ Len(block) + 1 = MaxCode
       THEN [done |-> acc.done \o <<Len(block) + 1>> \o block, block |-> <<>>]
       ELSE [acc EXCEPT !.block = block]

\* datlink_cobs_encode: what there is after each byte, and at the end.
Stuffing(raw) ==
    LET at[i \in 0 .. Len(raw)] ==
            IF i = 0 THEN [done |-> <<>>, block |-> <<>>] ELSE Stuffed(at[i - 1], raw[i])
    IN at
CobsEncode(raw, capacity) ==
    LET all == Stuffing(raw)[Len(raw)]
        output == all.done \o <<Len(all.block) + 1>> \o all.block
    IN IF Len(output) > capacity THEN <<>> ELSE output

\* datlink_cobs_decode: what the blocks from each byte on decode to.
Unstuffing(input) ==
    LET n == Len(input)
        at[i \in 1 .. n + 1] ==
            LET next == i + input[i]
                block == SubSeq(input, i + 1, next - 1)
                zero == IF input[i] # MaxCode /\ next <= n THEN <<0>> ELSE <<>>
            IN IF i = n + 1 THEN [ok |-> TRUE, output |-> <<>>]
               ELSE IF input[i] = 0 \/ next > n + 1 THEN [ok |-> FALSE, output |-> <<>>]
               ELSE [at[next] EXCEPT !.output = block \o zero \o @]
    IN at
CobsDecode(input, capacity) ==
    LET all == Unstuffing(input)[1]
    IN IF all.ok /\ Len(all.output) <= capacity THEN all.output ELSE <<>>

\* datlink_usb_encode and datlink_usb_decode, of the record of a frame.
UsbEncode(record) ==
    LET encoded == CobsEncode(record, EncodedMax - 1)
    IN IF encoded = <<>> THEN <<>> ELSE Append(encoded, 0)

\* Mutant of UsbDecode: the length is right, and the CRC is not looked at.
UsbDecodeNoCrc(encoded) ==
    LET raw == CobsDecode(encoded, RawMax)
    IN IF Len(raw) \in {Len(r) : r \in Record} THEN raw ELSE <<>>

UsbDecode(encoded) ==
    LET raw == CobsDecode(encoded, RawMax) IN IF raw \in Record THEN raw ELSE <<>>
=============================================================================
