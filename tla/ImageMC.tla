-------------------------------- MODULE ImageMC --------------------------------
(***************************************************************************)
(* Two sectors of two words.  Files of up to three chunks at the places    *)
(* where an end can matter; manifests of one segment with every field at   *)
(* its edges, and of two with those a client could mix up.                 *)
(***************************************************************************)
EXTENDS Image

MCPast == {{0, 8, 16, 24}, {8, 16}}

Chunk == [address : {0, 4, 8, 24}, length : {0, 4, 8, 16}]
MCFiles == UNION {[1 .. n -> Chunk] : n \in 1 .. 3}

Record(address, length, offset) ==
    [address : address, length : length, data_offset : offset]
MCWire ==
    [total_length : {0, 1, 8, 16, 32, 33},
     segments : {<<>>} \cup
        [{1} -> Record({0, 4, 8, 24, 32, 120}, {0, 1, 8, 9, 32, 120}, {0, 1, 8, 127})]]
    \cup
    [total_length : {13, 16, 24},
     segments : [1 .. 2 -> Record({0, 4, 8, 24}, {5, 8, 16}, {0, 5, 8, 16})]]
    \cup
    [total_length : {24}, segments : [1 .. 3 -> Record({0, 8, 24}, {8}, {0, 8, 16})]]
=============================================================================
