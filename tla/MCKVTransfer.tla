---------------------------- MODULE MCKVTransfer ----------------------------
(* Two requests, one sent in two chunks, over pools that hold them one after the other; or *)
(* two of one chunk over pools that hold both.                                            *)
EXTENDS KVTransfer

MCRooms == {"a", "b"}
MCChunks == [r \in MCRooms |-> IF r = "a" THEN 2 ELSE 1]
MCOneChunk == [r \in MCRooms |-> 1]
=============================================================================
