---------------------------- MODULE MCIndexHandle ----------------------------
(* Words of five bits: a product of a header field wraps at 32.  The fields *)
(* of a file are at, next to and beyond the boundaries of its sections:     *)
(* any header before one of a few records, and any record after one header. *)
EXTENDS IndexHandle

MCHeaders ==
    [known : {TRUE}, item_count : {0, 1, 2, 8, 9}, dimensions : {0, 1, 2, 16},
     records_offset : {2, 3, 30}, vectors_offset : {4, 8, 11, 12, 20},
     strings_offset : {12, 16, 20, 22}, file_size : {20}]

Sound == [known |-> TRUE, item_count |-> 2, dimensions |-> 1, records_offset |-> 3,
          vectors_offset |-> 12, strings_offset |-> 16, file_size |-> 20]

MCRecords ==
    [source_offset : {15, 16, 19, 21}, source_size : {0, 2, 3, 31},
     text_offset : {16, 18, 20, 21}, text_size : {0, 2, 29}, byte_begin : {0},
     byte_end : {0}, vector_index : {1, 2}, scale_bytes : {1}]

Short == [source_offset |-> 16, source_size |-> 3, text_offset |-> 19,
          text_size |-> 1, byte_begin |-> 0, byte_end |-> 1, vector_index |-> 0,
          scale_bytes |-> 3]

Whole(h, r) == [size |-> 20, header |-> h, records |-> [i \in Words |-> r], intact |-> TRUE]

MCFiles ==
    {Whole(h, Short) : h \in MCHeaders} \cup {Whole(Sound, r) : r \in MCRecords}
        \cup {[Whole(Sound, Short) EXCEPT !.intact = FALSE],
              [Whole(Sound, Short) EXCEPT !.header.known = FALSE],
              Whole(Sound, [Short EXCEPT !.byte_begin = 2]),
              Whole(Sound, [Short EXCEPT !.scale_bytes = 0]),
              [Whole(Sound, Short) EXCEPT !.size = 0],
              [Whole(Sound, Short) EXCEPT !.size = 2]}

\* Texts of 4 bytes have a size that a half word of two bits does not hold.
MCItems == [source : 0..1, text : {0, 1, 4}, byte_begin : 0..1, byte_end : 0..1,
            scale_bytes : {0, 3}]

MCPairs == {[source |-> s, text |-> t, byte_begin |-> b, byte_end |-> 0, scale_bytes |-> 0]
                : s \in 0..1, t \in {0, 2, 4}, b \in 0..1}

MCJobs ==
    {j \in [items : [1..1 -> MCItems] \cup [1..2 -> MCPairs], dimensions : 1..2] :
        Fits(j.items, j.dimensions)}
=============================================================================
