---------------------------- MODULE MCRecordVerb ----------------------------
(* RecordVerb with three streams, a queue of three places and a wait of two *)
(* polls.                                                                    *)
EXTENDS RecordVerb

ThreeStreams == {"s1", "s2", "s3"}
=============================================================================
