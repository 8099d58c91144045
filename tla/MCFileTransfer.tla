--------------------------- MODULE MCFileTransfer ---------------------------
(* A small instance of FileTransfer for TLC: uploads of one and a half chunks, *)
(* whole and cut short, and of one chunk; downloads; lists.                    *)
EXTENDS FileTransfer
Up(s, a, ow) == [t |-> "upload", size |-> s, avail |-> a, overwrite |-> ow]
SomeRequests == {Up(3, 3, FALSE), Up(3, 2, TRUE), Up(2, 2, TRUE),
                 [t |-> "download"], [t |-> "list"]}
=============================================================================
