--------------------------- MODULE MCFileTransfer ---------------------------
(* FileTransfer on small instances. *)
EXTENDS FileTransfer

Transfer(op, expects, maximum, size) ==
  [op |-> op, expects |-> expects, maximum |-> maximum, size |-> size]

\* First a checked transfer, upload or download; then a download that reaches or
\* exceeds its limit; then an upload that may grow beyond its limit, and that
\* finds the table full or a place again.
ThreeRequests ==
  <<{Transfer("upload", TRUE, 0, 2), Transfer("download", TRUE, 0, 2)},
    {Transfer("download", FALSE, 1, 2)},
    {Transfer("upload", FALSE, 1, 1)}>>
=============================================================================
