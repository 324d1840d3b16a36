--------------------------- MODULE MCFileSystemStore ---------------------------
(* Small instances of FileSystemStore for TLC. *)
EXTENDS FileSystemStore, TLC

CONSTANTS t1, t2, c1, c2
===============================================================================
