------------------------------ MODULE FatFile ------------------------------
(***************************************************************************)
(* One file of the SD/USB volume as the storage code of WiiBrowser Lite    *)
(* sees it: the live name, the pending generation "<path>.new" and the     *)
(* backup "<path>.bak".  A file's bytes are abstracted to the number of    *)
(* the generation they belong to and to how much of it was written.        *)
(*                                                                         *)
(* The volume itself (libfat) is not part of the repository: its           *)
(* operations are modelled from how src/utils/file_io.cpp uses them.  Each *)
(* is atomic, may fail with an I/O error, and rename refuses an existing   *)
(* destination (file_io.cpp: "libfat cannot rename over an existing        *)
(* destination").                                                          *)
(***************************************************************************)
EXTENDS Naturals

Names == {"live", "new", "bak"}

\* none: no entry.  folder: an entry that is not a regular file.
\* stub: created, the format header not written yet.  torn: header written,
\* end missing.  whole: every byte written and the file closed.
Kinds == {"none", "folder", "stub", "torn", "whole"}
Entries == [kind : Kinds, gen : Nat]

None     == [kind |-> "none",   gen |-> 0]
Folder   == [kind |-> "folder", gen |-> 0]
Stub(g)  == [kind |-> "stub",   gen |-> g]
Torn(g)  == [kind |-> "torn",   gen |-> g]
Whole(g) == [kind |-> "whole",  gen |-> g]

Exists(e)    == e.kind # "none"
IsRegular(e) == e.kind \in {"stub", "torn", "whole"}
IsWhole(e)   == e.kind = "whole"

\* A volume after rename(from, to), for a destination that does not exist.
Rename(d, from, to) == [d EXCEPT ![to] = d[from], ![from] = None]
=============================================================================
