----------------------------- MODULE MCDosFind -----------------------------
(***************************************************************************)
(* Directory search on small instances (see the README for the runs):      *)
(*   MCDosFindTwo.cfg   the static DTA and one of the program's, two paths *)
(*                      that come and go;                                  *)
(*   MCDosFindKinds.cfg one DTA, two paths of every kind.                  *)
(***************************************************************************)
EXTENDS DosFind

NormalSearches == { {} }
DirSearches == { {}, {"SUBDIR"} }

(* "rdonly" stands for the readable files with an answer from access that  *)
(* is not success, "odd" for those access finds writable.                  *)
PresentOrAbsent == { "none", "rdonly" }
EveryAnswer == { "none", "rdonly", "dir", "odd" }

(* One errno errfunc has a record for, and one it leaves to _dosexterr.    *)
SomeErrnos == { "EIO", "ENOMEM" }
UnmatchedOnly == { "ENOMEM" }

=============================================================================
