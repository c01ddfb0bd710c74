----------------------------- MODULE MCDosShare -----------------------------
(***************************************************************************)
(* Two programs with at most two descriptors each, sharing one file.       *)
(***************************************************************************)
EXTENDS DosShare, TLC

(* One mode per lock type and outcome: a write lock that can and one that  *)
(* cannot be set, a read lock, and no lock.                                *)
SomeModes ==
  { <<"RDWR", "DENYRW">>, <<"RDONLY", "DENYWR">>, <<"RDONLY", "COMPAT">>, <<"RDWR", "DENYNO">> }

Programs == Permutations(Procs)

(* MCDosShareCreatnew.cfg: the files have data.                            *)
HaveData == \A f \in Files : file[f].content = "data"
SpecWithData == Init /\ HaveData /\ [][Next]_vars

=============================================================================
