----------------------------- MODULE MCDosTime ------------------------------
(***************************************************************************)
(* A calendar of two years of three months, of one, two and one days, the  *)
(* second with summer time.                                                *)
(***************************************************************************)
EXTENDS DosTime

ThreeMonths == <<0, 1, 3, 4>>

(* A date in summer, one in winter of each year, and one not in the        *)
(* calendar.                                                               *)
SomeDates ==
  { [year |-> 0, month |-> 2, day |-> 2], [year |-> 0, month |-> 3, day |-> 1],
    [year |-> 1, month |-> 1, day |-> 1], [year |-> 1, month |-> 1, day |-> 2] }

=============================================================================
