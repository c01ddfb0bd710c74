------------------------------ MODULE MCDosInt ------------------------------
(***************************************************************************)
(* Interrupts on a small instance (MCDosInt.cfg): at most two interrupts   *)
(* in progress, one request for each way a service answers, and one for    *)
(* none.  ENOMEDIUM is an errno the table does not have.                   *)
(***************************************************************************)
EXTENDS DosInt

(* findnext (flag, own error or errno, or an errno left by a success),     *)
(* getch (no flag, tells no failure, may leave an errno), setdate (no      *)
(* flag, own error that leaves an errno), the vectors, the error services, *)
(* and none.                                                               *)
SomeRequests ==
  { <<"4F", "">>, <<"08", "">>, <<"2B", "">>, <<"25", "">>, <<"35", "">>, <<"59", "0000">>,
    <<"12", "22">>, <<"31", "">> }

SomeErrnos == { "ENOTTY", "ENOMEDIUM" }

(* A whole record, and one that keeps the code.                            *)
SomeRecords ==
  { Err("SHARING_VIOLATION", "LOCKED", "DELAYED_RETRY", "BLOCK_DEV"),
    Err("DONT_CHANGE", "UNKNOWN", "RETRY", "UNKNOWN") }

=============================================================================
