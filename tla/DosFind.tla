------------------------------ MODULE DosFind ------------------------------
(***************************************************************************)
(* Directory search of libc/dos.c: the disk transfer areas, the C calls    *)
(* _dos_findfirst and _dos_findnext and the INT 21h services 1Ah, 4Eh and  *)
(* 4Fh, step by step between the system calls they make, while other       *)
(* processes change the file system.                                       *)
(*                                                                         *)
(* A DTA is a struct _find_t: `pathv', `pathc' are its glob_t (NoVector is *)
(* the null pointer), `pathi' the index of the next match, `want' the      *)
(* search attributes (_attrib).  Of what calls report in the public fields *)
(* the entry's name is kept, in `ret'.  The program calls _dos_findnext    *)
(* only on a DTA it gave to _dos_findfirst before (the static DTA is       *)
(* zeroed and needs no such call), as the tests do.                        *)
(*                                                                         *)
(* A definition directly followed by the one it varies (RestoredDta-       *)
(* Forgotten, MoreOffByOne...) is a plausible mistake in that one; Next    *)
(* does not use it.  The README says which property rules out each.        *)
(***************************************************************************)
EXTENDS Naturals, Sequences, FiniteSets, DosExterr

CONSTANTS
  Dtas,         \* the disk transfer areas (struct _find_t buffers)
  StaticDta,    \* the one dos.c declares, current when the program starts
  Files,        \* the path names of the file system
  Kinds,        \* what a path may name: see FileKinds
  SearchAttrs,  \* the attribute sets searches are made with
  GlobErrnos,   \* the errnos glob may pass to errfunc
  MaxAbandoned  \* bound on searches restarted before they were exhausted

(* A path names nothing, a writable or read-only regular file, a directory *)
(* or a file whose modification time localtime cannot represent.           *)
FileKinds == { "none", "reg", "rdonly", "dir", "odd" }

AttrBits == { "ARCH", "HIDDEN", "RDONLY", "SUBDIR", "SYSTEM" }

ASSUME DtaAssumption == StaticDta \in Dtas /\ IsFiniteSet(Dtas)
ASSUME AttrAssumption == SearchAttrs \subseteq SUBSET AttrBits
ASSUME FileAssumption == IsFiniteSet(Files) /\ Kinds \subseteq FileKinds /\ "none" \in Kinds
ASSUME BoundAssumption == MaxAbandoned \in Nat

(* The error records directory search leaves behind.                       *)
SearchCodes ==
  { "NO_ERROR", "ACCESS_DENIED", "PATH_NOT_FOUND", "READ_FAULT", "FILE_NOT_FOUND",
    "INSUF_MEM", "NO_MORE_FILES", "BAD_ARGUMENTS" } \cup
  { ErrTable[e].exterror : e \in GlobErrnos \cup {"EACCES", "ENOENT"} }
ErrRecords ==
  [exterror : SearchCodes, errclass : ErrClasses, action : ErrActions, locus : ErrLocuses]

(* The errnos that reach _dosexterr have a row in its table with values of *)
(* the DOS tables (any other stops the program, and ESHUTDOWN's row, whose *)
(* action is an error class, is for sockets).                              *)
ASSUME ErrnoAssumption ==
  \A e \in GlobErrnos \cup {"EACCES", "ENOENT"} :
    e \in DOMAIN ErrTable /\ ErrTable[e] \in ErrRecords

VARIABLES
  fs,           \* what each path names now
  dta,          \* the disk transfer areas
  current_dta,  \* the DTA the INT 21h services use
  call,         \* the call in progress: where it is and its local variables
  err,          \* errno and errorinfo (see DosExterr)
  vectors,      \* path vectors allocated by glob and not freed
  \* Observations of the program, which the library does not read:
  touched,      \* paths changed during the call in progress
  outcome,      \* per DTA, what the last call on it reported; "busy" during it
  ret,          \* the call that returned last: code and entry found
  userDta,      \* the DTA the program set last
  abandoned     \* searches restarted before they reported no more files

lib == <<dta, current_dta, call, err, vectors>>
seen == <<outcome, ret, userDta, abandoned>>
vars == <<fs, lib, touched, seen>>

NoVector == <<>>     \* glob never returns an empty vector: stands for NULL
NoFile == "no file"
Apis == { "C", "INT" }
Points == { "idle", "next", "access", "stat", "aborted" }
Outcomes == { "none", "busy", "found", "done", "failed", "error" }

Busy == call.pc \in { "next", "access", "stat" }
Idle == call.pc = "idle"
IdleCall == [pc |-> "idle", api |-> "INT", prev |-> StaticDta, attrib |-> {}]

NoReturn == [api |-> "INT", code |-> "NO_ERROR", entry |-> NoFile]

cdta == dta[current_dta]
CurrentFile == cdta.pathv[cdta.pathi + 1]

-----------------------------------------------------------------------------
(* Initially the static DTA is zero and the program's own may hold any     *)
(* index: they are automatic variables in the tests.                       *)
Init ==
  /\ fs \in [Files -> Kinds]
  /\ dta \in [Dtas -> [pathv : {NoVector}, pathc : {0}, pathi : {0, 1},
                       want : {{}}]]
  /\ dta[StaticDta].pathi = 0
  /\ current_dta = StaticDta
  /\ call = IdleCall
  /\ err = ErrInit
  /\ vectors = 0
  /\ touched = {}
  /\ outcome = [d \in Dtas |-> "none"]
  /\ ret = NoReturn
  /\ userDta = StaticDta
  /\ abandoned = 0

(* Another process creates, removes or replaces a path.                    *)
Change(f, kind) ==
  /\ fs[f] # kind
  /\ fs' = [fs EXCEPT ![f] = kind]
  /\ touched' = IF Idle THEN touched ELSE touched \cup {f}
  /\ UNCHANGED <<lib, seen>>

-----------------------------------------------------------------------------
(* Entering and leaving a call.  The C calls make the program's buffer the *)
(* current DTA for their duration and, on failure, leave ENOENT in errno;  *)
(* the INT 21h services work on the DTA that is current.                   *)

RestoredDtaForgotten(api, prev, d) == d
RestoredDta(api, prev, d) == IF api = "C" THEN prev ELSE d

WrapperErrnoForAll(api, code, e) ==
  IF code # "NO_ERROR" THEN LibcFails(e, "ENOENT") ELSE e

WrapperErrno(api, code, e) ==
  IF api = "C" /\ code # "NO_ERROR" THEN LibcFails(e, "ENOENT") ELSE e

(* The call on DTA d, made through api with prev current before, returns   *)
(* code with the error state e, having found entry if it succeeds.         *)
Return(api, prev, d, code, e, result, entry) ==
  /\ call' = IdleCall
  /\ current_dta' = RestoredDta(api, prev, d)
  /\ err' = WrapperErrno(api, code, e)
  /\ ret' = [api |-> api, code |-> code, entry |-> entry]
  /\ touched' = {}
  /\ outcome' = [outcome EXCEPT ![d] = result]

Callable(api, d) == Idle /\ (api = "INT" => d = current_dta)

Enter(api, d) ==
  /\ call' = [pc |-> "next", api |-> api, prev |-> current_dta, attrib |-> {}]
  /\ current_dta' = d
  /\ outcome' = [outcome EXCEPT ![d] = "busy"]
  /\ ret' = NoReturn

-----------------------------------------------------------------------------
(* INT 21h AH=1Ah.                                                         *)
SetDtaAddr(d) ==
  /\ Idle
  /\ current_dta' = d
  /\ userDta' = d
  /\ UNCHANGED <<fs, dta, call, err, vectors, touched, outcome, ret, abandoned>>

(* glob resets the vector and the count of its argument whether or not it  *)
(* succeeds, so a vector still there is lost.                              *)
GlobReset(f) == [f EXCEPT !.pathv = NoVector, !.pathc = 0]

GlobbedKeepingIndex(f, matches, attrs) ==
  [GlobReset(f) EXCEPT !.pathv = matches, !.pathc = Len(matches), !.want = attrs]

Globbed(f, matches, attrs) ==
  [GlobReset(f) EXCEPT !.pathv = matches, !.pathc = Len(matches),
                       !.pathi = 0, !.want = attrs]

(* The program starts over a search that was still open.                   *)
Abandons(d) == outcome[d] \in {"found", "error"}
CountAbandoned(d) ==
  /\ Abandons(d) => abandoned < MaxAbandoned
  /\ abandoned' = IF Abandons(d) THEN abandoned + 1 ELSE abandoned

(* The orders in which glob may return a set of paths (GLOB_NOSORT).       *)
Orderings(S) == { s \in [1..Cardinality(S) -> S] : { s[i] : i \in DOMAIN s } = S }

(* The entries a pattern can match: any non-empty set of existing paths.   *)
Matches == { S \in SUBSET Files : S # {} /\ \A f \in S : fs[f] # "none" }

FindFirst(api, d, matches, attrs) ==
  /\ Callable(api, d)
  /\ CountAbandoned(d)
  /\ dta' = [dta EXCEPT ![d] = Globbed(@, matches, attrs)]
  /\ vectors' = vectors + 1
  /\ Enter(api, d)
  /\ UNCHANGED <<fs, err, touched, userDta>>

(* errfunc: three errnos have a record of their own, the others are left   *)
(* in errno for _dosexterr.                                                *)
ErrFunc(e, errno) ==
  CASE errno = "EACCES" ->
         ExterrSet(e, Err("ACCESS_DENIED", "ACCESS_DENIED", "ABORT_AFTER_CLEANUP", "BLOCK_DEV"), "0")
    [] errno = "ENOENT" ->
         ExterrSet(e, Err("PATH_NOT_FOUND", "NOT_FOUND", "PROMPT_USR_REENTER_INPUT", "BLOCK_DEV"), "0")
    [] errno = "EIO" ->
         ExterrSet(e, Err("READ_FAULT", "MEDIA_ERROR", "RETRY_AFTER_USR_INTERV", "BLOCK_DEV"), "0")
    [] OTHER -> LibcFails(e, errno)

(* The error states the failures of glob lead to.                          *)
GlobErrors ==
  { DosExterr(ErrFunc(err, errno)) : errno \in GlobErrnos } \cup
  { ExterrSet(err, Err("FILE_NOT_FOUND", "NOT_FOUND", "PROMPT_USR_REENTER_INPUT", "BLOCK_DEV"), "0"),
    ExterrSet(err, Err("INSUF_MEM", "OUT_OF_RESOURCE", "IMMEDIATE_ABORT", "MEM_RELATED"), "0") }

(* findfirst gives up: the index and attributes of the DTA stay as they    *)
(* were.                                                                   *)
FindFirstFails(api, d, e) ==
  /\ Callable(api, d)
  /\ CountAbandoned(d)
  /\ dta' = [dta EXCEPT ![d] = GlobReset(@)]
  /\ Return(api, current_dta, d, e.info.exterror, e, "failed", NoFile)
  /\ UNCHANGED <<fs, vectors, userDta>>

FindNext(api, d) ==
  /\ Callable(api, d)
  /\ d = StaticDta \/ outcome[d] # "none"
  /\ Enter(api, d)
  /\ UNCHANGED <<fs, dta, err, vectors, touched, userDta, abandoned>>

-----------------------------------------------------------------------------
(* The loop of findnext, one system call a step.                           *)

AttrOf(kind) ==
  CASE kind = "dir" -> {"SUBDIR"}
    [] kind = "rdonly" -> {"ARCH", "RDONLY"}
    [] OTHER -> {"ARCH"}

MoreOffByOne(f) == f.pathi <= f.pathc
More(f) == f.pathi < f.pathc
Advance(f) == [f EXCEPT !.pathi = @ + 1]
DtaNotAdvanced == dta
DtaAdvanced == [dta EXCEPT ![current_dta] = Advance(@)]

(* `continue', with the error state e.                                     *)
Continue(e) ==
  /\ dta' = DtaAdvanced
  /\ call' = [call EXCEPT !.pc = "next", !.attrib = {}]
  /\ err' = e
  /\ UNCHANGED <<fs, current_dta, vectors, touched, seen>>

GoOn(pc, attrib, e) ==
  /\ call' = [call EXCEPT !.pc = pc, !.attrib = attrib]
  /\ err' = e
  /\ UNCHANGED <<fs, dta, current_dta, vectors, touched, seen>>

(* _dos_getfileattr calls stat: a directory has its attributes.            *)
GetFileAttr ==
  /\ call.pc = "next" /\ More(cdta)
  /\ IF fs[CurrentFile] = "none" THEN Continue(ReportLibc(err, "ENOENT"))
     ELSE IF fs[CurrentFile] = "dir" THEN GoOn("stat", AttrOf("dir"), err)
     ELSE GoOn("access", {}, err)

(* It then calls access to see whether the file is read-only.              *)
Access ==
  /\ call.pc = "access"
  /\ CASE fs[CurrentFile] = "none" -> Continue(ReportLibc(err, "ENOENT"))
       [] fs[CurrentFile] = "rdonly" -> GoOn("stat", AttrOf("rdonly"), LibcFails(err, "EACCES"))
       [] OTHER -> GoOn("stat", AttrOf("reg"), err)

(* The filter: the attributes come from _dos_getfileattr, whether the      *)
(* entry is a directory from the stat after it.                            *)
SelectedExactly(want, attrib, kind) == want \cap attrib # {}
Selected(want, attrib, kind) ==
  \/ want \cap attrib # {}
  \/ kind # "dir" /\ (want \cap {"HIDDEN", "RDONLY", "SUBDIR", "SYSTEM"} # {} \/ want = {})

StatSelected ==
  /\ call.pc = "stat"
  /\ fs[CurrentFile] # "none"
  /\ Selected(cdta.want, call.attrib, fs[CurrentFile])

(* The entry cannot be stat'ed any more, or is not wanted.                 *)
StatSkips ==
  /\ call.pc = "stat" /\ ~ StatSelected
  /\ Continue(IF fs[CurrentFile] = "none" THEN LibcFails(err, "ENOENT") ELSE err)

StatFinds ==
  /\ StatSelected /\ fs[CurrentFile] # "odd"
  /\ dta' = DtaAdvanced
  /\ Return(call.api, call.prev, current_dta, "NO_ERROR", err, "found", CurrentFile)
  /\ UNCHANGED <<fs, vectors, userDta, abandoned>>

(* dostime_int fails: the index is not advanced.                           *)
StatBadTime ==
  /\ StatSelected /\ fs[CurrentFile] = "odd"
  /\ Return(call.api, call.prev, current_dta, "BAD_ARGUMENTS",
            ExterrSet(err, Err("BAD_ARGUMENTS", "APP_PROG_ERROR", "ABORT_AFTER_CLEANUP", "UNKNOWN"), "0"),
            "error", NoFile)
  /\ UNCHANGED <<fs, dta, vectors, userDta, abandoned>>

(* globfree frees the vector if there is one and forgets it.               *)
GlobFreed(f) == [f EXCEPT !.pathv = NoVector]
FreedVectorsForgotten == 0
FreedVectors == IF cdta.pathv # NoVector THEN 1 ELSE 0

NoMoreFilesSwapped == Err("NO_MORE_FILES", "IGNORE", "NOT_FOUND", "BLOCK_DEV")
NoMoreFiles == Err("NO_MORE_FILES", "NOT_FOUND", "IGNORE", "BLOCK_DEV")

Exhausted ==
  /\ call.pc = "next" /\ ~ More(cdta) /\ cdta.pathi = cdta.pathc
  /\ dta' = [dta EXCEPT ![current_dta] = GlobFreed(@)]
  /\ vectors' = vectors - FreedVectors
  /\ Return(call.api, call.prev, current_dta, "NO_MORE_FILES", ExterrSet(err, NoMoreFiles, "0"),
            "done", NoFile)
  /\ UNCHANGED <<fs, userDta, abandoned>>

(* The assertion before globfree fails and stops the program.              *)
AssertFails ==
  /\ call.pc = "next" /\ ~ More(cdta) /\ cdta.pathi # cdta.pathc
  /\ call' = [call EXCEPT !.pc = "aborted"]
  /\ UNCHANGED <<fs, dta, current_dta, err, vectors, touched, seen>>

-----------------------------------------------------------------------------
LibraryStep ==
  GetFileAttr \/ Access \/ StatSkips \/ StatFinds \/ StatBadTime \/ Exhausted \/ AssertFails

ProgramCall ==
  \E d \in Dtas :
    \/ SetDtaAddr(d)
    \/ \E api \in Apis :
         \/ \E S \in Matches : \E matches \in Orderings(S), attrs \in SearchAttrs :
              FindFirst(api, d, matches, attrs)
         \/ \E e \in GlobErrors : FindFirstFails(api, d, e)
         \/ FindNext(api, d)

Next == LibraryStep \/ ProgramCall \/ \E f \in Files, kind \in Kinds : Change(f, kind)

(* The library runs: a call in progress goes on to its next system call    *)
(* however often other processes get to run.                               *)
Spec == Init /\ [][Next]_vars /\ WF_vars(LibraryStep)

-----------------------------------------------------------------------------
(* Properties.                                                             *)

FindT == [pathv : Seq(Files), pathc : Nat, pathi : Nat, want : SUBSET AttrBits]

FindTypeOK ==
  /\ fs \in [Files -> Kinds]
  /\ dta \in [Dtas -> FindT]
  /\ current_dta \in Dtas /\ userDta \in Dtas
  /\ call \in [pc : Points, api : Apis, prev : Dtas, attrib : SUBSET AttrBits]
  /\ abandoned \in 0..MaxAbandoned
  /\ touched \subseteq Files
  /\ outcome \in [Dtas -> Outcomes]
  /\ ret.api \in Apis /\ ret.entry \in Files \cup {NoFile}

(* Every variable has its type; in particular every DTA holds a find_t and *)
(* the error record only ever has codes of the DOS tables.                 *)
TypeOK ==
  /\ FindTypeOK
  /\ vectors \in Nat
  /\ err.info \in ErrRecords

(* Whenever the loop of findnext is about to read gl_pathv[_gl_pathi], in  *)
(* the first iteration of a call or a later one, the vector is there and   *)
(* the index inside it, whatever happened to the DTA in earlier calls.     *)
VectorInBounds ==
  (call.pc = "next" /\ More(cdta)) \/ call.pc \in {"access", "stat"}
    => cdta.pathi + 1 \in DOMAIN cdta.pathv

(* The assertion at the end of findnext fails only for a DTA whose last    *)
(* _dos_findfirst failed: no search that ever started can stop the         *)
(* program, however it is interleaved with others.                         *)
AbortsOnlyAfterFailedFindfirst ==
  call.pc = "aborted" => /\ cdta.pathv = NoVector
                         /\ cdta.pathc = 0
                         /\ cdta.pathi # 0

(* The path vectors in the heap are those of the searches still open and   *)
(* those of searches the program began anew before they were exhausted     *)
(* (the leak the comment in findnext warns of): nothing else leaks, and    *)
(* nothing is freed twice.                                                 *)
VectorsAccounted ==
  vectors = Cardinality({ d \in Dtas : dta[d].pathv # NoVector }) + abandoned

(* Between calls the current DTA is the one the program set with INT 21h   *)
(* AH=1Ah, however many C searches used other buffers meanwhile.           *)
CurrentDtaIsUsers == Idle => current_dta = userDta

(* After an INT 21h search service has failed with a code in AX, INT 21h   *)
(* AH=59h reports that same code.                                          *)
IntErrorReported ==
  Idle /\ ret.api = "INT" /\ ret.code # "NO_ERROR" => ReportedCode(err) = ret.code

(* Every call comes back (or stops the program at the assertion) although  *)
(* other processes may keep changing the files it looks at.                *)
CallReturns == Busy ~> ~ Busy

(* The searches behave as FindSpec promises.  What a DTA has left is its   *)
(* vector from the index on.                                               *)
Search == INSTANCE FindSpec WITH
  remaining <- [d \in Dtas |-> SubSeq(dta[d].pathv, dta[d].pathi + 1, Len(dta[d].pathv))],
  want <- [d \in Dtas |-> dta[d].want],
  found <- ret.entry

ImplementsFindSpec == Search!Spec

=============================================================================
