------------------------------ MODULE DosShare ------------------------------
(***************************************************************************)
(* File handles of libc/dos.c: _dos_creat, _dos_creatnew, _dos_open and    *)
(* _dos_close and the INT 21h services 3Ch, 5Bh, 3Dh and 3Eh, called by    *)
(* several programs on the same files.  _dos_open turns the DOS share mode *)
(* into a POSIX record lock on the whole file, which it sets in a system   *)
(* call of its own after the file is open.                                 *)
(*                                                                         *)
(* A POSIX lock belongs to a process and a file, not to a descriptor:      *)
(* setting one replaces the lock the process has on that file, and closing *)
(* any descriptor of the file, or ending, drops it.  The descriptor flag   *)
(* _O_NOINHERIT sets is left out: fcntl does not fail to set it on an open *)
(* descriptor, and nothing modelled here reads it.  Calls that fail before *)
(* a descriptor is open change nothing modelled here.                      *)
(*                                                                         *)
(* OpenedSwapped, LockTypeAlwaysRead and AfterCloseForgotten are plausible *)
(* mistakes in the definition that follows each; Next does not use them.   *)
(***************************************************************************)
EXTENDS Naturals, FiniteSets

CONSTANTS
  Procs,   \* the programs running on the library
  Files,   \* path names
  Modes,   \* the <<access, share>> pairs _dos_open is called with
  MaxFds   \* descriptors a process may have open (RLIMIT_NOFILE)

Accesses == { "RDONLY", "WRONLY", "RDWR" }
Shares == { "COMPAT", "DENYRW", "DENYWR", "DENYRD", "DENYNO" }
Apis == { "C", "INT" }

ASSUME ModesAssumption == Modes \subseteq Accesses \X Shares
ASSUME FdsAssumption == MaxFds \in Nat

VARIABLES
  file,      \* per path, what it contains and whether it is read-only
  fds,       \* per process, its open descriptors
  locks,     \* per process and path, the record lock it holds
  opening,   \* per process, the descriptors _dos_open is about to lock
  \* Observations of the programs:
  handles,   \* per process, the handles the library has returned to it
  refused,   \* per process, the calls of _dos_open whose lock was refused
  reopened,  \* <<p, f>>: p had two handles of f at some time
  created    \* per process, its last call of creatnew, and what was there

kernel == <<file, fds, locks>>
seen == <<handles, refused, reopened, created>>
vars == <<kernel, opening, seen>>

Contents == { "absent", "empty", "data" }
Fd == 1..MaxFds
Closed == [file |-> "-", access |-> "-", share |-> "-"]
Descriptions == [file : Files, access : Accesses, share : Shares]
OpenedSwapped(f, access, share) == [file |-> f, access |-> share, share |-> access]
Opened(f, access, share) == [file |-> f, access |-> access, share |-> share]

OpenFds(p) == { fd \in Fd : fds[p][fd] # Closed }
LowestFree(p) == CHOOSE fd \in Fd \ OpenFds(p) : \A other \in Fd \ OpenFds(p) : fd <= other
Idle(p) == opening[p] = {}
HandlesOf(p, f) == { fd \in handles[p] : fds[p][fd].file = f }

Creations == [api : Apis \cup {"none"}, found : Contents]
Nothing == [api |-> "none", found |-> "absent"]

Init ==
  /\ file \in [Files -> [content : Contents, ro : BOOLEAN]]
  /\ \A f \in Files : file[f].content = "absent" => ~ file[f].ro
  /\ fds = [p \in Procs |-> [fd \in Fd |-> Closed]]
  /\ locks = [p \in Procs |-> [f \in Files |-> "none"]]
  /\ opening = [p \in Procs |-> {}]
  /\ handles = [p \in Procs |-> {}]
  /\ refused = [p \in Procs |-> 0]
  /\ reopened = {}
  /\ created = [p \in Procs |-> Nothing]

-----------------------------------------------------------------------------
(* A service returns the descriptor fd to program p as a handle of f.      *)
Returned(p, f, fd) ==
  /\ handles' = [handles EXCEPT ![p] = @ \cup {fd}]
  /\ reopened' = IF HandlesOf(p, f) # {} THEN reopened \cup {<<p, f>>} ELSE reopened

-----------------------------------------------------------------------------
(* dos_creat.  Each service opens with O_RDWR | O_CREAT | O_TRUNC; O_EXCL  *)
(* makes that fail for a file that exists.                                 *)

Exclusive(service, api) == service = "creatnew" /\ api = "C"

CreatFails(p, f, service, api) ==
  \/ OpenFds(p) = Fd
  \/ file[f].content # "absent" /\ (file[f].ro \/ Exclusive(service, api))

(* The read-only attribute is given to a new file only.                    *)
Creat(p, f, service, api, rdonly) ==
  /\ Idle(p)
  /\ ~ CreatFails(p, f, service, api)
  /\ LET fd == LowestFree(p)
     IN  /\ fds' = [fds EXCEPT ![p][fd] = Opened(f, "RDWR", "DENYNO")]
         /\ Returned(p, f, fd)
  /\ file' = [file EXCEPT ![f] =
                [content |-> "empty", ro |-> IF @.content = "absent" THEN rdonly ELSE @.ro]]
  /\ created' = IF service = "creat" THEN created
                ELSE [created EXCEPT ![p] = [api |-> api, found |-> file[f].content]]
  /\ UNCHANGED <<locks, opening, refused>>

-----------------------------------------------------------------------------
(* _dos_open.                                                              *)

OpenFails(p, f, access) ==
  \/ OpenFds(p) = Fd
  \/ file[f].content = "absent"
  \/ file[f].ro /\ access # "RDONLY"

(* The open system call.  Only _SH_DENYNO needs no lock.                   *)
Open(p, f, access, share) ==
  /\ Idle(p)
  /\ ~ OpenFails(p, f, access)
  /\ LET fd == LowestFree(p)
     IN  /\ fds' = [fds EXCEPT ![p][fd] = Opened(f, access, share)]
         /\ IF share = "DENYNO"
              THEN Returned(p, f, fd) /\ UNCHANGED opening
              ELSE /\ opening' = [opening EXCEPT ![p] = {fd}]
                   /\ UNCHANGED <<handles, reopened>>
  /\ UNCHANGED <<file, locks, refused, created>>

(* The lock type: _SH_DENYRD has the bits of both other modes, and each of *)
(* them tests as _SH_DENYRD, so the three ask for a write lock; F_RDLCK is *)
(* 0, the type the compatibility mode is left with.                        *)
LockTypeAlwaysRead(share) == "read"
LockType(share) == IF share = "COMPAT" THEN "read" ELSE "write"

(* fcntl needs a descriptor open for reading to set a read lock, and one   *)
(* open for writing to set a write lock.                                   *)
Lockable(access, type) ==
  IF type = "read" THEN access # "WRONLY" ELSE access # "RDONLY"

Compatible(type, other) == other = "none" \/ (type = "read" /\ other = "read")

Grants(p, fd) ==
  LET o == fds[p][fd]
      type == LockType(o.share)
  IN  /\ Lockable(o.access, type)
      /\ \A q \in Procs \ {p} : Compatible(type, locks[q][o.file])

Lock(p, fd) ==
  /\ fd \in opening[p] /\ Grants(p, fd)
  /\ LET o == fds[p][fd]
     IN  /\ locks' = [locks EXCEPT ![p][o.file] = LockType(o.share)]
         /\ Returned(p, o.file, fd)
  /\ opening' = [opening EXCEPT ![p] = {}]
  /\ UNCHANGED <<file, fds, refused, created>>

(* The lock is refused: an error is returned, the descriptor stays open.   *)
ReturnedError(p) ==
  /\ opening' = [opening EXCEPT ![p] = {}]
  /\ refused' = [refused EXCEPT ![p] = @ + 1]
  /\ UNCHANGED <<kernel, handles, reopened, created>>

LockRefused(p, fd) ==
  /\ fd \in opening[p] /\ ~ Grants(p, fd)
  /\ ReturnedError(p)

(* It could be set, but the system is out of locks (ENOLCK).               *)
LocksExhausted(p, fd) ==
  /\ fd \in opening[p] /\ Grants(p, fd)
  /\ ReturnedError(p)

-----------------------------------------------------------------------------
(* _dos_close of a handle the program has.                                 *)

AfterCloseForgotten(p, fd) == fds[p]
AfterClose(p, fd) == [fds[p] EXCEPT ![fd] = Closed]

Close(p, fd) ==
  /\ Idle(p) /\ fd \in handles[p]
  /\ LET after == AfterClose(p, fd)
     IN  /\ fds' = [fds EXCEPT ![p] = after]
         /\ locks' = IF after = fds[p] THEN locks
                     ELSE [locks EXCEPT ![p][fds[p][fd].file] = "none"]
  /\ handles' = [handles EXCEPT ![p] = @ \ {fd}]
  /\ UNCHANGED <<file, opening, refused, reopened, created>>

-----------------------------------------------------------------------------
(* The programs and the system around the library.                         *)

Write(p, fd) ==
  /\ Idle(p) /\ fd \in handles[p]
  /\ fds[p][fd].access # "RDONLY"
  /\ file[fds[p][fd].file].content = "empty"
  /\ file' = [file EXCEPT ![fds[p][fd].file].content = "data"]
  /\ UNCHANGED <<fds, locks, opening, seen>>

(* A program ends, or is killed wherever it is, and another one starts in  *)
(* its place.                                                              *)
Restart(p) ==
  /\ OpenFds(p) # {}
  /\ fds' = [fds EXCEPT ![p] = [fd \in Fd |-> Closed]]
  /\ locks' = [locks EXCEPT ![p] = [f \in Files |-> "none"]]
  /\ opening' = [opening EXCEPT ![p] = {}]
  /\ handles' = [handles EXCEPT ![p] = {}]
  /\ refused' = [refused EXCEPT ![p] = 0]
  /\ reopened' = { e \in reopened : e[1] # p }
  /\ created' = [created EXCEPT ![p] = Nothing]
  /\ UNCHANGED file

Next ==
  \E p \in Procs :
    \/ \E f \in Files :
         \/ \E service \in {"creat", "creatnew"}, api \in Apis, rdonly \in BOOLEAN :
              Creat(p, f, service, api, rdonly)
         \/ \E mode \in Modes : Open(p, f, mode[1], mode[2])
    \/ \E fd \in Fd :
         \/ Lock(p, fd) \/ LockRefused(p, fd) \/ LocksExhausted(p, fd)
         \/ Close(p, fd) \/ Write(p, fd)
    \/ Restart(p)

Spec == Init /\ [][Next]_vars

-----------------------------------------------------------------------------
(* Properties.                                                             *)

TypeOK ==
  /\ file \in [Files -> [content : Contents, ro : BOOLEAN]]
  /\ fds \in [Procs -> [Fd -> Descriptions \cup {Closed}]]
  /\ locks \in [Procs -> [Files -> {"none", "read", "write"}]]
  /\ opening \in [Procs -> SUBSET Fd]
  /\ handles \in [Procs -> SUBSET Fd]
  /\ refused \in [Procs -> Nat]
  /\ reopened \subseteq Procs \X Files
  /\ created \in [Procs -> Creations]

(* A program is locked out of a file only by another one that still has a  *)
(* handle it opened with a share mode: failed opens, closes and crashes    *)
(* leave no lock behind, in whatever order the programs run.               *)
NoOrphanLock ==
  \A p \in Procs, f \in Files :
    locks[p][f] # "none" => \E fd \in HandlesOf(p, f) : fds[p][fd].share # "DENYNO"

(* A program with a handle that denies something has the file to itself    *)
(* among the programs that open it with a share mode, provided neither has *)
(* had two handles of that file: closing the second one gives up the lock  *)
(* of the first, and opening it replaces that lock.                        *)
DenyExcludesUnlessReopened ==
  \A p, q \in Procs, f \in Files :
    \A h \in HandlesOf(p, f), k \in HandlesOf(q, f) :
      /\ p # q
      /\ fds[p][h].share \in {"DENYRW", "DENYWR", "DENYRD"}
      /\ fds[q][k].share # "DENYNO"
      => <<p, f>> \in reopened \/ <<q, f>> \in reopened

(* The descriptors of a program are its handles, the one being locked and  *)
(* those of the opens whose lock was refused: no other call leaks one.     *)
FdsAccounted ==
  \A p \in Procs :
    Cardinality(OpenFds(p)) = Cardinality(handles[p]) + Cardinality(opening[p]) + refused[p]

(* The creation of a new file succeeds only if there was none (test        *)
(* dcreat.c: "The program cannot create a new file using the _dos_creatnew *)
(* function because it already exists").                                   *)
CreatnewIsNew ==
  \A p \in Procs : created[p].found = "absent"

=============================================================================
