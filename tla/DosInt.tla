------------------------------- MODULE DosInt -------------------------------
(***************************************************************************)
(* Interrupts (libc/dos.c): the vector table, _dos_getvect, _dos_setvect,  *)
(* intr and the int86 family, the dispatch of INT 21h on AH, AL, BH and BL *)
(* and of INT 2Fh, and how the services answer in AX and the carry flag.   *)
(* What a service does besides is other modules' subject: here it succeeds *)
(* or fails in the ways the code has, and leaves the error state that way. *)
(*                                                                         *)
(* A program raises interrupts, calls the C forms, fails in calls of the   *)
(* C library of its own, and may put a function of its own (the hook) on   *)
(* an interrupt, which answers, raises further interrupts, or calls the    *)
(* handler that was there before it.                                       *)
(*                                                                         *)
(* AX is known by who put its value there: the caller, or a service, as    *)
(* its result or as an error code.  Vectors 21h and 2Fh start with the     *)
(* library's handlers, 60h without one; FFh is not in the table.           *)
(*                                                                         *)
(* DispatchSwapped and FlagsAfterResult are plausible mistakes in the      *)
(* definition that follows each; Next does not use them.                   *)
(***************************************************************************)
EXTENDS DosExterr, Integers, Sequences, SequencesExt

CONSTANTS
  Requests,    \* the requests the program makes: <<AH, sub-function>>
  NewRecords,  \* the records it sets with INT 2Fh AX=1222h
  Errnos,      \* the errnos failing calls of the C library leave
  MaxDepth     \* bound on interrupts in progress

ASSUME DepthAssumption == MaxDepth \in Nat \ {0}
ASSUME ErrnosAssumption == "0" \notin Errnos
ASSUME RecordsAssumption ==
  NewRecords \subseteq [exterror : STRING, errclass : STRING, action : STRING, locus : STRING]

VARIABLES
  vect,      \* int_vect
  err,       \* errno and errorinfo
  doserrno,  \* whether _doserrno has a "code" or something "other"
  frames,    \* the interrupts in progress, innermost last
  pc,        \* "run", or how the program ended
  \* Observations:
  last,      \* the code of the last failure, of a service or of the C library
  careless   \* what the program did that nothing is promised about

vars == <<vect, err, doserrno, frames, pc, last, careless>>

Interrupts == { "21", "2F", "60", "FF" }
Vectors == { "21", "2F", "60" }
Original == [n \in Vectors |-> CASE n = "21" -> "dos" [] n = "2F" -> "mux" [] n = "60" -> "null"]
Hooked == { "21", "60" }
Handlers == { "null", "dos", "mux", "hook" }
Ends == { "aborted", "unimplemented" }

-----------------------------------------------------------------------------
(* The services.                                                           *)

(* The switch of int21_main_dos_api: which service a request reaches.      *)
DispatchOf21 ==
  <<"43", "00">> :> "getfileattr" @@ <<"43", "01">> :> "setfileattr" @@
  <<"57", "00">> :> "getftime" @@ <<"57", "01">> :> "setftime" @@
  <<"01", "">> :> "getche" @@ <<"02", "">> :> "putch" @@ <<"08", "">> :> "getch" @@
  <<"09", "">> :> "write_stdout" @@ <<"1A", "">> :> "set_dta_addr" @@
  <<"25", "">> :> "setvect" @@ <<"2A", "">> :> "getdate" @@ <<"2B", "">> :> "setdate" @@
  <<"2C", "">> :> "gettime" @@ <<"2D", "">> :> "settime" @@ <<"2F", "">> :> "get_dta_addr" @@
  <<"35", "">> :> "getvect" @@ <<"3C", "">> :> "creat" @@ <<"3D", "">> :> "open" @@
  <<"3E", "">> :> "close" @@ <<"48", "">> :> "allocmem" @@ <<"49", "">> :> "freemem" @@
  <<"4A", "">> :> "setblock" @@ <<"4E", "">> :> "findfirst" @@ <<"4F", "">> :> "findnext" @@
  <<"59", "0000">> :> "exterr" @@ <<"5B", "">> :> "creatnew"

(* The switch of int2f_multiplex.                                          *)
DispatchOf2F == <<"12", "22">> :> "exterr_set"

(* The AH each cpu_ function asserts it was called with.                   *)
AssertedAH ==
  [ getfileattr |-> "43", setfileattr |-> "43", getftime |-> "57", setftime |-> "57",
    getche |-> "01", putch |-> "02", getch |-> "08", write_stdout |-> "09",
    set_dta_addr |-> "1A", setvect |-> "25", getdate |-> "2A", setdate |-> "2B",
    gettime |-> "2C", settime |-> "2D", get_dta_addr |-> "2F", getvect |-> "35",
    creat |-> "3C", open |-> "3D", close |-> "3E", allocmem |-> "48", freemem |-> "49",
    setblock |-> "4A", findfirst |-> "4E", findnext |-> "4F", exterr |-> "59",
    creatnew |-> "5B", exterr_set |-> "12" ]

(* Every request is dispatched to a service that asserts its AH.           *)
ASSUME DispatchAssumption ==
  /\ \A request \in DOMAIN DispatchOf21 : AssertedAH[DispatchOf21[request]] = request[1]
  /\ \A request \in DOMAIN DispatchOf2F : AssertedAH[DispatchOf2F[request]] = request[1]

(* call_syscall of the service found, or of none.                          *)
DispatchSwapped(handler, request) ==
  LET d == IF handler = "dos" THEN DispatchOf21 ELSE DispatchOf2F
  IN  IF request = <<"4F", "">> THEN "findfirst"
      ELSE IF request \in DOMAIN d THEN d[request] ELSE "null"
Dispatch(handler, request) ==
  LET d == IF handler = "dos" THEN DispatchOf21 ELSE DispatchOf2F
  IN  IF request \in DOMAIN d THEN d[request] ELSE "null"

(* Services that write the carry flag; the others leave the caller's.      *)
Flagged ==
  { "creat", "creatnew", "open", "close", "allocmem", "freemem", "setblock", "findfirst",
    "findnext", "getfileattr", "setfileattr", "getftime", "setftime" }

(* Those that may fail, by reporting the errno of the C library.           *)
Reporting == Flagged \cup { "setdate", "settime" }

(* Those that call the C library: it may set errno although the service    *)
(* succeeds.  findnext does so by access, getch by isatty on a pipe, the   *)
(* writing services (which tell no failure) by write.                      *)
LeavingErrno ==
  DOMAIN AssertedAH \
    { "set_dta_addr", "get_dta_addr", "getvect", "setvect", "exterr", "exterr_set" }

(* The errors a service sets itself: its record, and the errno it leaves.  *)
(* getdate and gettime set one and tell nothing.                           *)
BadArguments == Err("BAD_ARGUMENTS", "APP_PROG_ERROR", "ABORT_AFTER_CLEANUP", "UNKNOWN")
ArenaDestroyed == Err("MCB_DESTROYED", "INTERN_SYS_ERROR", "IMMEDIATE_ABORT", "MEM_RELATED")
SearchErrors == { Err("NO_MORE_FILES", "NOT_FOUND", "IGNORE", "BLOCK_DEV"), BadArguments }
GlobErrors ==
  { Err("ACCESS_DENIED", "ACCESS_DENIED", "ABORT_AFTER_CLEANUP", "BLOCK_DEV"),
    Err("PATH_NOT_FOUND", "NOT_FOUND", "PROMPT_USR_REENTER_INPUT", "BLOCK_DEV"),
    Err("FILE_NOT_FOUND", "NOT_FOUND", "PROMPT_USR_REENTER_INPUT", "BLOCK_DEV"),
    Err("READ_FAULT", "MEDIA_ERROR", "RETRY_AFTER_USR_INTERV", "BLOCK_DEV"),
    Err("INSUF_MEM", "OUT_OF_RESOURCE", "IMMEDIATE_ABORT", "MEM_RELATED") }
OwnErrors ==
  [ findnext |-> SearchErrors \X {"0"},
    findfirst |-> (GlobErrors \cup SearchErrors) \X {"0"},
    getftime |-> {BadArguments} \X {"0"}, setftime |-> {BadArguments} \X {"0"},
    getdate |-> {BadArguments} \X {"0"}, gettime |-> {BadArguments} \X {"0"},
    setdate |-> {BadArguments} \X {"0", "EINVAL"}, settime |-> {BadArguments} \X {"0", "EINVAL"},
    freemem |-> {ArenaDestroyed} \X {"EINVAL"} ]

(* EINVAL, left by the services that set the clock, says what they say.    *)
ASSUME EinvalAssumption ==
  /\ "EINVAL" \in DOMAIN ErrTable
  /\ ErrTable["EINVAL"].exterror = BadArguments.exterror

-----------------------------------------------------------------------------
(* Interrupts in progress.                                                 *)

(* What AX holds.                                                          *)
FromCaller == [by |-> "caller", code |-> "NO_ERROR"]
Result == [by |-> "service", code |-> "NO_ERROR"]
ErrorCode(code) == [by |-> "error", code |-> code]

(* `run' holds the handlers called and not returned from, `code' the error *)
(* the service gave, `clear' and `answered' whether the flag came in clear *)
(* and whether the hook answered.                                          *)
Frame(request, handler, cf) ==
  [request |-> request, run |-> <<handler>>, ax |-> FromCaller, cf |-> cf,
   clear |-> cf = 0, answered |-> FALSE, code |-> "NO_ERROR"]

KindOf(ax) == IF ax.by = "error" THEN "code" ELSE "other"

Top == frames[Len(frames)]
Running == IF frames = <<>> \/ Top.run = <<>> THEN "none" ELSE Last(Top.run)

(* The innermost interrupt goes on as this frame.                          *)
Becomes(frame) == frames' = [frames EXCEPT ![Len(frames)] = frame]

(* The program's own code runs: outside interrupts, or in its hook, until  *)
(* that has answered or called the handler before it.                      *)
Undecided == Len(Top.run) = 1 /\ Top.ax.by = "caller" /\ ~ Top.answered
InProgram == pc = "run" /\ (frames = <<>> \/ (Running = "hook" /\ Undecided))

InLibrary == pc = "run" /\ Running \in { "dos", "mux" }
Service == Dispatch(Running, Top.request)
AssertionHolds == Service # "null" => AssertedAH[Service] = Top.request[1]
Serves(service) == InLibrary /\ Service = service /\ AssertionHolds

Stops(end) ==
  /\ pc' = end
  /\ frames' = <<>>
  /\ UNCHANGED <<vect, doserrno, last>>

Init ==
  /\ vect = Original
  /\ err = ErrInit
  /\ doserrno = "code"
  /\ frames = <<>>
  /\ pc = "run"
  /\ last = "NO_ERROR"
  /\ careless = {}

-----------------------------------------------------------------------------
(* Vectors: the operations behind the C calls and INT 21h AH=25h, 35h.     *)

(* The program sets its own function, and the vector it got before.        *)
MaySet(n, h) ==
  \/ n \in Hooked /\ vect[n] = Original[n] /\ h = "hook"
  \/ n \in Hooked /\ vect[n] = "hook" /\ h = Original[n]
  \/ n = "FF" /\ h = "hook"

SetAborts(n, h) == n = "FF" \/ h = "null"

Careless(what) == careless' = careless \cup {what}

GetVectAborts ==
  /\ InProgram
  /\ Stops("aborted")
  /\ Careless("vector")
  /\ UNCHANGED err

SetVectAborts(n, h) ==
  /\ InProgram
  /\ MaySet(n, h) /\ SetAborts(n, h)
  /\ Stops("aborted")
  /\ Careless("vector")
  /\ UNCHANGED err

SetVect(n, h) ==
  /\ InProgram
  /\ MaySet(n, h) /\ ~ SetAborts(n, h)
  /\ vect' = [vect EXCEPT ![n] = h]
  /\ UNCHANGED <<err, doserrno, frames, pc, last, careless>>

-----------------------------------------------------------------------------
(* Raising an interrupt: intr and the int86 family.                        *)

(* INT FFh, which the assertion of _dos_getvect refuses.                   *)
RaiseAborts ==
  /\ InProgram /\ Len(frames) < MaxDepth
  /\ Stops("aborted")
  /\ Careless("vector")
  /\ UNCHANGED err

(* No handler: call_syscall stops the program with a message.              *)
RaiseUnhandled(n) ==
  /\ InProgram /\ Len(frames) < MaxDepth
  /\ vect[n] = "null"
  /\ Stops("unimplemented")
  /\ UNCHANGED <<err, careless>>

(* The caller's carry flag goes in; _bdos passes what its uninitialised    *)
(* registers hold.                                                         *)
Raise(n, request, cf) ==
  /\ InProgram /\ Len(frames) < MaxDepth
  /\ vect[n] # "null"
  /\ (n = "2F") = (request[1] = "12")
  /\ frames' = Append(frames, Frame(request, vect[n], cf))
  /\ careless' = IF cf = 1 THEN careless \cup {"carry"} ELSE careless
  /\ UNCHANGED <<vect, err, doserrno, pc, last>>

(* Every handler has returned: a caller of the int86 family that wants the *)
(* registers back gets them, and _doserrno gets AX if the carry flag is    *)
(* set.                                                                    *)
Return ==
  /\ pc = "run" /\ frames # <<>> /\ Top.run = <<>>
  /\ frames' = Front(frames)
  /\ \/ UNCHANGED doserrno
     \/ Top.cf = 1 /\ doserrno' = KindOf(Top.ax)
  /\ UNCHANGED <<vect, err, pc, last, careless>>

-----------------------------------------------------------------------------
(* The services of INT 21h and INT 2Fh.                                    *)

(* The service leaves AX and the carry flag so, and its handler returns.   *)
Answered(f, ax, cf, code) ==
  [f EXCEPT !.run = Front(f.run), !.ax = ax, !.cf = cf, !.code = code]
Answer(ax, cf, code) == Becomes(Answered(Top, ax, cf, code))

(* `flags = ax ? 1 : 0', before AX takes the result.                       *)
FlagsAfterResult(code) == 1
FlagsOf(code) == IF code = "NO_ERROR" THEN 0 ELSE 1

Carry(service, code) == IF service \in Flagged THEN FlagsOf(code) ELSE Top.cf

(* The code of an errno; the table does not have them all.                 *)
CodeOf(e) == IF Mapped(e) THEN ErrTable[e].exterror ELSE "unknown"

Succeeds(service) ==
  /\ Serves(service)
  /\ Answer(Result, Carry(service, "NO_ERROR"), "NO_ERROR")
  /\ \/ UNCHANGED <<err, last>>
     \/ \E e \in Errnos :
          /\ service \in LeavingErrno
          /\ err' = LibcFails(err, e)
          /\ last' = CodeOf(e)
  /\ UNCHANGED <<vect, doserrno, pc, careless>>

(* The service fails with an error record: its code goes into AX, except   *)
(* that setting the clock only says FFh in AL.                             *)
Fails(service, code) ==
  /\ Answer(IF service \in Flagged THEN ErrorCode(code) ELSE Result, Carry(service, code),
            IF service \in Flagged THEN code ELSE "NO_ERROR")
  /\ UNCHANGED <<vect, pc, careless>>

FailsInLibc(service, e) ==
  /\ service \in Reporting /\ Serves(service) /\ Mapped(e)
  /\ err' = ReportLibc(err, e)
  /\ Fails(service, err'.info.exterror)
  /\ last' = err'.info.exterror
  /\ UNCHANGED doserrno

(* An errno _dosexterr has no case for: its assertion fails.               *)
FailsUnmapped(service, e) ==
  /\ service \in Reporting /\ Serves(service) /\ ~ Mapped(e)
  /\ err' = LibcFails(err, e)
  /\ Stops("aborted")
  /\ UNCHANGED careless

FailsItself(service, error) ==
  /\ Serves(service)
  /\ err' = ExterrSet(err, error[1], error[2])
  /\ doserrno' = "code"
  /\ Fails(service, err'.info.exterror)
  /\ last' = IF service = "freemem" THEN "unknown" ELSE error[1].exterror

(* AH=35h: the vector goes to ES:BX; AX and the flag stay.                 *)
ServeGetVect ==
  /\ Serves("getvect")
  /\ Answer(Top.ax, Top.cf, "NO_ERROR")
  /\ UNCHANGED <<vect, err, doserrno, pc, last, careless>>

(* AH=25h: DS:DX becomes the vector.                                       *)
ServeSetVect(n, h) ==
  /\ Serves("setvect")
  /\ MaySet(n, h) /\ ~ SetAborts(n, h)
  /\ vect' = [vect EXCEPT ![n] = h]
  /\ Answer(Top.ax, Top.cf, "NO_ERROR")
  /\ UNCHANGED <<err, doserrno, pc, last, careless>>

ServeVectAborts ==
  /\ \/ Serves("getvect")
     \/ \E n \in Interrupts, h \in Handlers : Serves("setvect") /\ MaySet(n, h) /\ SetAborts(n, h)
  /\ Stops("aborted")
  /\ Careless("vector")
  /\ UNCHANGED err

(* AH=59h, and _dosexterr in C: the pending errno becomes the record.      *)
Reports ==
  /\ Mapped(err.errno)
  /\ err' = DosExterr(err)
  /\ last' = ReportedCode(err)
  /\ UNCHANGED <<vect, doserrno, pc, careless>>

ServeExterr ==
  /\ Serves("exterr")
  /\ Reports
  /\ Answer(ErrorCode(ReportedCode(err)), Top.cf, "NO_ERROR")

CallDosexterr ==
  /\ InProgram
  /\ Reports
  /\ UNCHANGED frames

ExterrAborts ==
  /\ Serves("exterr") \/ InProgram
  /\ ~ Mapped(err.errno)
  /\ Stops("aborted")
  /\ UNCHANGED <<err, careless>>

(* INT 2Fh AX=1222h: the program's record, without the fields marked, is   *)
(* the current error; AX and the flag stay.                                *)
ServeExterrSet(new) ==
  /\ Serves("exterr_set")
  /\ err' = ExterrSet(err, new, "0")
  /\ doserrno' = "code"
  /\ last' = IF new.exterror = "DONT_CHANGE" THEN err.info.exterror ELSE new.exterror
  /\ Answer(Top.ax, Top.cf, "NO_ERROR")
  /\ UNCHANGED <<vect, pc, careless>>

(* The library has no such service, or the one it reached was not written  *)
(* for this AH.                                                            *)
Unserved ==
  /\ InLibrary /\ (Service # "null" => ~ AssertionHolds)
  /\ Stops(IF Service = "null" THEN "unimplemented" ELSE "aborted")
  /\ UNCHANGED <<err, careless>>

-----------------------------------------------------------------------------
(* The program.                                                            *)

(* A call of the C library of its own fails.                               *)
ProgramFails(e) ==
  /\ InProgram
  /\ err' = LibcFails(err, e)
  /\ last' = CodeOf(e)
  /\ UNCHANGED <<vect, doserrno, frames, pc, careless>>

HookChained(f) == [f EXCEPT !.run = Append(f.run, "dos")]
HookAnswered(f, cf) == [f EXCEPT !.ax = Result, !.cf = cf, !.answered = TRUE]
HookReturned(f) == [f EXCEPT !.run = Front(f.run)]

(* The hook calls the handler that was there before it, once.              *)
HookChains ==
  /\ pc = "run" /\ Running = "hook" /\ Undecided
  /\ Becomes(HookChained(Top))
  /\ UNCHANGED <<vect, err, doserrno, pc, last, careless>>

(* It answers itself, as it likes.                                         *)
HookAnswers(cf) ==
  /\ pc = "run" /\ Running = "hook" /\ Undecided
  /\ Becomes(HookAnswered(Top, cf))
  /\ careless' = IF cf = 1 THEN careless \cup {"carry"} ELSE careless
  /\ UNCHANGED <<vect, err, doserrno, pc, last>>

HookReturns ==
  /\ pc = "run" /\ Running = "hook"
  /\ Becomes(HookReturned(Top))
  /\ UNCHANGED <<vect, err, doserrno, pc, last, careless>>

Program ==
  \/ \E n \in Vectors :
       \/ RaiseUnhandled(n)
       \/ \E request \in Requests, cf \in 0..1 : Raise(n, request, cf)
  \/ \E n \in Interrupts, h \in Handlers : SetVect(n, h) \/ SetVectAborts(n, h)
  \/ GetVectAborts \/ RaiseAborts \/ CallDosexterr
  \/ \E e \in Errnos : ProgramFails(e)
  \/ HookChains \/ HookReturns \/ \E cf \in 0..1 : HookAnswers(cf)

Library ==
  \/ \E service \in DOMAIN AssertedAH \ { "getvect", "setvect", "exterr", "exterr_set" } :
       Succeeds(service)
  \/ \E service \in Reporting, e \in Errnos : FailsInLibc(service, e) \/ FailsUnmapped(service, e)
  \/ \E service \in DOMAIN OwnErrors : \E error \in OwnErrors[service] : FailsItself(service, error)
  \/ \E n \in Vectors, h \in Handlers : ServeSetVect(n, h)
  \/ ServeGetVect \/ ServeVectAborts \/ ServeExterr \/ ExterrAborts
  \/ \E new \in NewRecords : ServeExterrSet(new)
  \/ Unserved \/ Return

Next == Program \/ Library

Spec == Init /\ [][Next]_vars

-----------------------------------------------------------------------------
(* Properties.                                                             *)

LeftErrnos == Errnos \cup { "0", "EINVAL" }
LibcCodes == { ErrTable[e].exterror : e \in (Errnos \cap DOMAIN ErrTable) \cup {"EINVAL"} }
OwnCodes == UNION { { x[1].exterror : x \in OwnErrors[s] } : s \in DOMAIN OwnErrors }
ProgramCodes == { r.exterror : r \in NewRecords } \ {"DONT_CHANGE"}
Codes == {"NO_ERROR"} \cup LibcCodes \cup OwnCodes \cup ProgramCodes

AXs == [by : {"caller", "service", "error"}, code : Codes]

Frames ==
  [request : Requests, run : Seq(Handlers \ {"null"}), ax : AXs, cf : 0..1,
   clear : BOOLEAN, answered : BOOLEAN, code : Codes]

TypeOK ==
  /\ vect \in [Vectors -> Handlers]
  /\ err.errno \in LeftErrnos /\ err.info.exterror \in Codes
  /\ doserrno \in {"code", "other"}
  /\ frames \in Seq(Frames) /\ Len(frames) <= MaxDepth
  /\ pc \in {"run"} \cup Ends
  /\ last \in Codes \cup {"unknown"}
  /\ careless \subseteq { "vector", "carry" }

(* A caller that passes a clear carry flag, and is answered by the library *)
(* however the call came there (through a hook, with interrupts raised on  *)
(* the way), finds the flag set exactly if the service failed, and then    *)
(* the code in AX.  _doserrno holds a code as long as nobody passed in a   *)
(* set flag, which services that write none hand back with any AX.         *)
CarryTruthful ==
  /\ \A i \in DOMAIN frames : LET f == frames[i] IN
       f.run = <<>> /\ f.clear /\ ~ f.answered =>
         /\ f.cf = 1 <=> f.code # "NO_ERROR"
         /\ f.cf = 1 => f.ax = ErrorCode(f.code)
  /\ "carry" \notin careless => doserrno = "code"

(* _dosexterr and AH=59h report the code of the last failure, whatever was *)
(* called without failing in between: of a service, of a record the        *)
(* program set, or of a call of the C library, the program's own or one    *)
(* within a service that succeeded.  Not so for freemem, which leaves      *)
(* EINVAL with another code, and for errnos the table lacks.               *)
LastErrorReported == pc = "run" /\ last # "unknown" => ReportedCode(err) = last

(* Every request reaches the service whose registers it has set up: a      *)
(* program that sets no null vector, uses no INT FFh and meets no errno    *)
(* missing from the table never fails an assertion of these services.      *)
NoOtherStop == pc = "aborted" => "vector" \in careless \/ ~ Mapped(err.errno)

=============================================================================
