---------------------------- MODULE DosIntProofs ----------------------------
(***************************************************************************)
(* Proofs about interrupts (DosInt), for any requests, records, errnos and *)
(* depth: the last error given is the one reported, and the carry flag and *)
(* AX tell a careful caller whether and how a service failed.              *)
(***************************************************************************)
EXTENDS DosInt, TLAPS, SequenceTheorems

-----------------------------------------------------------------------------
(* The error services.                                                     *)

(* Error records: those of the table, and those the library and the        *)
(* program set.                                                            *)
Records ==
  [exterror : Codes \cup {"DONT_CHANGE"}, errclass : STRING \cup ErrClasses,
   action : STRING \cup ErrActions, locus : STRING \cup ErrLocuses]
Infos == Records \cup { ErrTable[e] : e \in DOMAIN ErrTable }
ErrStates == [errno : LeftErrnos, info : Infos]

LEMMA CodesKnown ==
  /\ "NO_ERROR" \in Codes
  /\ \A e \in Errnos \cup {"EINVAL"} :
       e \in DOMAIN ErrTable => ErrTable[e].exterror \in Codes
  /\ \A s \in DOMAIN OwnErrors : \A x \in OwnErrors[s] : x[1].exterror \in Codes
  /\ \A r \in NewRecords : r.exterror \in Codes \cup {"DONT_CHANGE"}
<1>1. ASSUME NEW e \in Errnos \cup {"EINVAL"}, e \in DOMAIN ErrTable
      PROVE  ErrTable[e].exterror \in Codes
  <2>1. e \in (Errnos \cap DOMAIN ErrTable) \cup {"EINVAL"}
    BY <1>1
  <2> QED
    BY <2>1, Zenon DEF Codes, LibcCodes
<1>2. ASSUME NEW s \in DOMAIN OwnErrors, NEW x \in OwnErrors[s]
      PROVE  x[1].exterror \in Codes
  <2>1. x[1].exterror \in { y[1].exterror : y \in OwnErrors[s] }
    BY Zenon
  <2>2. x[1].exterror \in OwnCodes
    BY <2>1, Zenon DEF OwnCodes
  <2> QED
    BY <2>2, Zenon DEF Codes
<1>3. ASSUME NEW r \in NewRecords
      PROVE  r.exterror \in Codes \cup {"DONT_CHANGE"}
  BY Zenon DEF Codes, ProgramCodes
<1>4. "NO_ERROR" \in Codes
  BY Zenon DEF Codes
<1> QED
  BY <1>1, <1>2, <1>3, <1>4

OwnRecords ==
  [exterror : { "NO_MORE_FILES", "PATH_NOT_FOUND", "FILE_NOT_FOUND", "ACCESS_DENIED", "READ_FAULT",
                "INSUF_MEM", "BAD_ARGUMENTS", "MCB_DESTROYED" },
   errclass : ErrClasses, action : ErrActions, locus : ErrLocuses]

LEMMA OwnRecordsTyped ==
  GlobErrors \cup SearchErrors \cup { BadArguments, ArenaDestroyed } \subseteq OwnRecords
<1>1. BadArguments \in OwnRecords
  BY DEF BadArguments, Err, OwnRecords, ErrClasses, ErrActions, ErrLocuses
<1>2. ArenaDestroyed \in OwnRecords
  BY DEF ArenaDestroyed, Err, OwnRecords, ErrClasses, ErrActions, ErrLocuses
<1>3. SearchErrors \subseteq OwnRecords
  BY <1>1 DEF SearchErrors, Err, OwnRecords, ErrClasses, ErrActions, ErrLocuses
<1>4. GlobErrors \subseteq OwnRecords
  BY DEF GlobErrors, Err, OwnRecords, ErrClasses, ErrActions, ErrLocuses
<1> QED
  BY <1>1, <1>2, <1>3, <1>4

LEMMA OwnErrorsWhole ==
  ASSUME NEW s \in DOMAIN OwnErrors, NEW x \in OwnErrors[s]
  PROVE  /\ x[1] \in Records
         /\ x[2] \in {"0", "EINVAL"}
         /\ x[1].exterror \notin { "DONT_CHANGE", "NO_ERROR" }
         /\ x[2] = "EINVAL" /\ s # "freemem" => x[1] = BadArguments
<1> DEFINE All == GlobErrors \cup SearchErrors \cup { BadArguments, ArenaDestroyed }
<1>1. x[1].exterror \in Codes
  BY CodesKnown
<1>2. /\ x \in All \X {"0", "EINVAL"}
      /\ x[2] = "EINVAL" /\ s # "freemem" => x[1] = BadArguments
  <2>1. s \in { "findnext", "findfirst", "getftime", "setftime", "getdate", "gettime", "setdate",
                "settime", "freemem" }
    BY DEF OwnErrors
  <2>2. CASE s = "findnext"
    <3>1. x \in SearchErrors \X {"0"}
      BY <2>2 DEF OwnErrors
    <3> QED
      BY <3>1
  <2>3. CASE s = "findfirst"
    <3>1. x \in (GlobErrors \cup SearchErrors) \X {"0"}
      BY <2>3 DEF OwnErrors
    <3> QED
      BY <3>1
  <2>4. CASE s \in { "getftime", "setftime", "getdate", "gettime", "setdate", "settime" }
    <3>1. x \in {BadArguments} \X {"0", "EINVAL"}
      BY <2>4 DEF OwnErrors
    <3> QED
      BY <3>1
  <2>5. CASE s = "freemem"
    <3>1. x \in {ArenaDestroyed} \X {"EINVAL"}
      BY <2>5 DEF OwnErrors
    <3> QED
      BY <2>5, <3>1
  <2> QED
    BY <2>1, <2>2, <2>3, <2>4, <2>5
<1>3. x[1] \in OwnRecords /\ x[2] \in {"0", "EINVAL"}
  BY <1>2, OwnRecordsTyped
<1> QED
  BY <1>1, <1>2, <1>3 DEF Records, OwnRecords

LEMMA LibcFailsKeeps ==
  ASSUME NEW e \in ErrStates, NEW n \in LeftErrnos
  PROVE  /\ LibcFails(e, n) \in ErrStates
         /\ LibcFails(e, n).errno = n
         /\ LibcFails(e, n).info = e.info
  BY DEF LibcFails, ErrStates

(* An errno left is what _dosexterr reports next, if it knows it.          *)
LEMMA LibcFailsReported ==
  ASSUME NEW e \in ErrStates, NEW n \in Errnos
  PROVE  /\ CodeOf(n) \in Codes \cup {"unknown"}
         /\ CodeOf(n) # "unknown" => ReportedCode(LibcFails(e, n)) = CodeOf(n)
<1>1. n # "0" /\ n \in LeftErrnos
  BY ErrnosAssumption DEF LeftErrnos
<1>2. LibcFails(e, n) \in ErrStates /\ LibcFails(e, n).errno = n
  BY <1>1, LibcFailsKeeps
<1>3. CASE n \in DOMAIN ErrTable
  <2>1. CodeOf(n) = ErrTable[n].exterror /\ CodeOf(n) \in Codes
    BY <1>3, CodesKnown DEF CodeOf, Mapped
  <2>2. DosExterr(LibcFails(e, n)).info = ErrTable[n]
    BY <1>1, <1>2 DEF DosExterr, ErrStates
  <2> QED
    BY <2>1, <2>2 DEF ReportedCode
<1>4. CASE n \notin DOMAIN ErrTable
  BY <1>1, <1>4 DEF CodeOf, Mapped
<1> QED
  BY <1>3, <1>4

(* What _dosexterr reports, it and AH=59h report again.                    *)
LEMMA ReportTwice ==
  ASSUME NEW e \in ErrStates, e.info.exterror \in Codes, Mapped(e.errno)
  PROVE  /\ DosExterr(e) \in ErrStates
         /\ ReportedCode(e) \in Codes
         /\ ReportedCode(DosExterr(e)) = ReportedCode(e)
         /\ DosExterr(e).info.exterror = ReportedCode(e)
<1>1. CASE e.errno = "0"
  BY <1>1 DEF DosExterr, ReportedCode
<1>2. CASE e.errno # "0"
  <2>1. e.errno \in DOMAIN ErrTable /\ e.errno \in Errnos \cup {"EINVAL"}
    BY <1>2 DEF Mapped, ErrStates, LeftErrnos
  <2>2. ErrTable[e.errno] \in Infos /\ ErrTable[e.errno].exterror \in Codes
    BY <2>1, CodesKnown DEF Infos
  <2>3. /\ DosExterr(e) \in ErrStates
        /\ DosExterr(e).errno = e.errno
        /\ DosExterr(e).info = ErrTable[e.errno]
    BY <1>2, <2>2 DEF DosExterr, ErrStates
  <2>4. DosExterr(DosExterr(e)).info = ErrTable[e.errno]
    BY <1>2, <2>2, <2>3 DEF DosExterr, ErrStates
  <2> QED
    BY <2>2, <2>3, <2>4 DEF ReportedCode
<1> QED
  BY <1>1, <1>2

LEMMA ReportLibcReports ==
  ASSUME NEW e \in ErrStates, e.info.exterror \in Codes, NEW n \in LeftErrnos, Mapped(n)
  PROVE  /\ ReportLibc(e, n) \in ErrStates
         /\ ReportLibc(e, n).info.exterror \in Codes
         /\ ReportedCode(ReportLibc(e, n)) = ReportLibc(e, n).info.exterror
<1> DEFINE x == LibcFails(e, n)
<1>1. x \in ErrStates /\ x.info.exterror \in Codes /\ Mapped(x.errno)
  BY LibcFailsKeeps
<1> HIDE DEF x
<1>2. /\ DosExterr(x) \in ErrStates
      /\ DosExterr(x).info.exterror \in Codes
      /\ ReportedCode(DosExterr(x)) = DosExterr(x).info.exterror
  BY <1>1, ReportTwice
<1> QED
  BY <1>2 DEF ReportLibc, x

LEMMA ExterrSetReports ==
  ASSUME NEW e \in ErrStates, e.info.exterror \in Codes, NEW new \in Records, NEW n \in LeftErrnos
  PROVE  /\ ExterrSet(e, new, n) \in ErrStates
         /\ ExterrSet(e, new, n).errno = n
         /\ ExterrSet(e, new, n).info.exterror \in Codes
         /\ ExterrSet(e, new, n).info.exterror =
              IF new.exterror = "DONT_CHANGE" THEN e.info.exterror ELSE new.exterror
         /\ n = "0" => ReportedCode(ExterrSet(e, new, n)) = ExterrSet(e, new, n).info.exterror
<1> DEFINE x == ExterrSet(e, new, n)
<1>1. /\ x \in ErrStates
      /\ x.errno = n
      /\ x.info.exterror = IF new.exterror = "DONT_CHANGE" THEN e.info.exterror ELSE new.exterror
  BY DEF ExterrSet, ErrStates, Records, Infos
<1>2. x.info.exterror \in Codes
  BY <1>1 DEF Records
<1>3. n = "0" => DosExterr(x) = x
  BY <1>1 DEF DosExterr
<1> HIDE DEF x
<1>4. n = "0" => ReportedCode(x) = x.info.exterror
  BY <1>3 DEF ReportedCode
<1> QED
  BY <1>1, <1>2, <1>4 DEF x

-----------------------------------------------------------------------------
(* The invariant.                                                          *)

(* In a frame there is one handler, or the library's called by the hook.   *)
(* While the library runs, AX is the caller's and no code was given; and   *)
(* then and afterwards, flag, AX and code go together.                     *)
FrameInv(f, done) ==
  /\ Len(f.run) \in 0..2
  /\ Len(f.run) = 2 => f.run[1] = "hook" /\ f.run[2] # "hook"
  /\ f.ax.by = "caller" => f.code = "NO_ERROR"
  /\ f.run # <<>> /\ f.run[Len(f.run)] # "hook" => f.ax.by = "caller" /\ ~ f.answered
  /\ f.clear /\ ~ f.answered => /\ f.cf = 1 <=> f.code # "NO_ERROR"
                                /\ f.cf = 1 => f.ax = ErrorCode(f.code)
  /\ "carry" \notin done => (f.cf = 1 => f.ax.by = "error")

FramesInv == \A i \in DOMAIN frames : FrameInv(frames[i], careless)

ErrInv == err \in ErrStates /\ LastErrorReported
DoserrnoInv == "carry" \notin careless => doserrno = "code"

IInv == TypeOK /\ ErrInv /\ FramesInv /\ DoserrnoInv

LEMMA InitIInv == Init => IInv
<1> SUFFICES ASSUME Init PROVE IInv
  OBVIOUS
<1>1. NoError \in Records /\ NoError.exterror = "NO_ERROR"
  BY CodesKnown DEF NoError, Err, Records, ErrClasses, ErrActions, ErrLocuses
<1>2. err \in ErrStates /\ err.errno = "0" /\ err.info.exterror = "NO_ERROR"
  BY <1>1 DEF Init, ErrInit, ErrStates, Infos, LeftErrnos
<1>3. ReportedCode(err) = "NO_ERROR"
  BY <1>2 DEF ReportedCode, DosExterr
<1>4. vect \in [Vectors -> Handlers]
  BY DEF Init, Vectors, Original, Handlers
<1>5. frames = <<>> /\ frames \in Seq(Frames) /\ Len(frames) = 0
  BY DEF Init
<1>6. TypeOK
  BY <1>2, <1>4, <1>5, CodesKnown, DepthAssumption DEF Init, TypeOK, LeftErrnos
<1>7. FramesInv
  BY <1>5 DEF FramesInv
<1> QED
  BY <1>2, <1>3, <1>6, <1>7 DEF Init, IInv, ErrInv, DoserrnoInv, LastErrorReported

(* The innermost frame.                                                    *)
LEMMA TopIsFrame ==
  ASSUME IInv, frames # <<>>
  PROVE  /\ Len(frames) \in 1..MaxDepth /\ Len(frames) \in DOMAIN frames
         /\ Top \in Frames /\ FrameInv(Top, careless)
<1>1. frames \in Seq(Frames) /\ Len(frames) <= MaxDepth /\ MaxDepth \in Nat
  BY DepthAssumption DEF IInv, TypeOK
<1>2. Len(frames) \in 1..MaxDepth /\ Len(frames) \in DOMAIN frames
  BY <1>1, EmptySeq
<1> QED
  BY <1>1, <1>2 DEF Top, IInv, FramesInv

-----------------------------------------------------------------------------
(* What the kinds of step do to it.                                        *)

LEMMA Stopping ==
  ASSUME IInv, NEW end \in Ends, Stops(end), err' \in ErrStates, err'.info.exterror \in Codes,
         careless \subseteq careless', careless' \subseteq { "vector", "carry" }
  PROVE  IInv'
<1>1. /\ pc' = end /\ frames' = <<>>
      /\ UNCHANGED <<vect, doserrno, last>>
  BY DEF Stops
<1>2. end # "run"
  BY DEF Ends
<1>3. frames' \in Seq(Frames) /\ Len(frames') <= MaxDepth
  BY <1>1, DepthAssumption
<1>4. TypeOK'
  BY <1>1, <1>3 DEF IInv, TypeOK, ErrStates
<1>5. FramesInv'
  BY <1>1 DEF FramesInv
<1>6. ErrInv'
  BY <1>1, <1>2 DEF ErrInv, LastErrorReported
<1>7. DoserrnoInv'
  BY <1>1 DEF IInv, DoserrnoInv
<1> QED
  BY <1>4, <1>5, <1>6, <1>7 DEF IInv

(* A step outside the frames.                                              *)
LEMMA FramesKept ==
  ASSUME FramesInv, UNCHANGED <<frames, careless>>
  PROVE  FramesInv'
  BY DEF FramesInv, FrameInv

(* A step of the innermost frame only.                                     *)
LEMMA TopChanged ==
  ASSUME IInv, frames # <<>>, NEW g \in Frames,
         frames' = [frames EXCEPT ![Len(frames)] = g],
         FrameInv(g, careless'), careless \subseteq careless'
  PROVE  frames' \in Seq(Frames) /\ Len(frames') <= MaxDepth /\ FramesInv'
<1>1. frames \in Seq(Frames) /\ Len(frames) <= MaxDepth /\ Len(frames) \in DOMAIN frames
  BY TopIsFrame DEF IInv, TypeOK
<1>2. /\ frames' \in Seq(Frames) /\ Len(frames') <= MaxDepth
      /\ DOMAIN frames' = DOMAIN frames
      /\ \A i \in DOMAIN frames : frames'[i] = IF i = Len(frames) THEN g ELSE frames[i]
  BY <1>1
<1>3. \A i \in DOMAIN frames : FrameInv(frames[i], careless)
  BY DEF IInv, FramesInv
<1>4. ASSUME NEW i \in DOMAIN frames' PROVE FrameInv(frames'[i], careless')
  <2>1. CASE i = Len(frames)
    BY <1>2, <2>1
  <2>2. CASE i # Len(frames)
    BY <1>2, <1>3, <2>2 DEF FrameInv
  <2> QED
    BY <2>1, <2>2
<1> QED
  BY <1>2, <1>4 DEF FramesInv

(* Taking the last handler off.                                            *)
LEMMA HandlerDone ==
  ASSUME NEW f \in Frames, NEW done, FrameInv(f, done), f.run # <<>>
  PROVE  /\ Front(f.run) \in Seq(Handlers \ {"null"})
         /\ Len(Front(f.run)) \in 0..1
         /\ Front(f.run) # <<>> => Front(f.run)[Len(Front(f.run))] = "hook"
<1>1. f.run \in Seq(Handlers \ {"null"}) /\ Len(f.run) \in 1..2
  BY EmptySeq DEF FrameInv, Frames
<1>2. /\ Front(f.run) \in Seq(Handlers \ {"null"})
      /\ Len(Front(f.run)) = Len(f.run) - 1
      /\ Len(f.run) = 2 => Front(f.run)[1] = f.run[1]
  BY <1>1 DEF Front
<1>3. Front(f.run) # <<>> => Len(Front(f.run)) = 1 /\ Len(f.run) = 2
  BY <1>1, <1>2, EmptySeq
<1> QED
  BY <1>1, <1>2, <1>3 DEF FrameInv

LEMMA FrameAnswered ==
  ASSUME NEW f \in Frames, NEW run \in Seq(Handlers \ {"null"}),
         NEW ax \in AXs, NEW cf \in 0..1, NEW code \in Codes,
         NEW g, g = Answered(f, ax, cf, code), Front(f.run) = run
  PROVE  /\ g \in Frames
         /\ g.run = run /\ g.ax = ax /\ g.cf = cf /\ g.code = code
         /\ g.clear = f.clear /\ g.answered = f.answered
  BY DEF Frames, Answered

(* The library answers: with a code exactly if it sets the flag, when the  *)
(* flag came in clear.                                                     *)
LEMMA Answering ==
  ASSUME IInv, InLibrary, NEW ax \in AXs, NEW cf \in 0..1, NEW code \in Codes,
         ax.by = "caller" => code = "NO_ERROR",
         Top.cf = 0 => (cf = 1 <=> code # "NO_ERROR") /\ (cf = 1 => ax = ErrorCode(code)),
         Answer(ax, cf, code), UNCHANGED careless
  PROVE  frames' \in Seq(Frames) /\ Len(frames') <= MaxDepth /\ FramesInv'
<1>1. frames # <<>> /\ Top.run # <<>> /\ Top.run[Len(Top.run)] # "hook"
  BY DEF InLibrary, Running, Last
<1>2. Top \in Frames /\ FrameInv(Top, careless)
  BY <1>1, TopIsFrame
<1>3. Top.ax.by = "caller" /\ Top.code = "NO_ERROR" /\ Top.cf \in 0..1
  BY <1>1, <1>2 DEF FrameInv, Frames
<1>4. /\ Front(Top.run) \in Seq(Handlers \ {"null"})
      /\ Len(Front(Top.run)) \in 0..1
      /\ Front(Top.run) # <<>> => Front(Top.run)[Len(Front(Top.run))] = "hook"
  BY <1>1, <1>2, HandlerDone
<1>5. PICK g : g = Answered(Top, ax, cf, code)
  OBVIOUS
<1>6. /\ g \in Frames
      /\ g.run = Front(Top.run) /\ g.ax = ax /\ g.cf = cf /\ g.code = code
      /\ g.clear = Top.clear /\ g.answered = Top.answered
  BY <1>2, <1>4, <1>5, FrameAnswered
<1>7. frames' = [frames EXCEPT ![Len(frames)] = g]
  BY <1>5 DEF Answer, Becomes
<1>8. ErrorCode(code).by = "error"
  BY DEF ErrorCode
<1>9. /\ Top.clear /\ ~ Top.answered => Top.cf = 0
      /\ "carry" \notin careless => Top.cf = 0
  BY <1>2, <1>3 DEF FrameInv
<1>10. FrameInv(g, careless')
  BY <1>4, <1>6, <1>8, <1>9 DEF FrameInv
<1> QED
  BY <1>1, <1>6, <1>7, <1>10, TopChanged

-----------------------------------------------------------------------------
(* Every step keeps it.                                                    *)

LEMMA ErrKept ==
  ASSUME IInv, UNCHANGED <<err, last, pc>>
  PROVE  ErrInv'
  BY DEF IInv, ErrInv, LastErrorReported

LEMMA ErrTyped ==
  ASSUME IInv
  PROVE  err \in ErrStates /\ err.info.exterror \in Codes /\ err.errno \in LeftErrnos
  BY DEF IInv, ErrInv, TypeOK

(* What is left of TypeOK with frames, error state and last dealt with.    *)
LEMMA Typed ==
  ASSUME IInv, err' \in ErrStates, err'.info.exterror \in Codes,
         frames' \in Seq(Frames), Len(frames') <= MaxDepth,
         last' \in Codes \cup {"unknown"}, doserrno' \in {"code", "other"},
         vect' \in [Vectors -> Handlers], careless' \subseteq { "vector", "carry" }, UNCHANGED pc
  PROVE  TypeOK'
  BY DEF IInv, TypeOK, ErrStates

LEMMA SetVectKeeps ==
  ASSUME IInv, NEW n \in Interrupts, NEW h \in Handlers, MaySet(n, h), ~ SetAborts(n, h),
         vect' = [vect EXCEPT ![n] = h]
  PROVE  vect' \in [Vectors -> Handlers]
  BY DEF IInv, TypeOK

(* Interrupts raised, and a handler returning from the last of them.       *)
LEMMA RaiseStep ==
  ASSUME IInv, NEW n \in Vectors, NEW request \in Requests, NEW cf \in 0..1, Raise(n, request, cf)
  PROVE  IInv'
<1> DEFINE f == Frame(request, vect[n], cf)
<1>1. /\ vect[n] \in Handlers \ {"null"}
      /\ frames \in Seq(Frames) /\ Len(frames) < MaxDepth /\ MaxDepth \in Nat
      /\ careless \subseteq { "vector", "carry" }
  BY DepthAssumption DEF Raise, IInv, TypeOK
<1>2. /\ frames' = Append(frames, f)
      /\ careless' = IF cf = 1 THEN careless \cup {"carry"} ELSE careless
      /\ UNCHANGED <<vect, err, doserrno, pc, last>>
  BY DEF Raise
<1>3. FromCaller \in AXs /\ FromCaller.by = "caller"
  BY CodesKnown DEF FromCaller, AXs
<1>4. /\ f \in Frames
      /\ f.run = <<vect[n]>> /\ f.ax = FromCaller /\ f.cf = cf
      /\ f.clear <=> cf = 0
      /\ ~ f.answered /\ f.code = "NO_ERROR"
  <2>1. PICK clear \in BOOLEAN : clear = (cf = 0)
    BY Zenon
  <2>2. f = [request |-> request, run |-> <<vect[n]>>, ax |-> FromCaller, cf |-> cf,
             clear |-> clear, answered |-> FALSE, code |-> "NO_ERROR"]
    BY <2>1, Zenon DEF Frame
  <2>3. clear <=> cf = 0
    BY <2>1, Zenon
  <2> HIDE DEF f
  <2> QED
    BY <1>1, <1>3, <2>2, <2>3, CodesKnown DEF Frames
<1>5. FrameInv(f, careless')
  <2>1. Len(f.run) = 1
    BY <1>4
  <2> HIDE DEF f
  <2>2. f.clear /\ ~ f.answered =>
          /\ f.cf = 1 <=> f.code # "NO_ERROR"
          /\ f.cf = 1 => f.ax = ErrorCode(f.code)
    BY <1>4
  <2>3. "carry" \notin careless' => f.cf # 1
    BY <1>2, <1>4
  <2> QED
    BY <1>3, <1>4, <2>1, <2>2, <2>3 DEF FrameInv
<1> HIDE DEF f
<1>6. /\ frames' \in Seq(Frames) /\ Len(frames') <= MaxDepth
      /\ \A i \in DOMAIN frames' : frames'[i] = f \/ (i \in DOMAIN frames /\ frames'[i] = frames[i])
  BY <1>1, <1>2, <1>4
<1>7. \A i \in DOMAIN frames : FrameInv(frames[i], careless')
  BY <1>2 DEF IInv, FramesInv, FrameInv
<1>8. FramesInv'
  BY <1>5, <1>6, <1>7 DEF FramesInv
<1>9. TypeOK'
  BY <1>1, <1>2, <1>6, ErrTyped, Typed DEF IInv, TypeOK
<1> QED
  BY <1>2, <1>8, <1>9, ErrKept DEF IInv, DoserrnoInv

LEMMA ReturnStep ==
  ASSUME IInv, Return
  PROVE  IInv'
<1>1. /\ frames # <<>> /\ frames' = Front(frames)
      /\ doserrno' = doserrno \/ (Top.cf = 1 /\ doserrno' = KindOf(Top.ax))
      /\ UNCHANGED <<vect, err, pc, last, careless>>
  BY DEF Return
<1>2. frames \in Seq(Frames) /\ Len(frames) \in 1..MaxDepth /\ MaxDepth \in Nat
  BY <1>1, TopIsFrame, DepthAssumption DEF IInv, TypeOK
<1>3. /\ frames' \in Seq(Frames) /\ Len(frames') <= MaxDepth
      /\ \A i \in DOMAIN frames' : i \in DOMAIN frames /\ frames'[i] = frames[i]
  BY <1>1, <1>2 DEF Front
<1>4. FramesInv'
  BY <1>1, <1>3 DEF IInv, FramesInv
<1>5. FrameInv(Top, careless)
  BY <1>1, TopIsFrame
<1>6. doserrno' \in {"code", "other"} /\ DoserrnoInv'
  BY <1>1, <1>5 DEF IInv, TypeOK, DoserrnoInv, KindOf, FrameInv
<1>7. TypeOK'
  BY <1>1, <1>3, <1>6, ErrTyped, Typed DEF IInv, TypeOK
<1> QED
  BY <1>1, <1>4, <1>6, <1>7, ErrKept DEF IInv

(* The hook.                                                               *)
LEMMA HookFrames ==
  ASSUME NEW f \in Frames, NEW done, FrameInv(f, done), f.run # <<>>,
         f.run[Len(f.run)] = "hook"
  PROVE  /\ HookReturned(f) \in Frames /\ FrameInv(HookReturned(f), done)
         /\ f.ax.by = "caller" /\ ~ f.answered =>
              HookChained(f) \in Frames /\ FrameInv(HookChained(f), done)
         /\ \A cf \in 0..1, after \in SUBSET { "vector", "carry" } :
              f.ax.by = "caller" /\ (cf = 1 => "carry" \in after) =>
                HookAnswered(f, cf) \in Frames /\ FrameInv(HookAnswered(f, cf), after)
<1>1. f.run \in Seq(Handlers \ {"null"}) /\ Len(f.run) = 1 /\ f.run[1] = "hook"
  <2>1. f.run \in Seq(Handlers \ {"null"}) /\ Len(f.run) \in 1..2
    BY EmptySeq DEF FrameInv, Frames
  <2> QED
    BY <2>1 DEF FrameInv
<1>2. /\ HookReturned(f) \in Frames
      /\ HookReturned(f).run = <<>>
      /\ HookReturned(f).ax = f.ax /\ HookReturned(f).cf = f.cf /\ HookReturned(f).code = f.code
      /\ HookReturned(f).clear = f.clear /\ HookReturned(f).answered = f.answered
  <2>1. Front(f.run) = <<>> /\ Front(f.run) \in Seq(Handlers \ {"null"})
    BY <1>1 DEF Front
  <2> QED
    BY <2>1 DEF HookReturned, Frames
<1>3. FrameInv(HookReturned(f), done)
  BY <1>2 DEF FrameInv
<1>4. ASSUME f.ax.by = "caller", ~ f.answered
      PROVE  HookChained(f) \in Frames /\ FrameInv(HookChained(f), done)
  <2> DEFINE g == HookChained(f)
             run == Append(f.run, "dos")
  <2>1. run \in Seq(Handlers \ {"null"}) /\ Len(run) = 2 /\ run[1] = "hook" /\ run[2] = "dos"
    BY <1>1 DEF Handlers
  <2> HIDE DEF run
  <2>2. /\ g \in Frames
        /\ g.run = run /\ g.ax = f.ax /\ g.cf = f.cf /\ g.code = f.code
        /\ g.clear = f.clear /\ g.answered = f.answered
    BY <2>1 DEF HookChained, Frames, run
  <2> HIDE DEF g
  <2>3. FrameInv(g, done)
    BY <1>4, <2>1, <2>2 DEF FrameInv
  <2> QED
    BY <2>2, <2>3 DEF g
<1>5. ASSUME f.ax.by = "caller", NEW cf \in 0..1, NEW after \in SUBSET { "vector", "carry" },
             cf = 1 => "carry" \in after
      PROVE  HookAnswered(f, cf) \in Frames /\ FrameInv(HookAnswered(f, cf), after)
  <2> DEFINE g == HookAnswered(f, cf)
  <2>1. Result \in AXs /\ Result.by = "service"
    BY CodesKnown DEF Result, AXs
  <2>2. /\ g \in Frames
        /\ g.run = f.run /\ g.ax = Result /\ g.cf = cf /\ g.code = f.code
        /\ g.clear = f.clear /\ g.answered = TRUE
    BY <2>1 DEF HookAnswered, Frames
  <2> HIDE DEF g
  <2>3. FrameInv(g, after)
    BY <1>1, <1>5, <2>1, <2>2 DEF FrameInv
  <2> QED
    BY <2>2, <2>3 DEF g
<1> QED
  BY <1>2, <1>3, <1>4, <1>5

LEMMA HookStep ==
  ASSUME IInv, HookChains \/ HookReturns \/ \E cf \in 0..1 : HookAnswers(cf)
  PROVE  IInv'
<1>1. /\ frames # <<>> /\ Top.run # <<>> /\ Top.run[Len(Top.run)] = "hook"
      /\ UNCHANGED <<vect, err, doserrno, pc, last>>
      /\ careless \subseteq careless' /\ careless' \subseteq { "vector", "carry" }
  BY DEF HookChains, HookReturns, HookAnswers, Running, Last, IInv, TypeOK
<1>2. Top \in Frames /\ FrameInv(Top, careless)
  BY <1>1, TopIsFrame
<1>3. PICK g \in Frames : FrameInv(g, careless') /\ frames' = [frames EXCEPT ![Len(frames)] = g]
  <2>1. CASE HookChains
    <3>1. Top.ax.by = "caller" /\ ~ Top.answered /\ careless' = careless
      BY <2>1 DEF HookChains, Undecided
    <3>2. HookChained(Top) \in Frames /\ FrameInv(HookChained(Top), careless')
      BY <1>1, <1>2, <3>1, HookFrames
    <3> QED
      BY <2>1, <3>2 DEF HookChains, Becomes
  <2>2. CASE HookReturns
    <3>1. HookReturned(Top) \in Frames /\ FrameInv(HookReturned(Top), careless)
      BY <1>1, <1>2, HookFrames
    <3> QED
      BY <2>2, <3>1 DEF HookReturns, Becomes
  <2>3. ASSUME NEW cf \in 0..1, HookAnswers(cf)
        PROVE  \E g \in Frames :
                 FrameInv(g, careless') /\ frames' = [frames EXCEPT ![Len(frames)] = g]
    <3>1. Top.ax.by = "caller" /\ (cf = 1 => "carry" \in careless')
      BY <2>3 DEF HookAnswers, Undecided
    <3>2. HookAnswered(Top, cf) \in Frames /\ FrameInv(HookAnswered(Top, cf), careless')
      BY <1>1, <1>2, <3>1, HookFrames
    <3> QED
      BY <2>3, <3>2 DEF HookAnswers, Becomes
  <2> QED
    BY <2>1, <2>2, <2>3
<1>4. frames' \in Seq(Frames) /\ Len(frames') <= MaxDepth /\ FramesInv'
  BY <1>1, <1>3, TopChanged
<1>5. TypeOK'
  BY <1>1, <1>4, ErrTyped, Typed DEF IInv, TypeOK
<1>6. DoserrnoInv'
  BY <1>1 DEF IInv, DoserrnoInv
<1> QED
  BY <1>1, <1>4, <1>5, <1>6, ErrKept DEF IInv

(* The program's other steps.                                              *)
LEMMA EachStop ==
  ASSUME IInv,
         \/ \E n \in Vectors : RaiseUnhandled(n)
         \/ \E n \in Interrupts, h \in Handlers : SetVectAborts(n, h)
         \/ GetVectAborts \/ RaiseAborts \/ ServeVectAborts \/ ExterrAborts \/ Unserved
  PROVE  IInv'
<1>1. PICK end \in Ends : Stops(end)
  BY DEF RaiseUnhandled, SetVectAborts, GetVectAborts, RaiseAborts, ServeVectAborts, ExterrAborts,
         Unserved, Ends
<1>2. err' = err /\ careless' \in { careless, careless \cup {"vector"} }
  BY DEF RaiseUnhandled, SetVectAborts, GetVectAborts, RaiseAborts, ServeVectAborts, ExterrAborts,
         Unserved, Careless
<1>3. careless \subseteq { "vector", "carry" }
  BY DEF IInv, TypeOK
<1> QED
  BY <1>1, <1>2, <1>3, ErrTyped, Stopping

LEMMA SetVectStep ==
  ASSUME IInv, NEW n \in Interrupts, NEW h \in Handlers, SetVect(n, h)
  PROVE  IInv'
<1>1. vect' \in [Vectors -> Handlers] /\ UNCHANGED <<err, doserrno, frames, pc, last, careless>>
  BY SetVectKeeps DEF SetVect
<1>2. TypeOK'
  BY <1>1, ErrTyped, Typed DEF IInv, TypeOK
<1> QED
  BY <1>1, <1>2, ErrKept, FramesKept DEF IInv, DoserrnoInv

LEMMA ReportsKeeps ==
  ASSUME IInv, Reports
  PROVE  err' \in ErrStates /\ err'.info.exterror \in Codes /\ last' \in Codes /\ ErrInv'
<1>1. Mapped(err.errno) /\ err' = DosExterr(err) /\ last' = ReportedCode(err)
  BY DEF Reports
<1>2. /\ err' \in ErrStates /\ err'.info.exterror \in Codes /\ last' \in Codes
      /\ ReportedCode(err') = last'
  BY <1>1, ErrTyped, ReportTwice
<1> QED
  BY <1>2 DEF ErrInv, LastErrorReported

LEMMA CallDosexterrStep ==
  ASSUME IInv, CallDosexterr
  PROVE  IInv'
<1>1. Reports /\ UNCHANGED <<vect, doserrno, pc, careless, frames>>
  BY DEF CallDosexterr, Reports
<1>2. TypeOK'
  BY <1>1, ReportsKeeps, Typed DEF IInv, TypeOK
<1> QED
  BY <1>1, <1>2, ReportsKeeps, FramesKept DEF IInv, DoserrnoInv

LEMMA ProgramFailsStep ==
  ASSUME IInv, NEW e \in Errnos, ProgramFails(e)
  PROVE  IInv'
<1>1. /\ err' = LibcFails(err, e) /\ last' = CodeOf(e)
      /\ UNCHANGED <<vect, doserrno, frames, pc, careless>>
  BY DEF ProgramFails
<1>2. err' \in ErrStates /\ err'.info.exterror \in Codes
  BY <1>1, ErrTyped, LibcFailsKeeps DEF LeftErrnos
<1>3. /\ last' \in Codes \cup {"unknown"}
      /\ last' # "unknown" => ReportedCode(err') = last'
  BY <1>1, ErrTyped, LibcFailsReported
<1>4. TypeOK'
  BY <1>1, <1>2, <1>3, Typed DEF IInv, TypeOK
<1>5. ErrInv'
  BY <1>2, <1>3 DEF ErrInv, LastErrorReported
<1> QED
  BY <1>1, <1>4, <1>5, FramesKept DEF IInv, DoserrnoInv

(* The library's: a service answers, and leaves the error state so.        *)
LEMMA ServiceStep ==
  ASSUME IInv, InLibrary, NEW ax \in AXs, NEW cf \in 0..1, NEW code \in Codes,
         ax.by = "caller" => code = "NO_ERROR",
         Top.cf = 0 => (cf = 1 <=> code # "NO_ERROR") /\ (cf = 1 => ax = ErrorCode(code)),
         Answer(ax, cf, code), UNCHANGED <<pc, careless>>,
         err'.info.exterror \in Codes, last' \in Codes \cup {"unknown"}, ErrInv',
         doserrno' \in {doserrno, "code"}, vect' \in [Vectors -> Handlers]
  PROVE  IInv'
<1>1. frames' \in Seq(Frames) /\ Len(frames') <= MaxDepth /\ FramesInv'
  BY Answering
<1>2. TypeOK'
  BY <1>1, Typed DEF IInv, TypeOK, ErrInv
<1>3. DoserrnoInv'
  BY DEF IInv, DoserrnoInv
<1> QED
  BY <1>1, <1>2, <1>3 DEF IInv

(* What it finds in the frame.                                             *)
LEMMA TopTyped ==
  ASSUME IInv, InLibrary
  PROVE  /\ Top.ax \in AXs /\ Top.cf \in 0..1
         /\ Result \in AXs /\ Result.by = "service"
         /\ \A code \in Codes : ErrorCode(code) \in AXs /\ ErrorCode(code).by = "error"
<1>1. frames # <<>>
  BY DEF InLibrary, Running
<1>2. Top \in Frames
  BY <1>1, TopIsFrame
<1>3. Top.ax \in AXs /\ Top.cf \in 0..1
  BY <1>2 DEF Frames
<1> QED
  BY <1>3, CodesKnown DEF Result, ErrorCode, AXs

LEMMA SucceedsStep ==
  ASSUME IInv, NEW service, Succeeds(service)
  PROVE  IInv'
<1>1. /\ InLibrary
      /\ Answer(Result, Carry(service, "NO_ERROR"), "NO_ERROR")
      /\ \/ UNCHANGED <<err, last>>
         \/ \E e \in Errnos : err' = LibcFails(err, e) /\ last' = CodeOf(e)
      /\ UNCHANGED <<vect, doserrno, pc, careless>>
  BY DEF Succeeds, Serves
<1>2. /\ err' \in ErrStates /\ err'.info.exterror \in Codes
      /\ last' \in Codes \cup {"unknown"}
      /\ ErrInv'
  <2>1. CASE UNCHANGED <<err, last>>
    BY <1>1, <2>1, ErrKept, ErrTyped DEF IInv, TypeOK
  <2>2. ASSUME NEW e \in Errnos, err' = LibcFails(err, e), last' = CodeOf(e)
        PROVE  /\ err' \in ErrStates /\ err'.info.exterror \in Codes
               /\ last' \in Codes \cup {"unknown"}
               /\ ErrInv'
    <3>1. err' \in ErrStates /\ err'.info.exterror \in Codes
      BY <2>2, ErrTyped, LibcFailsKeeps DEF LeftErrnos
    <3>2. /\ last' \in Codes \cup {"unknown"}
          /\ last' # "unknown" => ReportedCode(err') = last'
      BY <2>2, ErrTyped, LibcFailsReported
    <3> QED
      BY <3>1, <3>2 DEF ErrInv, LastErrorReported
  <2> QED
    BY <1>1, <2>1, <2>2
<1>3. /\ Carry(service, "NO_ERROR") \in 0..1
      /\ Top.cf = 0 => Carry(service, "NO_ERROR") # 1
  BY <1>1, TopTyped DEF Carry, FlagsOf
<1>4. vect' \in [Vectors -> Handlers]
  BY <1>1 DEF IInv, TypeOK
<1> QED
  BY <1>1, <1>2, <1>3, <1>4, TopTyped, CodesKnown, ServiceStep

LEMMA FailsStep ==
  ASSUME IInv, NEW service, InLibrary, NEW code \in Codes, Fails(service, code),
         err'.info.exterror \in Codes, last' \in Codes \cup {"unknown"}, ErrInv',
         doserrno' \in {doserrno, "code"}
  PROVE  IInv'
<1>1. UNCHANGED <<vect, pc, careless>> /\ vect' \in [Vectors -> Handlers]
  BY DEF Fails, IInv, TypeOK
<1>2. CASE service \in Flagged
  <2>1. Answer(ErrorCode(code), FlagsOf(code), code)
    BY <1>2 DEF Fails, Carry
  <2>2. FlagsOf(code) \in 0..1 /\ (FlagsOf(code) = 1 <=> code # "NO_ERROR")
    BY DEF FlagsOf
  <2>3. ErrorCode(code) \in AXs /\ ErrorCode(code).by = "error"
    BY TopTyped
  <2> QED
    BY <1>1, <2>1, <2>2, <2>3, ServiceStep
<1>3. CASE service \notin Flagged
  <2>1. Answer(Result, Top.cf, "NO_ERROR")
    BY <1>3 DEF Fails, Carry
  <2> QED
    BY <1>1, <2>1, TopTyped, CodesKnown, ServiceStep
<1> QED
  BY <1>2, <1>3

LEMMA FailsInLibcStep ==
  ASSUME IInv, NEW service, NEW e \in Errnos, FailsInLibc(service, e)
  PROVE  IInv'
<1>1. /\ InLibrary /\ Mapped(e)
      /\ err' = ReportLibc(err, e)
      /\ Fails(service, err'.info.exterror)
      /\ last' = err'.info.exterror
      /\ doserrno' = doserrno
  BY DEF FailsInLibc, Serves
<1>2. /\ err' \in ErrStates /\ err'.info.exterror \in Codes
      /\ ReportedCode(err') = err'.info.exterror
  BY <1>1, ErrTyped, ReportLibcReports DEF LeftErrnos
<1>3. ErrInv'
  BY <1>1, <1>2 DEF ErrInv, LastErrorReported
<1> QED
  BY <1>1, <1>2, <1>3, FailsStep

LEMMA FailsUnmappedStep ==
  ASSUME IInv, NEW service, NEW e \in Errnos, FailsUnmapped(service, e)
  PROVE  IInv'
<1>1. err' = LibcFails(err, e) /\ Stops("aborted") /\ careless' = careless
  BY DEF FailsUnmapped
<1>2. err' \in ErrStates /\ err'.info.exterror \in Codes
  BY <1>1, ErrTyped, LibcFailsKeeps DEF LeftErrnos
<1>3. "aborted" \in Ends /\ careless \subseteq { "vector", "carry" }
  BY DEF Ends, IInv, TypeOK
<1> QED
  BY <1>1, <1>2, <1>3, Stopping

LEMMA FailsItselfStep ==
  ASSUME IInv, NEW service \in DOMAIN OwnErrors, NEW error \in OwnErrors[service],
         FailsItself(service, error)
  PROVE  IInv'
<1>1. /\ InLibrary
      /\ err' = ExterrSet(err, error[1], error[2])
      /\ doserrno' = "code"
      /\ Fails(service, err'.info.exterror)
      /\ last' = IF service = "freemem" THEN "unknown" ELSE error[1].exterror
  BY DEF FailsItself, Serves
<1>2. /\ error[1] \in Records /\ error[2] \in LeftErrnos
      /\ error[1].exterror # "DONT_CHANGE" /\ error[1].exterror \in Codes
  BY OwnErrorsWhole, CodesKnown DEF LeftErrnos
<1>3. /\ err' \in ErrStates /\ err'.info.exterror = error[1].exterror
      /\ err'.errno = error[2]
      /\ error[2] = "0" => ReportedCode(err') = error[1].exterror
  BY <1>1, <1>2, ErrTyped, ExterrSetReports
<1>4. service # "freemem" => ReportedCode(err') = error[1].exterror
  <2>1. CASE error[2] = "0"
    BY <1>3, <2>1
  <2>2. CASE error[2] = "EINVAL" /\ service # "freemem"
    <3>1. error[1] = BadArguments
      BY <2>2, OwnErrorsWhole
    <3>2. DosExterr(err').info = ErrTable["EINVAL"]
      BY <1>3, <2>2, EinvalAssumption DEF DosExterr, ErrStates
    <3> QED
      BY <3>1, <3>2, EinvalAssumption DEF ReportedCode
  <2> QED
    BY <2>1, <2>2, OwnErrorsWhole
<1>5. ErrInv'
  BY <1>1, <1>3, <1>4 DEF ErrInv, LastErrorReported
<1>6. last' \in Codes \cup {"unknown"}
  BY <1>1, <1>2
<1> QED
  BY <1>1, <1>2, <1>3, <1>5, <1>6, FailsStep

LEMMA VectServicesStep ==
  ASSUME IInv, ServeGetVect \/ \E n \in Vectors, h \in Handlers : ServeSetVect(n, h)
  PROVE  IInv'
<1>1. /\ InLibrary
      /\ Answer(Top.ax, Top.cf, "NO_ERROR")
      /\ UNCHANGED <<err, doserrno, pc, last, careless>>
  BY DEF ServeGetVect, ServeSetVect, Serves
<1>2. vect' \in [Vectors -> Handlers]
  BY DEF ServeGetVect, ServeSetVect, IInv, TypeOK
<1>3. ErrInv' /\ err'.info.exterror \in Codes /\ last' \in Codes \cup {"unknown"}
  BY <1>1, ErrKept, ErrTyped DEF IInv, TypeOK
<1> QED
  BY <1>1, <1>2, <1>3, TopTyped, CodesKnown, ServiceStep

LEMMA ServeExterrStep ==
  ASSUME IInv, ServeExterr
  PROVE  IInv'
<1>1. /\ InLibrary /\ Reports
      /\ Answer(ErrorCode(ReportedCode(err)), Top.cf, "NO_ERROR")
      /\ UNCHANGED <<vect, doserrno, pc, careless>>
  BY DEF ServeExterr, Serves, Reports
<1>2. ReportedCode(err) \in Codes /\ last' \in Codes /\ err'.info.exterror \in Codes /\ ErrInv'
  BY <1>1, ReportsKeeps DEF Reports
<1>3. ErrorCode(ReportedCode(err)) \in AXs /\ ErrorCode(ReportedCode(err)).by = "error"
  BY <1>1, <1>2, TopTyped
<1>4. vect' \in [Vectors -> Handlers]
  BY <1>1 DEF IInv, TypeOK
<1> QED
  BY <1>1, <1>2, <1>3, <1>4, TopTyped, CodesKnown, ServiceStep

LEMMA ServeExterrSetStep ==
  ASSUME IInv, NEW new \in NewRecords, ServeExterrSet(new)
  PROVE  IInv'
<1>1. /\ InLibrary
      /\ err' = ExterrSet(err, new, "0")
      /\ doserrno' = "code"
      /\ last' = IF new.exterror = "DONT_CHANGE" THEN err.info.exterror ELSE new.exterror
      /\ Answer(Top.ax, Top.cf, "NO_ERROR")
      /\ UNCHANGED <<vect, pc, careless>>
  BY DEF ServeExterrSet, Serves
<1>2. new \in Records /\ "0" \in LeftErrnos
  <2>1. new \in [exterror : STRING, errclass : STRING, action : STRING, locus : STRING]
    BY RecordsAssumption
  <2>2. new.exterror \in Codes \cup {"DONT_CHANGE"}
    BY CodesKnown
  <2> QED
    BY <2>1, <2>2 DEF Records, LeftErrnos
<1>3. /\ err'.info.exterror \in Codes /\ err' \in ErrStates
      /\ ReportedCode(err') = err'.info.exterror /\ last' = err'.info.exterror
  BY <1>1, <1>2, ErrTyped, ExterrSetReports
<1>4. ErrInv' /\ last' \in Codes
  BY <1>3 DEF ErrInv, LastErrorReported
<1>5. vect' \in [Vectors -> Handlers]
  BY <1>1 DEF IInv, TypeOK
<1> QED
  BY <1>1, <1>3, <1>4, <1>5, TopTyped, CodesKnown, ServiceStep

-----------------------------------------------------------------------------
LEMMA NextKeeps ==
  ASSUME IInv, Next
  PROVE  IInv'
<1>1. CASE Program
  BY <1>1, EachStop, RaiseStep, SetVectStep, CallDosexterrStep, ProgramFailsStep, HookStep
     DEF Program
<1>2. CASE Library
  BY <1>2, SucceedsStep, FailsInLibcStep, FailsUnmappedStep, FailsItselfStep, VectServicesStep,
     ServeExterrStep, EachStop, ServeExterrSetStep, ReturnStep DEF Library
<1> QED
  BY <1>1, <1>2 DEF Next

LEMMA StutterKeeps ==
  ASSUME IInv, UNCHANGED vars
  PROVE  IInv'
  BY DEF vars, IInv, TypeOK, ErrInv, LastErrorReported, FramesInv, FrameInv, DoserrnoInv

(* The inductive invariant: types, the error state and what it was last    *)
(* told, and flag, AX and code of every interrupt in progress.             *)
THEOREM Invariant == Spec => []IInv
<1>1. IInv /\ [Next]_vars => IInv'
  BY NextKeeps, StutterKeeps
<1> QED
  BY InitIInv, <1>1, PTL DEF Spec

(* The variables keep their types; no more than MaxDepth interrupts are in *)
(* progress and every code in a frame is one a service or the program gave.*)
THEOREM TypeCorrect == Spec => []TypeOK
<1>1. IInv => TypeOK
  BY DEF IInv
<1> QED
  BY <1>1, Invariant, PTL

(* The last error code given is the one _dosexterr and AH=59h report, for  *)
(* every program that makes any requests and fails in any calls.           *)
THEOREM LastReported == Spec => []LastErrorReported
<1>1. IInv => LastErrorReported
  BY DEF IInv, ErrInv
<1> QED
  BY <1>1, Invariant, PTL

(* A caller with a clear flag that the library answers finds it set        *)
(* exactly if the service failed, with the code in AX, however deep the    *)
(* interrupts and whatever the hook does.                                  *)
THEOREM FlagsTrue == Spec => []CarryTruthful
<1>1. IInv => CarryTruthful
  BY DEF IInv, FramesInv, FrameInv, DoserrnoInv, CarryTruthful
<1> QED
  BY <1>1, Invariant, PTL

-----------------------------------------------------------------------------
(* Stops that are not the program's doing.                                 *)

(* The library's services meet the requests they were written for.         *)
LEMMA NoAssertionFails ==
  ASSUME Service # "null"
  PROVE  AssertionHolds
<1> DEFINE d == IF Running = "dos" THEN DispatchOf21 ELSE DispatchOf2F
<1>1. Top.request \in DOMAIN d /\ Service = d[Top.request]
  BY Zenon DEF Service, Dispatch
<1>2. AssertedAH[d[Top.request]] = Top.request[1]
  BY <1>1, DispatchAssumption
<1> QED
  BY <1>1, <1>2, Zenon DEF AssertionHolds

LEMMA StopsForAReason ==
  ASSUME IInv, NoOtherStop, Next
  PROVE  NoOtherStop'
<1>1. CASE pc' = pc /\ pc = "run"
  BY <1>1 DEF NoOtherStop
<1>2. CASE \/ \E n \in Interrupts, h \in Handlers : SetVectAborts(n, h)
           \/ GetVectAborts \/ RaiseAborts \/ ServeVectAborts
  BY <1>2 DEF SetVectAborts, GetVectAborts, RaiseAborts, ServeVectAborts, Careless, NoOtherStop
<1>3. CASE \E n \in Vectors : RaiseUnhandled(n)
  BY <1>3 DEF RaiseUnhandled, Stops, NoOtherStop
<1>4. CASE ExterrAborts
  BY <1>4 DEF ExterrAborts, NoOtherStop
<1>5. CASE Unserved
  <2>1. Stops("unimplemented")
    BY <1>5, NoAssertionFails DEF Unserved
  <2> QED
    BY <2>1 DEF Stops, NoOtherStop
<1>6. ASSUME NEW service \in Reporting, NEW e \in Errnos, FailsUnmapped(service, e)
      PROVE  NoOtherStop'
  <2>1. err' = LibcFails(err, e) /\ ~ Mapped(e)
    BY <1>6 DEF FailsUnmapped
  <2>2. err'.errno = e
    BY <2>1, ErrTyped, LibcFailsKeeps DEF LeftErrnos
  <2> QED
    BY <2>1, <2>2 DEF NoOtherStop
<1>7. CASE Program
  <2>1. ASSUME \/ \E n \in Vectors, request \in Requests, cf \in 0..1 : Raise(n, request, cf)
               \/ \E n \in Interrupts, h \in Handlers : SetVect(n, h)
               \/ CallDosexterr \/ \E e \in Errnos : ProgramFails(e)
               \/ HookChains \/ HookReturns \/ \E cf \in 0..1 : HookAnswers(cf)
        PROVE  pc' = pc /\ pc = "run"
    BY <2>1 DEF Raise, SetVect, CallDosexterr, Reports, ProgramFails, HookChains, HookReturns,
                HookAnswers, InProgram
  <2> QED
    BY <1>1, <1>2, <1>3, <1>4, <1>7, <2>1 DEF Program
<1>8. CASE Library
  <2>1. ASSUME \/ \E service \in DOMAIN AssertedAH : Succeeds(service)
               \/ \E service \in Reporting, e \in Errnos : FailsInLibc(service, e)
               \/ \E service \in DOMAIN OwnErrors : \E error \in OwnErrors[service] :
                    FailsItself(service, error)
               \/ \E n \in Vectors, h \in Handlers : ServeSetVect(n, h)
               \/ ServeGetVect \/ ServeExterr \/ \E new \in NewRecords : ServeExterrSet(new)
               \/ Return
        PROVE  pc' = pc /\ pc = "run"
    BY <2>1 DEF Succeeds, FailsInLibc, FailsItself, Fails, ServeSetVect, ServeGetVect, ServeExterr,
                Reports, ServeExterrSet, Return, Serves, InLibrary
  <2> QED
    BY <1>1, <1>2, <1>4, <1>5, <1>6, <1>8, <2>1 DEF Library
<1> QED
  BY <1>7, <1>8 DEF Next

(* A failed assertion of these services has a null vector, INT FFh or an   *)
(* errno missing from the table behind it: no request reaches a service    *)
(* that was not written for it.                                            *)
THEOREM StopsExplained == Spec => []NoOtherStop
<1>1. Init => NoOtherStop
  BY DEF Init, NoOtherStop
<1>2. IInv /\ NoOtherStop /\ [Next]_vars => NoOtherStop'
  BY StopsForAReason DEF vars, NoOtherStop
<1> QED
  BY <1>1, <1>2, Invariant, PTL DEF Spec

=============================================================================
