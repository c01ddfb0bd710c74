--------------------------- MODULE DosFindProofs ---------------------------
(***************************************************************************)
(* Proofs about directory search (DosFind), for any number of DTAs, paths  *)
(* and kinds of path: the loop of findnext never reads outside the path    *)
(* vector, its assertion fails only after a failed _dos_findfirst, the     *)
(* current DTA is the program's own between calls, no path vector leaks,   *)
(* errors are reported, and the searches behave as FindSpec says.          *)
(***************************************************************************)
EXTENDS DosFind, TLAPS, FiniteSetTheorems, SequenceTheorems

(* A DTA with a vector counts it and has its index in or just past it; one *)
(* without has either counted none, or come to the end of what it had.     *)
Shape(f) ==
  IF f.pathv = NoVector
    THEN f.pathc = 0 \/ f.pathi = f.pathc
    ELSE f.pathc = Len(f.pathv) /\ f.pathi <= f.pathc

DtaShape == \A d \in Dtas : Shape(dta[d])

(* Between two system calls about an entry there is an entry.              *)
EntryHeld == call.pc \in {"access", "stat"} => More(cdta)

(* The program's DTA is current, or kept by the C call in progress.        *)
UserDtaKept ==
  IF ~ Idle /\ call.api = "C" THEN call.prev = userDta ELSE current_dta = userDta

IInv == FindTypeOK /\ DtaShape /\ EntryHeld /\ AbortsOnlyAfterFailedFindfirst /\ UserDtaKept

-----------------------------------------------------------------------------
LEMMA InitIInv == Init => IInv
<1> SUFFICES ASSUME Init PROVE IInv
  OBVIOUS
<1>1. call = IdleCall /\ current_dta = StaticDta /\ userDta = StaticDta /\ StaticDta \in Dtas
  BY DtaAssumption DEF Init
<1>2. \A d \in Dtas : dta[d] \in FindT /\ dta[d].pathv = NoVector /\ dta[d].pathc = 0
  <2> SUFFICES ASSUME NEW d \in Dtas
               PROVE  dta[d] \in FindT /\ dta[d].pathv = NoVector /\ dta[d].pathc = 0
    OBVIOUS
  <2>1. dta[d] \in [pathv : {NoVector}, pathc : {0}, pathi : {0, 1}, want : {{}}]
    BY DEF Init
  <2>2. NoVector \in Seq(Files) /\ {} \in SUBSET AttrBits
    BY DEF NoVector
  <2> QED
    BY <2>1, <2>2 DEF FindT
<1>3. dta \in [Dtas -> FindT]
  BY <1>2 DEF Init
<1>4. FindTypeOK
  <2>1. call \in [pc : Points, api : Apis, prev : Dtas, attrib : SUBSET AttrBits]
    BY <1>1 DEF IdleCall, Points, Apis
  <2>2. abandoned \in 0..MaxAbandoned
    BY BoundAssumption DEF Init
  <2> QED
    BY <1>1, <1>3, <2>1, <2>2 DEF Init, FindTypeOK, Outcomes, NoReturn, Apis
<1>5. DtaShape
  BY <1>2 DEF DtaShape, Shape
<1>6. call.pc = "idle"
  BY <1>1 DEF IdleCall
<1> QED
  BY <1>1, <1>4, <1>5, <1>6 DEF IInv, EntryHeld, AbortsOnlyAfterFailedFindfirst, UserDtaKept, Idle

-----------------------------------------------------------------------------
(* What the steps do to one DTA.                                           *)

LEMMA UpdateDta ==
  ASSUME NEW d \in Dtas, NEW f \in FindT, Shape(f),
         dta \in [Dtas -> FindT], DtaShape, dta' = [dta EXCEPT ![d] = f]
  PROVE  dta' \in [Dtas -> FindT] /\ DtaShape' /\ dta'[d] = f
  BY DEF DtaShape

LEMMA AdvanceType ==
  ASSUME NEW f \in FindT
  PROVE  Advance(f) \in FindT /\ Advance(f).pathi = f.pathi + 1
                              /\ Advance(f).pathv = f.pathv /\ Advance(f).pathc = f.pathc
  BY DEF Advance, FindT

LEMMA AdvanceShape ==
  ASSUME NEW f \in FindT, Shape(f), More(f)
  PROVE  Advance(f) \in FindT /\ Shape(Advance(f))
<1>1. f.pathi \in Nat /\ f.pathc \in Nat /\ f.pathv \in Seq(Files)
  BY DEF FindT
<1> QED
  BY <1>1, AdvanceType DEF Shape, More

(* A DTA in which glob failed has no vector and counts no match.           *)
LEMMA ResetShape ==
  ASSUME NEW f \in FindT
  PROVE  GlobReset(f) \in FindT /\ Shape(GlobReset(f))
<1>1. GlobReset(f) \in FindT /\ GlobReset(f).pathc = 0 /\ GlobReset(f).pathv = NoVector
  <2>1. NoVector \in Seq(Files)
    BY DEF NoVector
  <2> QED
    BY <2>1 DEF GlobReset, FindT
<1> QED
  BY <1>1 DEF Shape

LEMMA FreedShape ==
  ASSUME NEW f \in FindT, f.pathi = f.pathc
  PROVE  GlobFreed(f) \in FindT /\ Shape(GlobFreed(f))
<1>1. GlobFreed(f) \in FindT /\ GlobFreed(f).pathc = f.pathc
      /\ GlobFreed(f).pathi = f.pathi /\ GlobFreed(f).pathv = NoVector
  <2>1. NoVector \in Seq(Files)
    BY DEF NoVector
  <2> QED
    BY <2>1 DEF GlobFreed, FindT
<1> QED
  BY <1>1 DEF Shape

(* A DTA glob succeeded in counts what its vector holds and starts at 0.   *)
LEMMA GlobbedShape ==
  ASSUME NEW f \in FindT, NEW matches \in Seq(Files), NEW attrs \in SearchAttrs
  PROVE  Globbed(f, matches, attrs) \in FindT /\ Shape(Globbed(f, matches, attrs))
<1> DEFINE r == GlobReset(f)
           g == Globbed(f, matches, attrs)
<1>1. r \in FindT
  BY ResetShape
<1>2. Len(matches) \in Nat /\ attrs \in SUBSET AttrBits /\ matches \in Seq(Files)
  BY AttrAssumption
<1>3. g = [r EXCEPT !.pathv = matches, !.pathc = Len(matches), !.pathi = 0, !.want = attrs]
  BY DEF Globbed
<1>4. g \in FindT /\ g.pathv = matches /\ g.pathc = Len(matches) /\ g.pathi = 0
  <2> HIDE DEF r, g
  <2> QED
    BY <1>1, <1>2, <1>3 DEF FindT
<1>5. (matches = NoVector) => Len(matches) = 0
  BY DEF NoVector
<1> QED
  BY <1>2, <1>4, <1>5 DEF Shape

(* The results of glob are sequences of paths.                             *)
LEMMA OrderingType ==
  ASSUME NEW S \in Matches, NEW matches \in Orderings(S)
  PROVE  matches \in Seq(Files)
<1>1. S \subseteq Files /\ IsFiniteSet(S)
  BY FileAssumption, FS_Subset DEF Matches
<1>2. Cardinality(S) \in Nat
  BY <1>1, FS_CardinalityType
<1> QED
  BY <1>1, <1>2 DEF Orderings

-----------------------------------------------------------------------------
(* What the pieces the actions are made of preserve.                       *)

LEMMA CurrentDta ==
  ASSUME FindTypeOK, DtaShape
  PROVE  current_dta \in Dtas /\ cdta \in FindT /\ Shape(cdta)
  BY DEF FindTypeOK, DtaShape, cdta

(* While there are more entries, the next is in the vector.                *)
LEMMA EntryInVector ==
  ASSUME NEW f \in FindT, Shape(f), More(f)
  PROVE  f.pathi + 1 \in DOMAIN f.pathv /\ f.pathv[f.pathi + 1] \in Files
<1>1. f.pathi \in Nat /\ f.pathc \in Nat /\ f.pathv \in Seq(Files)
  BY DEF FindT
<1>2. f.pathi + 1 \in 1..Len(f.pathv)
  BY <1>1 DEF Shape, More
<1> QED
  BY <1>1, <1>2

LEMMA ContinueStep ==
  ASSUME IInv, Busy, More(cdta), NEW e, Continue(e)
  PROVE  IInv'
<1>1. current_dta \in Dtas /\ cdta \in FindT /\ Shape(cdta)
  BY CurrentDta DEF IInv
<1>2. Advance(cdta) \in FindT /\ Shape(Advance(cdta))
  BY <1>1, AdvanceShape
<1>3. dta' = [dta EXCEPT ![current_dta] = Advance(cdta)]
  BY DEF Continue, DtaAdvanced, cdta
<1>4. dta' \in [Dtas -> FindT] /\ DtaShape'
  BY <1>1, <1>2, <1>3, UpdateDta DEF IInv, FindTypeOK
<1>5. /\ call' \in [pc : Points, api : Apis, prev : Dtas, attrib : SUBSET AttrBits]
      /\ call'.pc = "next" /\ call'.api = call.api /\ call'.prev = call.prev
  BY DEF Continue, IInv, FindTypeOK, Points
<1>6. FindTypeOK'
  BY <1>4, <1>5 DEF Continue, IInv, FindTypeOK, seen
<1> QED
  BY <1>4, <1>5, <1>6
  DEF Continue, IInv, EntryHeld, AbortsOnlyAfterFailedFindfirst, UserDtaKept, Idle, Busy, seen

LEMMA GoOnStep ==
  ASSUME IInv, Busy, More(cdta), NEW pc \in {"access", "stat"},
         NEW attrib \in SUBSET AttrBits, NEW e, GoOn(pc, attrib, e)
  PROVE  IInv'
<1>1. /\ call' \in [pc : Points, api : Apis, prev : Dtas, attrib : SUBSET AttrBits]
      /\ call'.pc = pc /\ call'.api = call.api /\ call'.prev = call.prev
  BY DEF GoOn, IInv, FindTypeOK, Points
<1>2. FindTypeOK'
  BY <1>1 DEF GoOn, IInv, FindTypeOK, seen
<1>3. DtaShape' /\ More(cdta)'
  BY DEF GoOn, IInv, DtaShape, cdta
<1> QED
  BY <1>1, <1>2, <1>3
  DEF GoOn, IInv, EntryHeld, AbortsOnlyAfterFailedFindfirst, UserDtaKept, Idle, Busy, seen

(* A call returns to a program whose DTA is current again.                 *)
LEMMA ReturnStep ==
  ASSUME IInv, NEW api \in Apis, NEW prev \in Dtas, NEW d \in Dtas, NEW code, NEW e,
         NEW result \in Outcomes, NEW entry \in Files \cup {NoFile},
         Return(api, prev, d, code, e, result, entry),
         RestoredDta(api, prev, d) = userDta,
         dta' \in [Dtas -> FindT], DtaShape',
         abandoned' \in 0..MaxAbandoned, UNCHANGED <<fs, userDta>>
  PROVE  IInv'
<1>1. /\ call' \in [pc : Points, api : Apis, prev : Dtas, attrib : SUBSET AttrBits]
      /\ call'.pc = "idle"
  BY DtaAssumption DEF Return, IdleCall, Points, Apis
<1>2. current_dta' = userDta'
  BY DEF Return
<1>3. /\ touched' \subseteq Files
      /\ outcome' \in [Dtas -> Outcomes]
      /\ ret'.api \in Apis /\ ret'.entry \in Files \cup {NoFile}
  BY DEF Return, IInv, FindTypeOK
<1>4. FindTypeOK'
  BY <1>1, <1>2, <1>3 DEF IInv, FindTypeOK
<1> QED
  BY <1>1, <1>2, <1>4 DEF IInv, EntryHeld, AbortsOnlyAfterFailedFindfirst, UserDtaKept, Idle

(* A call made while the program's DTA is current remembers it.            *)
LEMMA EnterStep ==
  ASSUME IInv, NEW api \in Apis, NEW d \in Dtas, Callable(api, d), Enter(api, d),
         dta' \in [Dtas -> FindT], DtaShape',
         abandoned' \in 0..MaxAbandoned, UNCHANGED <<fs, touched, userDta>>
  PROVE  IInv'
<1>1. current_dta \in Dtas
  BY DEF IInv, FindTypeOK
<1>2. /\ call' \in [pc : Points, api : Apis, prev : Dtas, attrib : SUBSET AttrBits]
      /\ call'.pc = "next" /\ call'.api = api /\ call'.prev = current_dta
  BY <1>1 DEF Enter, Points
<1>3. /\ outcome' \in [Dtas -> Outcomes]
      /\ ret'.api \in Apis /\ ret'.entry \in Files \cup {NoFile}
  BY DEF Enter, IInv, FindTypeOK, Outcomes, NoReturn, Apis
<1>4. FindTypeOK'
  BY <1>2, <1>3 DEF Enter, IInv, FindTypeOK
<1>5. current_dta = userDta
  BY DEF Callable, IInv, UserDtaKept
<1>6. UserDtaKept'
  BY <1>2, <1>5 DEF Enter, Callable, UserDtaKept, Idle, Apis
<1> QED
  BY <1>2, <1>4, <1>6 DEF IInv, EntryHeld, AbortsOnlyAfterFailedFindfirst

-----------------------------------------------------------------------------
(* The program's calls.                                                    *)

LEMMA SetDtaAddrStep ==
  ASSUME IInv, NEW d \in Dtas, SetDtaAddr(d)
  PROVE  IInv'
  BY DEF SetDtaAddr, IInv, FindTypeOK, DtaShape, EntryHeld,
         AbortsOnlyAfterFailedFindfirst, UserDtaKept, Idle, cdta

LEMMA CountAbandonedType ==
  ASSUME abandoned \in 0..MaxAbandoned, NEW d \in Dtas, CountAbandoned(d)
  PROVE  abandoned' \in 0..MaxAbandoned
  BY BoundAssumption DEF CountAbandoned

LEMMA FindFirstStep ==
  ASSUME IInv, NEW api \in Apis, NEW d \in Dtas, NEW matches \in Seq(Files),
         NEW attrs \in SearchAttrs, FindFirst(api, d, matches, attrs)
  PROVE  IInv'
<1>1. dta \in [Dtas -> FindT] /\ DtaShape
  BY DEF IInv, FindTypeOK
<1>2. dta' = [dta EXCEPT ![d] = Globbed(dta[d], matches, attrs)]
  BY DEF FindFirst
<1>3. Globbed(dta[d], matches, attrs) \in FindT /\ Shape(Globbed(dta[d], matches, attrs))
  BY <1>1, GlobbedShape
<1>4. dta' \in [Dtas -> FindT] /\ DtaShape'
  BY <1>1, <1>2, <1>3, UpdateDta
<1>5. abandoned' \in 0..MaxAbandoned
  BY CountAbandonedType DEF FindFirst, IInv, FindTypeOK
<1> QED
  BY <1>4, <1>5, EnterStep DEF FindFirst

LEMMA FindFirstFailsStep ==
  ASSUME IInv, NEW api \in Apis, NEW d \in Dtas, NEW e, FindFirstFails(api, d, e)
  PROVE  IInv'
<1>1. dta \in [Dtas -> FindT] /\ DtaShape /\ current_dta \in Dtas
  BY DEF IInv, FindTypeOK
<1>2. dta' = [dta EXCEPT ![d] = GlobReset(dta[d])]
  BY DEF FindFirstFails
<1>3. GlobReset(dta[d]) \in FindT /\ Shape(GlobReset(dta[d]))
  BY <1>1, ResetShape
<1>4. dta' \in [Dtas -> FindT] /\ DtaShape'
  BY <1>1, <1>2, <1>3, UpdateDta
<1>5. abandoned' \in 0..MaxAbandoned
  BY CountAbandonedType DEF FindFirstFails, IInv, FindTypeOK
<1>6. RestoredDta(api, current_dta, d) = userDta
  BY DEF FindFirstFails, Callable, RestoredDta, IInv, UserDtaKept, Apis
<1>7. Return(api, current_dta, d, e.info.exterror, e, "failed", NoFile)
  BY DEF FindFirstFails
<1> QED
  BY <1>1, <1>4, <1>5, <1>6, <1>7, ReturnStep DEF FindFirstFails, Outcomes

LEMMA FindNextStep ==
  ASSUME IInv, NEW api \in Apis, NEW d \in Dtas, FindNext(api, d)
  PROVE  IInv'
<1>1. dta' \in [Dtas -> FindT] /\ DtaShape' /\ abandoned' \in 0..MaxAbandoned
  BY DEF FindNext, IInv, FindTypeOK, DtaShape
<1> QED
  BY <1>1, EnterStep DEF FindNext

-----------------------------------------------------------------------------
(* The steps of findnext.                                                  *)

LEMMA GetFileAttrStep ==
  ASSUME IInv, GetFileAttr
  PROVE  IInv'
<1>1. Busy /\ More(cdta)
  BY DEF GetFileAttr, Busy
<1>2. AttrOf("dir") \in SUBSET AttrBits /\ {} \in SUBSET AttrBits
  BY DEF AttrOf, AttrBits
<1>3. CASE Continue(ReportLibc(err, "ENOENT"))
  BY <1>1, <1>3, ContinueStep
<1>4. CASE GoOn("stat", AttrOf("dir"), err)
  BY <1>1, <1>2, <1>4, GoOnStep
<1>5. CASE GoOn("access", {}, err)
  BY <1>1, <1>2, <1>5, GoOnStep
<1> QED
  BY <1>3, <1>4, <1>5 DEF GetFileAttr

LEMMA AccessStep ==
  ASSUME IInv, Access
  PROVE  IInv'
<1>1. Busy /\ More(cdta)
  BY DEF Access, Busy, IInv, EntryHeld
<1>2. AttrOf("rdonly") \in SUBSET AttrBits /\ AttrOf("reg") \in SUBSET AttrBits
  BY DEF AttrOf, AttrBits
<1>3. CASE Continue(ReportLibc(err, "ENOENT"))
  BY <1>1, <1>3, ContinueStep
<1>4. CASE GoOn("stat", AttrOf("rdonly"), LibcFails(err, "EACCES"))
  BY <1>1, <1>2, <1>4, GoOnStep
<1>5. CASE GoOn("stat", AttrOf("reg"), err)
  BY <1>1, <1>2, <1>5, GoOnStep
<1> QED
  BY <1>3, <1>4, <1>5 DEF Access

LEMMA StatSkipsStep ==
  ASSUME IInv, StatSkips
  PROVE  IInv'
<1>1. Busy /\ More(cdta)
  BY DEF StatSkips, Busy, IInv, EntryHeld
<1>2. PICK e : Continue(e)
  BY DEF StatSkips
<1> QED
  BY <1>1, <1>2, ContinueStep

(* The caller's DTA becomes current again when findnext returns.           *)
LEMMA Restored ==
  ASSUME IInv, Busy
  PROVE  /\ call.api \in Apis /\ call.prev \in Dtas /\ current_dta \in Dtas
         /\ RestoredDta(call.api, call.prev, current_dta) = userDta
  BY DEF IInv, FindTypeOK, UserDtaKept, RestoredDta, Busy, Idle

LEMMA StatFindsStep ==
  ASSUME IInv, StatFinds
  PROVE  IInv'
<1>1. Busy /\ More(cdta)
  BY DEF StatFinds, StatSelected, Busy, IInv, EntryHeld
<1>2. current_dta \in Dtas /\ cdta \in FindT /\ Shape(cdta)
  BY CurrentDta DEF IInv
<1>3. Advance(cdta) \in FindT /\ Shape(Advance(cdta)) /\ CurrentFile \in Files
  BY <1>1, <1>2, AdvanceShape, EntryInVector DEF CurrentFile
<1>4. dta' = [dta EXCEPT ![current_dta] = Advance(cdta)]
  BY DEF StatFinds, DtaAdvanced, cdta
<1>5. dta' \in [Dtas -> FindT] /\ DtaShape'
  BY <1>2, <1>3, <1>4, UpdateDta DEF IInv, FindTypeOK
<1>6. abandoned' \in 0..MaxAbandoned
  BY DEF StatFinds, IInv, FindTypeOK
<1>7. Return(call.api, call.prev, current_dta, "NO_ERROR", err, "found", CurrentFile)
  BY DEF StatFinds
<1> QED
  BY <1>1, <1>3, <1>5, <1>6, <1>7, Restored, ReturnStep DEF StatFinds, Outcomes

LEMMA StatBadTimeStep ==
  ASSUME IInv, StatBadTime
  PROVE  IInv'
<1>1. Busy
  BY DEF StatBadTime, StatSelected, Busy
<1>2. dta' \in [Dtas -> FindT] /\ DtaShape' /\ abandoned' \in 0..MaxAbandoned
  BY DEF StatBadTime, IInv, FindTypeOK, DtaShape
<1>3. PICK e : Return(call.api, call.prev, current_dta, "BAD_ARGUMENTS", e, "error", NoFile)
  BY DEF StatBadTime
<1> QED
  BY <1>1, <1>2, <1>3, Restored, ReturnStep DEF StatBadTime, Outcomes

LEMMA ExhaustedStep ==
  ASSUME IInv, Exhausted
  PROVE  IInv'
<1>1. Busy /\ cdta.pathi = cdta.pathc
  BY DEF Exhausted, Busy
<1>2. current_dta \in Dtas /\ cdta \in FindT
  BY CurrentDta DEF IInv
<1>3. GlobFreed(cdta) \in FindT /\ Shape(GlobFreed(cdta))
  BY <1>1, <1>2, FreedShape
<1>4. dta' = [dta EXCEPT ![current_dta] = GlobFreed(cdta)]
  BY DEF Exhausted, cdta
<1>5. dta' \in [Dtas -> FindT] /\ DtaShape'
  BY <1>2, <1>3, <1>4, UpdateDta DEF IInv, FindTypeOK
<1>6. abandoned' \in 0..MaxAbandoned
  BY DEF Exhausted, IInv, FindTypeOK
<1>7. PICK e : Return(call.api, call.prev, current_dta, "NO_MORE_FILES", e, "done", NoFile)
  BY DEF Exhausted
<1> QED
  BY <1>1, <1>5, <1>6, <1>7, Restored, ReturnStep DEF Exhausted, Outcomes

(* The DTA the assertion stops at has no vector and a stale index: an      *)
(* index past the count contradicts the shape of a DTA with a vector.      *)
LEMMA AssertFailsStep ==
  ASSUME IInv, AssertFails
  PROVE  IInv'
<1>1. cdta \in FindT /\ Shape(cdta)
  BY CurrentDta DEF IInv
<1>2. cdta.pathi \in Nat /\ cdta.pathc \in Nat /\ cdta.pathv \in Seq(Files)
  BY <1>1 DEF FindT
<1>3. cdta.pathv = NoVector /\ cdta.pathc = 0 /\ cdta.pathi # 0
  BY <1>1, <1>2 DEF AssertFails, More, Shape
<1>4. cdta' = cdta
  BY DEF AssertFails, cdta
<1>5. /\ call' \in [pc : Points, api : Apis, prev : Dtas, attrib : SUBSET AttrBits]
      /\ call'.pc = "aborted" /\ call'.api = call.api /\ call'.prev = call.prev
  BY DEF AssertFails, IInv, FindTypeOK, Points
<1>6. FindTypeOK'
  BY <1>5 DEF AssertFails, IInv, FindTypeOK, seen
<1>7. UserDtaKept'
  BY <1>5 DEF AssertFails, IInv, UserDtaKept, Idle, seen
<1> QED
  BY <1>3, <1>4, <1>5, <1>6, <1>7
  DEF AssertFails, IInv, DtaShape, EntryHeld, AbortsOnlyAfterFailedFindfirst

LEMMA ChangeStep ==
  ASSUME IInv, NEW f \in Files, NEW kind \in Kinds, Change(f, kind)
  PROVE  IInv'
<1>1. FindTypeOK'
  BY DEF Change, IInv, FindTypeOK, lib, seen
<1> QED
  BY <1>1 DEF Change, IInv, DtaShape, EntryHeld, AbortsOnlyAfterFailedFindfirst, UserDtaKept,
              Idle, cdta, lib, seen

-----------------------------------------------------------------------------
LEMMA NextIInv == IInv /\ [Next]_vars => IInv'
<1> SUFFICES ASSUME IInv, [Next]_vars PROVE IInv'
  OBVIOUS
<1>1. CASE LibraryStep
  BY <1>1, GetFileAttrStep, AccessStep, StatSkipsStep, StatFindsStep, StatBadTimeStep,
     ExhaustedStep, AssertFailsStep DEF LibraryStep
<1>2. CASE ProgramCall
  <2>1. PICK d \in Dtas :
          \/ SetDtaAddr(d)
          \/ \E api \in Apis :
               \/ \E S \in Matches : \E matches \in Orderings(S), attrs \in SearchAttrs :
                    FindFirst(api, d, matches, attrs)
               \/ \E e \in GlobErrors : FindFirstFails(api, d, e)
               \/ FindNext(api, d)
    BY <1>2 DEF ProgramCall
  <2>2. CASE SetDtaAddr(d)
    BY <2>2, SetDtaAddrStep
  <2>3. ASSUME NEW api \in Apis, NEW S \in Matches, NEW matches \in Orderings(S),
               NEW attrs \in SearchAttrs, FindFirst(api, d, matches, attrs)
        PROVE  IInv'
    <3>1. matches \in Seq(Files)
      BY OrderingType
    <3> QED
      BY <2>3, <3>1, FindFirstStep
  <2>4. ASSUME NEW api \in Apis, NEW e \in GlobErrors, FindFirstFails(api, d, e)
        PROVE  IInv'
    BY <2>4, FindFirstFailsStep
  <2>5. ASSUME NEW api \in Apis, FindNext(api, d)
        PROVE  IInv'
    BY <2>5, FindNextStep
  <2> QED
    BY <2>1, <2>2, <2>3, <2>4, <2>5
<1>3. ASSUME NEW f \in Files, NEW kind \in Kinds, Change(f, kind)
      PROVE  IInv'
  BY <1>3, ChangeStep
<1>4. CASE UNCHANGED vars
  BY <1>4 DEF vars, lib, seen, IInv, FindTypeOK, DtaShape, EntryHeld,
              AbortsOnlyAfterFailedFindfirst, UserDtaKept, Idle, cdta
<1> QED
  BY <1>1, <1>2, <1>3, <1>4 DEF Next

(* The invariant the other theorems rest on.                               *)
THEOREM Invariant == Spec => []IInv
BY InitIInv, NextIInv, PTL DEF Spec

(* The loop of findnext never reads outside the path vector, however the   *)
(* program mixes searches and DTAs and whatever happens to the files.      *)
THEOREM InBounds == Spec => []VectorInBounds
<1>1. IInv => VectorInBounds
  <2> SUFFICES ASSUME IInv, (call.pc = "next" /\ More(cdta)) \/ call.pc \in {"access", "stat"}
               PROVE  cdta.pathi + 1 \in DOMAIN cdta.pathv
    BY DEF VectorInBounds
  <2>1. More(cdta)
    BY DEF IInv, EntryHeld
  <2>2. cdta \in FindT /\ Shape(cdta)
    BY CurrentDta DEF IInv
  <2> QED
    BY <2>1, <2>2, EntryInVector
<1> QED
  BY <1>1, Invariant, PTL

(* The assertion in findnext can only stop a program that searches on in a *)
(* DTA whose last _dos_findfirst failed.                                   *)
THEOREM AbortOnlyAfterFailure == Spec => []AbortsOnlyAfterFailedFindfirst
<1>1. IInv => AbortsOnlyAfterFailedFindfirst
  BY DEF IInv
<1> QED
  BY <1>1, Invariant, PTL

(* The C search calls give back the DTA the program set with INT 21h       *)
(* AH=1Ah, on every path out of them.                                      *)
THEOREM DtaRestored == Spec => []CurrentDtaIsUsers
<1>1. IInv => CurrentDtaIsUsers
  BY DEF IInv, UserDtaKept, CurrentDtaIsUsers
<1> QED
  BY <1>1, Invariant, PTL

-----------------------------------------------------------------------------
(* What the searches, the path vectors, the error state and the program's  *)
(* observations have to do with each other.                                *)

Open == { d \in Dtas : dta[d].pathv # NoVector }

(* What the last call on a DTA reported says whether there is a vector.    *)
OutcomeOfVector ==
  \A d \in Dtas :
    /\ outcome[d] \in {"found", "error"} => dta[d].pathv # NoVector
    /\ outcome[d] \in {"none", "done", "failed"} => dta[d].pathv = NoVector
    /\ outcome[d] = "busy" <=> ~ Idle /\ d = current_dta

(* Nothing has changed before a call, and nothing is reported during one.  *)
CallIsFresh == IF Idle THEN touched = {} ELSE ret = NoReturn

(* What the call in progress has learnt of its entry is still so, unless   *)
(* the entry changed under it.                                             *)
EntryKnown ==
  call.pc \in {"access", "stat"} /\ CurrentFile \notin touched =>
    /\ fs[CurrentFile] # "none"
    /\ call.pc = "access" => fs[CurrentFile] # "dir"
    /\ call.pc = "stat" => call.attrib = AttrOf(fs[CurrentFile])

Errnos == GlobErrnos \cup {"0", "EACCES", "ENOENT"}
ErrStates == [errno : Errnos, info : ErrRecords]
ErrTyped == err \in ErrStates

Books ==
  /\ OutcomeOfVector /\ CallIsFresh /\ EntryKnown
  /\ ErrTyped /\ IntErrorReported /\ VectorsAccounted

-----------------------------------------------------------------------------
(* The error states.                                                       *)

LEMMA Rows ==
  ASSUME NEW e \in Errnos, e # "0"
  PROVE  ErrTable[e] \in ErrRecords
  BY ErrnoAssumption DEF Errnos

LEMMA LibcFailsType ==
  ASSUME NEW e \in ErrStates, NEW errno \in Errnos
  PROVE  LibcFails(e, errno) \in ErrStates /\ LibcFails(e, errno).errno = errno
  BY DEF LibcFails, ErrStates

(* _dosexterr reports the same code when it is called again.               *)
LEMMA DosExterrType ==
  ASSUME NEW e \in ErrStates
  PROVE  /\ DosExterr(e) \in ErrStates
         /\ ReportedCode(DosExterr(e)) = DosExterr(e).info.exterror
<1>1. CASE e.errno = "0"
  BY <1>1 DEF DosExterr, ReportedCode
<1>2. CASE e.errno # "0"
  <2>1. e.errno \in Errnos /\ ErrTable[e.errno] \in ErrRecords
    BY <1>2, Rows DEF ErrStates
  <2>2. PICK row : row = ErrTable[e.errno]
    OBVIOUS
  <2>3. DosExterr(e) = [e EXCEPT !.info = row]
    BY <1>2, <2>2 DEF DosExterr
  <2>4. DosExterr(e) \in ErrStates /\ DosExterr(e).errno = e.errno /\ DosExterr(e).info = row
    BY <2>1, <2>2, <2>3 DEF ErrStates
  <2>5. DosExterr(DosExterr(e)) = [DosExterr(e) EXCEPT !.info = row]
    BY <1>2, <2>2, <2>4 DEF DosExterr
  <2>6. DosExterr(DosExterr(e)).info = row
    BY <2>4, <2>5 DEF ErrStates
  <2> QED
    BY <2>4, <2>6 DEF ReportedCode
<1> QED
  BY <1>1, <1>2

LEMMA ExterrSetType ==
  ASSUME NEW e \in ErrStates, NEW new \in ErrRecords, new.exterror # "DONT_CHANGE"
  PROVE  /\ ExterrSet(e, new, "0") \in ErrStates
         /\ ExterrSet(e, new, "0").info = new
         /\ ReportedCode(ExterrSet(e, new, "0")) = new.exterror
<1>1. ExterrSet(e, new, "0") = [errno |-> "0", info |-> new]
  BY DEF ExterrSet, ErrRecords
<1> QED
  BY <1>1 DEF ErrStates, Errnos, ReportedCode, DosExterr

LEMMA ErrFuncType ==
  ASSUME NEW e \in ErrStates, NEW errno \in GlobErrnos
  PROVE  ErrFunc(e, errno) \in ErrStates
<1>1. /\ Err("ACCESS_DENIED", "ACCESS_DENIED", "ABORT_AFTER_CLEANUP", "BLOCK_DEV") \in ErrRecords
      /\ Err("PATH_NOT_FOUND", "NOT_FOUND", "PROMPT_USR_REENTER_INPUT", "BLOCK_DEV") \in ErrRecords
      /\ Err("READ_FAULT", "MEDIA_ERROR", "RETRY_AFTER_USR_INTERV", "BLOCK_DEV") \in ErrRecords
  BY DEF Err, ErrRecords, SearchCodes, ErrClasses, ErrActions, ErrLocuses
<1>2. /\ Err("ACCESS_DENIED", "ACCESS_DENIED", "ABORT_AFTER_CLEANUP", "BLOCK_DEV").exterror # "DONT_CHANGE"
      /\ Err("PATH_NOT_FOUND", "NOT_FOUND", "PROMPT_USR_REENTER_INPUT", "BLOCK_DEV").exterror # "DONT_CHANGE"
      /\ Err("READ_FAULT", "MEDIA_ERROR", "RETRY_AFTER_USR_INTERV", "BLOCK_DEV").exterror # "DONT_CHANGE"
  BY DEF Err
<1>3. errno \in Errnos
  BY DEF Errnos
<1>4. CASE errno = "EACCES"
  BY <1>1, <1>2, <1>4, ExterrSetType DEF ErrFunc
<1>5. CASE errno = "ENOENT"
  BY <1>1, <1>2, <1>5, ExterrSetType DEF ErrFunc
<1>6. CASE errno = "EIO"
  BY <1>1, <1>2, <1>6, ExterrSetType DEF ErrFunc
<1>7. CASE errno \notin {"EACCES", "ENOENT", "EIO"}
  BY <1>3, <1>7, LibcFailsType DEF ErrFunc
<1> QED
  BY <1>4, <1>5, <1>6, <1>7

(* However glob fails, AH=59h reports the code findfirst returns.          *)
LEMMA GlobErrorsType ==
  ASSUME ErrTyped, NEW e \in GlobErrors
  PROVE  e \in ErrStates /\ ReportedCode(e) = e.info.exterror
<1>1. ASSUME NEW errno \in GlobErrnos, e = DosExterr(ErrFunc(err, errno))
      PROVE  e \in ErrStates /\ ReportedCode(e) = e.info.exterror
  BY <1>1, ErrFuncType, DosExterrType DEF ErrTyped
<1>2. ASSUME NEW new \in ErrRecords, new.exterror # "DONT_CHANGE", e = ExterrSet(err, new, "0")
      PROVE  e \in ErrStates /\ ReportedCode(e) = e.info.exterror
  BY <1>2, ExterrSetType DEF ErrTyped
<1>3. PICK new1 : new1 = Err("FILE_NOT_FOUND", "NOT_FOUND", "PROMPT_USR_REENTER_INPUT", "BLOCK_DEV")
  OBVIOUS
<1>4. PICK new2 : new2 = Err("INSUF_MEM", "OUT_OF_RESOURCE", "IMMEDIATE_ABORT", "MEM_RELATED")
  OBVIOUS
<1>5. /\ new1 \in ErrRecords /\ new1.exterror # "DONT_CHANGE"
      /\ new2 \in ErrRecords /\ new2.exterror # "DONT_CHANGE"
  BY <1>3, <1>4 DEF Err, ErrRecords, SearchCodes, ErrClasses, ErrActions, ErrLocuses
<1>6. \/ \E errno \in GlobErrnos : e = DosExterr(ErrFunc(err, errno))
      \/ e = ExterrSet(err, new1, "0")
      \/ e = ExterrSet(err, new2, "0")
  BY <1>3, <1>4 DEF GlobErrors
<1> QED
  BY <1>1, <1>2, <1>5, <1>6

LEMMA InitBooks == Init => Books
<1> SUFFICES ASSUME Init PROVE Books
  OBVIOUS
<1>1. IInv /\ call = IdleCall /\ ret = NoReturn
  BY InitIInv DEF Init
<1>2. Idle /\ touched = {} /\ err = ErrInit /\ \A d \in Dtas : outcome[d] = "none"
  BY <1>1 DEF Init, Idle, IdleCall
<1>3. \A d \in Dtas : dta[d].pathv = NoVector
  BY DEF Init
<1>4. OutcomeOfVector /\ CallIsFresh
  BY <1>2, <1>3 DEF OutcomeOfVector, CallIsFresh
<1>5. EntryKnown /\ IntErrorReported
  BY <1>1, <1>2 DEF EntryKnown, IntErrorReported, Idle, NoReturn
<1>6. ErrTyped
  <2>1. NoError \in ErrRecords
    BY DEF NoError, Err, ErrRecords, SearchCodes, ErrClasses, ErrActions, ErrLocuses
  <2> QED
    BY <1>2, <2>1 DEF ErrTyped, ErrStates, Errnos, ErrInit
<1>7. VectorsAccounted
  <2>1. Open = {}
    BY <1>3 DEF Open
  <2>2. Cardinality(Open) = 0 /\ vectors = 0 /\ abandoned = 0
    BY <2>1, FS_EmptySet DEF Init
  <2> QED
    BY <2>2 DEF VectorsAccounted, Open
<1> QED
  BY <1>4, <1>5, <1>6, <1>7 DEF Books

-----------------------------------------------------------------------------
(* How the pieces the actions are made of keep the books.                  *)

LEMMA OpenCount ==
  ASSUME NEW d \in Dtas, NEW f, dta \in [Dtas -> FindT], dta' = [dta EXCEPT ![d] = f]
  PROVE  /\ Cardinality(Open) \in Nat
         /\ (f.pathv # NoVector <=> dta[d].pathv # NoVector) => Open' = Open
         /\ f.pathv # NoVector /\ dta[d].pathv = NoVector =>
              Cardinality(Open') = Cardinality(Open) + 1
         /\ f.pathv = NoVector /\ dta[d].pathv # NoVector =>
              Cardinality(Open') = Cardinality(Open) - 1
<1>1. dta'[d] = f /\ \A x \in Dtas \ {d} : dta'[x] = dta[x]
  OBVIOUS
<1>2. IsFiniteSet(Open) /\ Cardinality(Open) \in Nat
  BY DtaAssumption, FS_Subset, FS_CardinalityType DEF Open
<1>3. (f.pathv # NoVector <=> dta[d].pathv # NoVector) => Open' = Open
  BY <1>1 DEF Open
<1>4. CASE f.pathv # NoVector /\ dta[d].pathv = NoVector
  <2>1. d \notin Open /\ Open' = Open \cup {d}
    BY <1>1, <1>4 DEF Open
  <2> QED
    BY <1>2, <1>4, <2>1, FS_AddElement
<1>5. CASE f.pathv = NoVector /\ dta[d].pathv # NoVector
  <2>1. d \in Open /\ Open' = Open \ {d}
    BY <1>1, <1>5 DEF Open
  <2> QED
    BY <1>2, <1>5, <2>1, FS_RemoveElement
<1> QED
  BY <1>2, <1>3, <1>4, <1>5

LEMMA SameVectors ==
  ASSUME VectorsAccounted, Open' = Open, UNCHANGED <<vectors, abandoned>>
  PROVE  VectorsAccounted'
  BY DEF VectorsAccounted, Open

LEMMA ContinueBooks ==
  ASSUME IInv, Books, Busy, NEW e \in ErrStates, Continue(e)
  PROVE  Books'
<1>1. current_dta \in Dtas /\ cdta \in FindT /\ dta \in [Dtas -> FindT]
  BY CurrentDta DEF IInv, FindTypeOK
<1>2. dta' = [dta EXCEPT ![current_dta] = Advance(cdta)]
  BY DEF Continue, DtaAdvanced, cdta
<1>3. \A d \in Dtas : dta'[d].pathv = dta[d].pathv
  BY <1>1, <1>2, AdvanceType DEF cdta
<1>4. Open' = Open
  BY <1>3 DEF Open
<1>5. call' = [call EXCEPT !.pc = "next", !.attrib = {}] /\ call \in [pc : Points, api : Apis,
        prev : Dtas, attrib : SUBSET AttrBits]
  BY DEF Continue, IInv, FindTypeOK
<1>6. call'.pc = "next" /\ ~ Idle /\ ~ Idle'
  BY <1>5 DEF Idle, Busy
<1>7. OutcomeOfVector'
  BY <1>3, <1>6 DEF Continue, seen, OutcomeOfVector, Books
<1>8. CallIsFresh' /\ EntryKnown' /\ IntErrorReported'
  BY <1>6 DEF Continue, seen, Books, CallIsFresh, EntryKnown, IntErrorReported
<1>9. ErrTyped'
  BY DEF Continue, ErrTyped
<1>10. VectorsAccounted'
  BY <1>4, SameVectors DEF Continue, seen, Books
<1> QED
  BY <1>7, <1>8, <1>9, <1>10 DEF Books

LEMMA GoOnBooks ==
  ASSUME IInv, Books, Busy, NEW pc \in {"access", "stat"}, NEW attrib \in SUBSET AttrBits,
         NEW e \in ErrStates, GoOn(pc, attrib, e),
         CurrentFile \notin touched =>
           /\ fs[CurrentFile] # "none"
           /\ pc = "access" => fs[CurrentFile] # "dir"
           /\ pc = "stat" => attrib = AttrOf(fs[CurrentFile])
  PROVE  Books'
<1>1. call' = [call EXCEPT !.pc = pc, !.attrib = attrib] /\ call \in [pc : Points, api : Apis,
        prev : Dtas, attrib : SUBSET AttrBits]
  BY DEF GoOn, IInv, FindTypeOK
<1>2. call'.pc = pc /\ call'.attrib = attrib /\ ~ Idle /\ ~ Idle'
  BY <1>1 DEF Idle, Busy
<1>3. OutcomeOfVector'
  BY <1>2 DEF GoOn, seen, OutcomeOfVector, Books
<1>4. CallIsFresh' /\ IntErrorReported' /\ ErrTyped'
  BY <1>2 DEF GoOn, seen, Books, CallIsFresh, IntErrorReported, ErrTyped
<1>5. CurrentFile' = CurrentFile /\ fs' = fs /\ touched' = touched
  BY DEF GoOn, CurrentFile, cdta
<1>6. EntryKnown'
  BY <1>2, <1>5 DEF EntryKnown
<1>7. VectorsAccounted'
  BY SameVectors DEF GoOn, seen, Books, Open
<1> QED
  BY <1>3, <1>4, <1>6, <1>7 DEF Books

LEMMA ReturnBooks ==
  ASSUME IInv, Books, NEW api \in Apis, NEW prev \in Dtas, NEW d \in Dtas, NEW code,
         NEW e \in ErrStates, NEW result \in {"found", "error", "done", "failed"}, NEW entry,
         Return(api, prev, d, code, e, result, entry),
         ~ Idle => d = current_dta,
         NEW f, dta' = [dta EXCEPT ![d] = f],
         f.pathv # NoVector <=> result \in {"found", "error"},
         code # "NO_ERROR" => ReportedCode(e) = code,
         VectorsAccounted'
  PROVE  Books'
<1>1. dta \in [Dtas -> FindT] /\ outcome \in [Dtas -> Outcomes] /\ OutcomeOfVector
  BY DEF IInv, FindTypeOK, Books
<1>2. Idle' /\ touched' = {}
  BY DEF Return, Idle, IdleCall
<1>3. /\ dta'[d] = f /\ outcome'[d] = result
      /\ \A x \in Dtas \ {d} : dta'[x] = dta[x] /\ outcome'[x] = outcome[x]
  BY <1>1 DEF Return
<1>4. \A x \in Dtas \ {d} : outcome[x] # "busy"
  BY <1>1 DEF OutcomeOfVector
<1>5. OutcomeOfVector'
  BY <1>1, <1>2, <1>3, <1>4 DEF OutcomeOfVector
<1>6. CallIsFresh' /\ EntryKnown'
  BY <1>2 DEF CallIsFresh, EntryKnown, Idle
<1>7. err' \in ErrStates /\ (api # "C" => err' = e)
  BY LibcFailsType DEF Return, WrapperErrno, Errnos
<1>8. ErrTyped'
  BY <1>7 DEF ErrTyped
<1>9. IntErrorReported'
  <2>1. ret' = [api |-> api, code |-> code, entry |-> entry]
    BY DEF Return
  <2>2. CASE api = "INT"
    BY <1>7, <2>1, <2>2 DEF IntErrorReported
  <2>3. CASE api # "INT"
    BY <2>1, <2>3 DEF IntErrorReported
  <2> QED
    BY <2>2, <2>3
<1> QED
  BY <1>5, <1>6, <1>8, <1>9 DEF Books

LEMMA EnterBooks ==
  ASSUME IInv, Books, NEW api \in Apis, NEW d \in Dtas, Callable(api, d), Enter(api, d),
         NEW f, dta' = [dta EXCEPT ![d] = f], UNCHANGED err, VectorsAccounted'
  PROVE  Books'
<1>1. dta \in [Dtas -> FindT] /\ outcome \in [Dtas -> Outcomes] /\ OutcomeOfVector
  BY DEF IInv, FindTypeOK, Books
<1>2. Idle /\ ~ Idle' /\ call'.pc = "next" /\ current_dta' = d
  BY DEF Callable, Enter, Idle
<1>3. /\ outcome'[d] = "busy"
      /\ \A x \in Dtas \ {d} : dta'[x] = dta[x] /\ outcome'[x] = outcome[x]
  BY <1>1 DEF Enter
<1>4. OutcomeOfVector'
  BY <1>1, <1>2, <1>3 DEF OutcomeOfVector
<1>5. CallIsFresh' /\ EntryKnown' /\ IntErrorReported' /\ ErrTyped'
  BY <1>2 DEF Enter, CallIsFresh, EntryKnown, IntErrorReported, ErrTyped, Books
<1> QED
  BY <1>4, <1>5 DEF Books

-----------------------------------------------------------------------------
(* The program's calls.                                                    *)

(* A search begun anew is counted as abandoned just if it had a vector.    *)
LEMMA AbandonedCount ==
  ASSUME IInv, Books, Idle, NEW d \in Dtas, CountAbandoned(d)
  PROVE  abandoned' = IF dta[d].pathv # NoVector THEN abandoned + 1 ELSE abandoned
<1>1. outcome[d] \in Outcomes /\ outcome[d] # "busy"
  BY DEF IInv, FindTypeOK, Books, OutcomeOfVector
<1>2. Abandons(d) <=> dta[d].pathv # NoVector
  BY <1>1 DEF Books, OutcomeOfVector, Abandons, Outcomes
<1> QED
  BY <1>2 DEF CountAbandoned

LEMMA Counts ==
  ASSUME IInv, Books
  PROVE  /\ vectors \in Nat /\ abandoned \in Nat /\ Cardinality(Open) \in Nat
         /\ vectors = Cardinality(Open) + abandoned
<1>1. IsFiniteSet(Open) /\ Cardinality(Open) \in Nat
  BY DtaAssumption, FS_Subset, FS_CardinalityType DEF Open
<1>2. abandoned \in Nat
  BY BoundAssumption DEF IInv, FindTypeOK
<1>3. vectors = Cardinality(Open) + abandoned
  BY DEF Books, VectorsAccounted, Open
<1> QED
  BY <1>1, <1>2, <1>3

LEMMA FindFirstBooks ==
  ASSUME IInv, Books, NEW api \in Apis, NEW d \in Dtas, NEW matches \in Seq(Files),
         matches # NoVector, NEW attrs \in SearchAttrs, FindFirst(api, d, matches, attrs)
  PROVE  Books'
<1>1. dta \in [Dtas -> FindT] /\ Idle
  BY DEF IInv, FindTypeOK, FindFirst, Callable
<1>2. PICK f : f = Globbed(dta[d], matches, attrs)
  OBVIOUS
<1>3. dta' = [dta EXCEPT ![d] = f] /\ f.pathv = matches /\ f.pathv # NoVector
  <2>1. dta[d] \in FindT /\ GlobReset(dta[d]) \in FindT
    BY <1>1, ResetShape
  <2> QED
    BY <1>2, <2>1 DEF FindFirst, Globbed, FindT
<1>4. abandoned' = IF dta[d].pathv # NoVector THEN abandoned + 1 ELSE abandoned
  BY <1>1, AbandonedCount DEF FindFirst
<1>5. VectorsAccounted'
  <2>1. vectors' = Cardinality(Open') + abandoned'
    <3>1. vectors' = vectors + 1
      BY DEF FindFirst
    <3>2. CASE dta[d].pathv # NoVector
      <4>1. Open' = Open
        BY <1>1, <1>3, <3>2, OpenCount
      <4> QED
        BY <1>4, <3>1, <3>2, <4>1, Counts
    <3>3. CASE dta[d].pathv = NoVector
      <4>1. Cardinality(Open') = Cardinality(Open) + 1
        BY <1>1, <1>3, <3>3, OpenCount
      <4> QED
        BY <1>4, <3>1, <3>3, <4>1, Counts
    <3> QED
      BY <3>2, <3>3
  <2> QED
    BY <2>1 DEF VectorsAccounted, Open
<1> QED
  BY <1>3, <1>5, EnterBooks DEF FindFirst

LEMMA FindFirstFailsBooks ==
  ASSUME IInv, Books, NEW api \in Apis, NEW d \in Dtas, NEW e \in GlobErrors,
         FindFirstFails(api, d, e)
  PROVE  Books'
<1>1. dta \in [Dtas -> FindT] /\ current_dta \in Dtas /\ Idle
  BY DEF IInv, FindTypeOK, FindFirstFails, Callable
<1>2. PICK f : f = GlobReset(dta[d])
  OBVIOUS
<1>3. dta' = [dta EXCEPT ![d] = f] /\ f.pathv = NoVector
  BY <1>1, <1>2 DEF FindFirstFails, GlobReset, FindT
<1>4. abandoned' = IF dta[d].pathv # NoVector THEN abandoned + 1 ELSE abandoned
  BY <1>1, AbandonedCount DEF FindFirstFails
<1>5. VectorsAccounted'
  <2>1. vectors' = Cardinality(Open') + abandoned'
    <3>1. vectors' = vectors
      BY DEF FindFirstFails
    <3>2. CASE dta[d].pathv # NoVector
      <4>1. Cardinality(Open') = Cardinality(Open) - 1
        BY <1>1, <1>3, <3>2, OpenCount
      <4> QED
        BY <1>4, <3>1, <3>2, <4>1, Counts
    <3>3. CASE dta[d].pathv = NoVector
      <4>1. Open' = Open
        BY <1>1, <1>3, <3>3, OpenCount
      <4> QED
        BY <1>4, <3>1, <3>3, <4>1, Counts
    <3> QED
      BY <3>2, <3>3
  <2> QED
    BY <2>1 DEF VectorsAccounted, Open
<1>6. e \in ErrStates /\ ReportedCode(e) = e.info.exterror
  BY GlobErrorsType DEF Books
<1>7. Return(api, current_dta, d, e.info.exterror, e, "failed", NoFile)
  BY DEF FindFirstFails
<1> QED
  BY <1>1, <1>3, <1>5, <1>6, <1>7, ReturnBooks

LEMMA FindNextBooks ==
  ASSUME IInv, Books, NEW api \in Apis, NEW d \in Dtas, FindNext(api, d)
  PROVE  Books'
<1>1. dta' = [dta EXCEPT ![d] = dta[d]]
  BY DEF FindNext, IInv, FindTypeOK
<1>2. VectorsAccounted'
  BY SameVectors DEF FindNext, Books, Open
<1> QED
  BY <1>1, <1>2, EnterBooks DEF FindNext

LEMMA SetDtaAddrBooks ==
  ASSUME IInv, Books, NEW d \in Dtas, SetDtaAddr(d)
  PROVE  Books'
<1>1. OutcomeOfVector'
  BY DEF SetDtaAddr, Books, OutcomeOfVector, Idle
<1>2. CallIsFresh' /\ IntErrorReported' /\ ErrTyped' /\ EntryKnown'
  BY DEF SetDtaAddr, Books, CallIsFresh, IntErrorReported, ErrTyped, EntryKnown, Idle
<1>3. VectorsAccounted'
  BY SameVectors DEF SetDtaAddr, Books, Open
<1> QED
  BY <1>1, <1>2, <1>3 DEF Books

-----------------------------------------------------------------------------
(* The steps of findnext and of other processes.                           *)

LEMMA GetFileAttrBooks ==
  ASSUME IInv, Books, GetFileAttr
  PROVE  Books'
<1>1. Busy /\ err \in ErrStates
  BY DEF GetFileAttr, Busy, Books, ErrTyped
<1>2. ReportLibc(err, "ENOENT") \in ErrStates
  BY <1>1, LibcFailsType, DosExterrType DEF ReportLibc, Errnos
<1>3. AttrOf("dir") \in SUBSET AttrBits /\ {} \in SUBSET AttrBits
  BY DEF AttrOf, AttrBits
<1>4. CASE Continue(ReportLibc(err, "ENOENT"))
  BY <1>1, <1>2, <1>4, ContinueBooks
<1>5. CASE fs[CurrentFile] = "dir" /\ GoOn("stat", AttrOf("dir"), err)
  BY <1>1, <1>3, <1>5, GoOnBooks
<1>6. CASE fs[CurrentFile] \notin {"none", "dir"} /\ GoOn("access", {}, err)
  BY <1>1, <1>3, <1>6, GoOnBooks
<1> QED
  BY <1>4, <1>5, <1>6 DEF GetFileAttr

LEMMA AccessBooks ==
  ASSUME IInv, Books, Access
  PROVE  Books'
<1>1. Busy /\ err \in ErrStates
  BY DEF Access, Busy, Books, ErrTyped
<1>2. ReportLibc(err, "ENOENT") \in ErrStates /\ LibcFails(err, "EACCES") \in ErrStates
  BY <1>1, LibcFailsType, DosExterrType DEF ReportLibc, Errnos
<1>3. AttrOf("rdonly") \in SUBSET AttrBits /\ AttrOf("reg") \in SUBSET AttrBits
  BY DEF AttrOf, AttrBits
<1>4. CurrentFile \notin touched => fs[CurrentFile] # "dir"
  BY DEF Access, Books, EntryKnown
<1>5. CASE Continue(ReportLibc(err, "ENOENT"))
  BY <1>1, <1>2, <1>5, ContinueBooks
<1>6. CASE fs[CurrentFile] = "rdonly" /\ GoOn("stat", AttrOf("rdonly"), LibcFails(err, "EACCES"))
  BY <1>1, <1>2, <1>3, <1>6, GoOnBooks
<1>7. CASE fs[CurrentFile] \notin {"none", "rdonly"} /\ GoOn("stat", AttrOf("reg"), err)
  <2>1. CurrentFile \notin touched => AttrOf("reg") = AttrOf(fs[CurrentFile])
    BY <1>4, <1>7 DEF AttrOf
  <2> QED
    BY <1>1, <1>3, <1>7, <2>1, GoOnBooks
<1> QED
  BY <1>5, <1>6, <1>7 DEF Access

LEMMA StatSkipsBooks ==
  ASSUME IInv, Books, StatSkips
  PROVE  Books'
<1>1. Busy /\ err \in ErrStates
  BY DEF StatSkips, Busy, Books, ErrTyped
<1>2. LibcFails(err, "ENOENT") \in ErrStates
  BY <1>1, LibcFailsType DEF Errnos
<1>3. PICK e \in ErrStates : Continue(e)
  BY <1>1, <1>2 DEF StatSkips
<1> QED
  BY <1>1, <1>3, ContinueBooks

(* An entry is left only in a DTA that has a vector.                       *)
LEMMA MoreHasVector ==
  ASSUME NEW f \in FindT, Shape(f), More(f)
  PROVE  f.pathv # NoVector
  BY DEF FindT, Shape, More

LEMMA StatFindsBooks ==
  ASSUME IInv, Books, StatFinds
  PROVE  Books'
<1>1. Busy /\ More(cdta) /\ err \in ErrStates
  BY DEF StatFinds, StatSelected, Busy, IInv, EntryHeld, Books, ErrTyped
<1>2. current_dta \in Dtas /\ cdta \in FindT /\ Shape(cdta) /\ dta \in [Dtas -> FindT]
  BY CurrentDta DEF IInv, FindTypeOK
<1>3. PICK f : f = Advance(cdta)
  OBVIOUS
<1>4. dta' = [dta EXCEPT ![current_dta] = f] /\ f.pathv = cdta.pathv /\ f.pathv # NoVector
  BY <1>1, <1>2, <1>3, AdvanceType, MoreHasVector DEF StatFinds, DtaAdvanced, cdta
<1>5. Open' = Open
  BY <1>2, <1>4, OpenCount DEF cdta
<1>6. VectorsAccounted'
  BY <1>5, SameVectors DEF StatFinds, Books
<1>7. Return(call.api, call.prev, current_dta, "NO_ERROR", err, "found", CurrentFile)
  BY DEF StatFinds
<1> QED
  BY <1>1, <1>2, <1>4, <1>6, <1>7, Restored, ReturnBooks

LEMMA StatBadTimeBooks ==
  ASSUME IInv, Books, StatBadTime
  PROVE  Books'
<1>1. Busy /\ More(cdta) /\ err \in ErrStates
  BY DEF StatBadTime, StatSelected, Busy, IInv, EntryHeld, Books, ErrTyped
<1>2. current_dta \in Dtas /\ cdta \in FindT /\ Shape(cdta) /\ dta \in [Dtas -> FindT]
  BY CurrentDta DEF IInv, FindTypeOK
<1>3. dta' = [dta EXCEPT ![current_dta] = cdta] /\ cdta.pathv # NoVector
  BY <1>1, <1>2, MoreHasVector DEF StatBadTime, cdta
<1>4. VectorsAccounted'
  BY SameVectors DEF StatBadTime, Books, Open
<1>5. PICK new : new = Err("BAD_ARGUMENTS", "APP_PROG_ERROR", "ABORT_AFTER_CLEANUP", "UNKNOWN")
  OBVIOUS
<1>6. new \in ErrRecords /\ new.exterror = "BAD_ARGUMENTS"
  BY <1>5 DEF Err, ErrRecords, SearchCodes, ErrClasses, ErrActions, ErrLocuses
<1>7. Return(call.api, call.prev, current_dta, "BAD_ARGUMENTS", ExterrSet(err, new, "0"),
             "error", NoFile)
  BY <1>5 DEF StatBadTime
<1>8. ExterrSet(err, new, "0") \in ErrStates /\ ReportedCode(ExterrSet(err, new, "0")) = "BAD_ARGUMENTS"
  BY <1>1, <1>6, ExterrSetType
<1> QED
  BY <1>1, <1>2, <1>3, <1>4, <1>7, <1>8, Restored, ReturnBooks

(* globfree frees a vector just if there is one.                           *)
LEMMA ExhaustedBooks ==
  ASSUME IInv, Books, Exhausted
  PROVE  Books'
<1>1. Busy /\ err \in ErrStates
  BY DEF Exhausted, Busy, Books, ErrTyped
<1>2. current_dta \in Dtas /\ cdta \in FindT /\ dta \in [Dtas -> FindT]
  BY CurrentDta DEF IInv, FindTypeOK
<1>3. PICK f : f = GlobFreed(cdta)
  OBVIOUS
<1>4. dta' = [dta EXCEPT ![current_dta] = f] /\ f.pathv = NoVector
  BY <1>2, <1>3 DEF Exhausted, GlobFreed, FindT, cdta
<1>5. VectorsAccounted'
  <2>1. vectors' = Cardinality(Open') + abandoned'
    <3>1. vectors' = vectors - FreedVectors /\ abandoned' = abandoned
      BY DEF Exhausted
    <3>2. CASE cdta.pathv # NoVector
      <4>1. Cardinality(Open') = Cardinality(Open) - 1
        BY <1>2, <1>4, <3>2, OpenCount DEF cdta
      <4>2. FreedVectors = 1
        BY <3>2 DEF FreedVectors
      <4> QED
        BY <3>1, <4>1, <4>2, Counts
    <3>3. CASE cdta.pathv = NoVector
      <4>1. Open' = Open
        BY <1>2, <1>4, <3>3, OpenCount DEF cdta
      <4>2. FreedVectors = 0
        BY <3>3 DEF FreedVectors
      <4> QED
        BY <3>1, <4>1, <4>2, Counts
    <3> QED
      BY <3>2, <3>3
  <2> QED
    BY <2>1 DEF VectorsAccounted, Open
<1>6. NoMoreFiles \in ErrRecords /\ NoMoreFiles.exterror = "NO_MORE_FILES"
  BY DEF NoMoreFiles, Err, ErrRecords, SearchCodes, ErrClasses, ErrActions, ErrLocuses
<1>7. /\ ExterrSet(err, NoMoreFiles, "0") \in ErrStates
      /\ ReportedCode(ExterrSet(err, NoMoreFiles, "0")) = "NO_MORE_FILES"
  BY <1>1, <1>6, ExterrSetType
<1>8. Return(call.api, call.prev, current_dta, "NO_MORE_FILES", ExterrSet(err, NoMoreFiles, "0"),
             "done", NoFile)
  BY DEF Exhausted
<1> QED
  BY <1>1, <1>2, <1>4, <1>5, <1>7, <1>8, Restored, ReturnBooks

LEMMA AssertFailsBooks ==
  ASSUME IInv, Books, AssertFails
  PROVE  Books'
<1>1. ~ Idle /\ call'.pc = "aborted" /\ ~ Idle'
  BY DEF AssertFails, Idle, IInv, FindTypeOK
<1>2. OutcomeOfVector'
  BY <1>1 DEF AssertFails, seen, Books, OutcomeOfVector
<1>3. CallIsFresh' /\ EntryKnown' /\ ErrTyped' /\ IntErrorReported'
  BY <1>1 DEF AssertFails, seen, Books, CallIsFresh, EntryKnown, ErrTyped, IntErrorReported
<1>4. VectorsAccounted'
  BY SameVectors DEF AssertFails, seen, Books, Open
<1> QED
  BY <1>2, <1>3, <1>4 DEF Books

(* A path that changes during a call is among those the call knows nothing *)
(* about.                                                                  *)
LEMMA ChangeBooks ==
  ASSUME IInv, Books, NEW f \in Files, NEW kind \in Kinds, Change(f, kind)
  PROVE  Books'
<1>1. UNCHANGED <<lib, seen>> /\ Idle' = Idle /\ CurrentFile' = CurrentFile
  BY DEF Change, lib, seen, Idle, CurrentFile, cdta
<1>2. OutcomeOfVector' /\ CallIsFresh' /\ ErrTyped' /\ IntErrorReported'
  BY <1>1 DEF Change, lib, seen, Books, OutcomeOfVector, CallIsFresh, ErrTyped, IntErrorReported
<1>3. EntryKnown'
  <2>1. SUFFICES ASSUME call.pc \in {"access", "stat"}, CurrentFile \notin touched'
                 PROVE  CurrentFile \notin touched /\ fs'[CurrentFile] = fs[CurrentFile]
    BY <1>1 DEF lib, Books, EntryKnown
  <2>2. touched' = touched \cup {f}
    BY <2>1 DEF Change, Idle
  <2> QED
    BY <2>1, <2>2 DEF Change, IInv, FindTypeOK
<1>4. VectorsAccounted'
  BY <1>1, SameVectors DEF lib, seen, Books, Open
<1> QED
  BY <1>2, <1>3, <1>4 DEF Books

LEMMA OrderingNonempty ==
  ASSUME NEW S \in Matches, NEW matches \in Orderings(S)
  PROVE  matches # NoVector
<1>1. S # {} /\ { matches[i] : i \in DOMAIN matches } = S
  BY DEF Matches, Orderings
<1>2. DOMAIN matches # {}
  BY <1>1
<1> QED
  BY <1>2 DEF NoVector

LEMMA NextBooks == IInv /\ Books /\ [Next]_vars => Books'
<1> SUFFICES ASSUME IInv, Books, [Next]_vars PROVE Books'
  OBVIOUS
<1>1. CASE LibraryStep
  BY <1>1, GetFileAttrBooks, AccessBooks, StatSkipsBooks, StatFindsBooks, StatBadTimeBooks,
     ExhaustedBooks, AssertFailsBooks DEF LibraryStep
<1>2. CASE ProgramCall
  <2>1. ASSUME NEW api \in Apis, NEW d \in Dtas, NEW S \in Matches,
               NEW matches \in Orderings(S), NEW attrs \in SearchAttrs,
               FindFirst(api, d, matches, attrs)
        PROVE  Books'
    BY <2>1, OrderingType, OrderingNonempty, FindFirstBooks
  <2> QED
    BY <1>2, <2>1, SetDtaAddrBooks, FindFirstFailsBooks, FindNextBooks DEF ProgramCall
<1>3. ASSUME NEW f \in Files, NEW kind \in Kinds, Change(f, kind)
      PROVE  Books'
  BY <1>3, ChangeBooks
<1>4. CASE UNCHANGED vars
  BY <1>4 DEF vars, lib, seen, Books, OutcomeOfVector, CallIsFresh, EntryKnown, CurrentFile, cdta,
              ErrTyped, IntErrorReported, VectorsAccounted, Idle
<1> QED
  BY <1>1, <1>2, <1>3, <1>4 DEF Next

(* The searches and everything kept about them agree in every state.       *)
THEOREM BooksKept == Spec => [](IInv /\ Books)
<1>1. IInv /\ Books /\ [Next]_vars => (IInv /\ Books)'
  BY NextIInv, NextBooks
<1> QED
  BY <1>1, InitIInv, InitBooks, PTL DEF Spec

(* Every variable has its type: the error record only ever holds codes,    *)
(* classes, actions and locuses that directory search has.                 *)
THEOREM TypeCorrect == Spec => []TypeOK
<1>1. IInv /\ Books => TypeOK
  BY Counts DEF IInv, Books, ErrTyped, ErrStates, TypeOK
<1> QED
  BY <1>1, BooksKept, PTL

(* No path vector leaks except that of a search the program began anew,    *)
(* and none is freed twice, for any number of DTAs and searches.           *)
THEOREM NoVectorLost == Spec => []VectorsAccounted
<1>1. Books => VectorsAccounted
  BY DEF Books
<1> QED
  BY <1>1, BooksKept, PTL

(* INT 21h AH=59h reports the code a failed INT 21h search service         *)
(* returned, for every errno glob may fail with.                           *)
THEOREM ErrorIsReported == Spec => []IntErrorReported
<1>1. Books => IntErrorReported
  BY DEF Books
<1> QED
  BY <1>1, BooksKept, PTL

-----------------------------------------------------------------------------
(* Directory search implements FindSpec: every step is a step of it, or    *)
(* changes nothing it speaks of.                                           *)

Left(f) == SubSeq(f.pathv, f.pathi + 1, Len(f.pathv))
Remaining == [d \in Dtas |-> Left(dta[d])]
Wanted == [d \in Dtas |-> dta[d].want]

LEMMA LeftMore ==
  ASSUME NEW f \in FindT, Shape(f), More(f)
  PROVE  /\ Left(f) # <<>>
         /\ Head(Left(f)) = f.pathv[f.pathi + 1]
         /\ Left(Advance(f)) = Tail(Left(f))
<1>1. f.pathv \in Seq(Files) /\ f.pathi \in Nat /\ f.pathc \in Nat /\ Len(f.pathv) \in Nat
  BY DEF FindT
<1>2. f.pathi + 1 \in 1..Len(f.pathv) /\ Len(f.pathv) \in f.pathi + 1..Len(f.pathv)
  BY <1>1, MoreHasVector DEF Shape, More
<1>3. /\ Head(Left(f)) = f.pathv[f.pathi + 1]
      /\ Tail(Left(f)) = SubSeq(f.pathv, (f.pathi + 1) + 1, Len(f.pathv))
  BY <1>1, <1>2, HeadTailOfSubSeq DEF Left
<1>4. Left(f) # <<>>
  <2>1. \A i \in f.pathi + 1..Len(f.pathv) : f.pathv[i] \in Files
    BY <1>1
  <2>2. f.pathi + 1 \in Int /\ Len(f.pathv) \in Int /\ f.pathi + 1 <= Len(f.pathv)
    BY <1>1, <1>2
  <2>3. Len(Left(f)) = Len(f.pathv) - (f.pathi + 1) + 1
    BY <2>1, <2>2, SubSeqProperties DEF Left
  <2> QED
    BY <2>2, <2>3
<1> QED
  BY <1>3, <1>4, AdvanceType DEF Left

LEMMA LeftEmpty ==
  ASSUME NEW f \in FindT, Shape(f), f.pathv = NoVector \/ f.pathi = f.pathc
  PROVE  Left(f) = <<>>
<1>1. f.pathv \in Seq(Files) /\ f.pathi \in Nat /\ f.pathc \in Nat /\ Len(f.pathv) \in Nat
  BY DEF FindT
<1>2. Len(f.pathv) < f.pathi + 1
  BY <1>1 DEF Shape, NoVector
<1>3. f.pathi + 1 \in Int /\ Len(f.pathv) \in Int
  BY <1>1
<1> QED
  BY <1>2, <1>3, SubSeqEmpty DEF Left

LEMMA NothingLeft ==
  ASSUME NEW f \in FindT, f.pathv = NoVector
  PROVE  Left(f) = <<>>
<1>1. f.pathi \in Nat /\ Len(f.pathv) = 0
  BY DEF FindT, NoVector
<1>2. Len(f.pathv) < f.pathi + 1 /\ f.pathi + 1 \in Int /\ Len(f.pathv) \in Int
  BY <1>1
<1> QED
  BY <1>2, SubSeqEmpty DEF Left

LEMMA RemainingAfter ==
  ASSUME NEW d \in Dtas, NEW f, dta \in [Dtas -> FindT], dta' = [dta EXCEPT ![d] = f]
  PROVE  /\ Remaining' = [Remaining EXCEPT ![d] = Left(f)]
         /\ Wanted' = [Wanted EXCEPT ![d] = f.want]
<1>1. dta'[d] = f /\ \A x \in Dtas \ {d} : dta'[x] = dta[x]
  OBVIOUS
<1>2. Remaining' = [x \in Dtas |-> Left(dta'[x])] /\ Wanted' = [x \in Dtas |-> dta'[x].want]
  BY DEF Remaining, Left, Wanted
<1> QED
  BY <1>1, <1>2 DEF Remaining, Wanted

(* A call is in progress just if some DTA is busy.                         *)
LEMMA QuietIsIdle ==
  ASSUME IInv, Books
  PROVE  Search!Quiet <=> Idle
  BY DEF IInv, FindTypeOK, Books, OutcomeOfVector, Search!Quiet, Search!Searching

LEMMA BusyIsSearching ==
  ASSUME IInv, Books, NEW d, d = current_dta, Busy
  PROVE  Search!Searching(d) /\ d \in Dtas
  BY DEF IInv, FindTypeOK, Books, OutcomeOfVector, Search!Searching, Busy, Idle

(* The selection of findnext is the one the specification asks for.        *)
LEMMA SelectedIsEligible ==
  ASSUME NEW want, NEW kind, kind # "none"
  PROVE  Selected(want, AttrOf(kind), kind) <=> Search!Eligible(want, kind)
<1>1. AttrOf(kind) = Search!AttrOf(kind)
  BY DEF AttrOf, Search!AttrOf
<1> QED
  BY <1>1 DEF Selected, Search!Eligible

LEMMA InitRefines == Init => Search!Init
<1> SUFFICES ASSUME Init PROVE Search!Init
  OBVIOUS
<1>1. \A d \in Dtas : dta[d] \in FindT /\ dta[d].pathv = NoVector /\ dta[d].want = {}
  BY InitIInv DEF IInv, FindTypeOK, Init
<1>2. Remaining = [d \in Dtas |-> <<>>] /\ Wanted = [d \in Dtas |-> {}]
  BY <1>1, NothingLeft DEF Remaining, Wanted
<1>3. ret.entry = Search!NoFile
  BY DEF Init, NoReturn, NoFile, Search!NoFile
<1> QED
  BY <1>2, <1>3 DEF Init, Search!Init, Remaining, Left, Wanted

(* Passing over an entry.                                                  *)
LEMMA ContinueRefines ==
  ASSUME IInv, Books, NEW d, d = current_dta, Busy, More(cdta), NEW e, Continue(e),
         \/ ~ Search!Eligible(cdta.want, fs[CurrentFile])
         \/ CurrentFile \in touched
  PROVE  Search!Skip(d)
<1>1. current_dta \in Dtas /\ cdta \in FindT /\ Shape(cdta) /\ dta \in [Dtas -> FindT]
  BY CurrentDta DEF IInv, FindTypeOK
<1>2. PICK f : f = Advance(cdta)
  OBVIOUS
<1>3. dta' = [dta EXCEPT ![current_dta] = f]
  BY <1>2 DEF Continue, DtaAdvanced, cdta
<1>4. f.want = cdta.want
  BY <1>1, <1>2 DEF Advance, FindT
<1>5. /\ Remaining[current_dta] = Left(cdta) /\ Left(cdta) # <<>>
      /\ Head(Left(cdta)) = CurrentFile /\ Left(f) = Tail(Left(cdta))
      /\ Wanted[current_dta] = cdta.want
  BY <1>1, <1>2, LeftMore DEF Remaining, Wanted, CurrentFile, cdta
<1>6. Remaining' = [Remaining EXCEPT ![current_dta] = Tail(@)] /\ Wanted' = Wanted
  BY <1>1, <1>3, <1>4, <1>5, RemainingAfter DEF Remaining, Wanted
<1>7. UNCHANGED <<fs, touched, ret, outcome>>
  BY DEF Continue, seen
<1>8. Search!Searching(d)
  BY BusyIsSearching
<1> QED
  BY <1>5, <1>6, <1>7, <1>8 DEF Search!Skip, Remaining, Left, Wanted

(* A search begins with the matches of its pattern.                        *)
LEMMA FindFirstRefines ==
  ASSUME IInv, Books, NEW api \in Apis, NEW d \in Dtas, NEW S \in Matches,
         NEW matches \in Orderings(S), NEW attrs \in SearchAttrs,
         FindFirst(api, d, matches, attrs)
  PROVE  Search!Begin(d, matches, attrs) /\ \E n \in 1..Cardinality(Files) : matches \in [1..n -> Files]
<1>1. dta \in [Dtas -> FindT] /\ Idle
  BY DEF IInv, FindTypeOK, FindFirst, Callable
<1>2. matches \in Seq(Files) /\ Len(matches) \in Nat
  BY OrderingType
<1>3. PICK f : f = Globbed(dta[d], matches, attrs)
  OBVIOUS
<1>4. dta' = [dta EXCEPT ![d] = f] /\ f.pathv = matches /\ f.pathi = 0 /\ f.want = attrs
  <2>1. dta[d] \in FindT /\ GlobReset(dta[d]) \in FindT
    BY <1>1, ResetShape
  <2> QED
    BY <1>3, <2>1 DEF FindFirst, Globbed, FindT
<1>5. Left(f) = matches
  BY <1>2, <1>4, SubSeqFull DEF Left
<1>6. Remaining' = [Remaining EXCEPT ![d] = matches] /\ Wanted' = [Wanted EXCEPT ![d] = attrs]
  BY <1>1, <1>4, <1>5, RemainingAfter
<1>7. S \subseteq Files /\ S # {} /\ IsFiniteSet(S) /\ \A x \in S : fs[x] # "none"
  BY FileAssumption, FS_Subset DEF Matches
<1>8. PICK n \in Nat : n = Cardinality(S)
  BY <1>7, FS_CardinalityType
<1>9. matches \in [1..n -> S] /\ { matches[i] : i \in DOMAIN matches } = S
  BY <1>8 DEF Orderings
<1>10. n \in 1..Cardinality(Files) /\ matches \in [1..n -> Files]
  <2>1. n <= Cardinality(Files) /\ Cardinality(Files) \in Nat
    BY <1>7, <1>8, FileAssumption, FS_Subset, FS_CardinalityType
  <2>2. n # 0
    BY <1>7, <1>8, FS_EmptySet
  <2> QED
    BY <1>7, <1>9, <2>1, <2>2
<1>11. \A i, j \in DOMAIN matches : matches[i] = matches[j] => i = j
  <2>1. matches \in Surjection(1..n, S)
    BY <1>9 DEF Surjection
  <2>2. IsFiniteSet(1..n) /\ Cardinality(1..n) = n
    BY FS_Interval
  <2>3. matches \in Injection(1..n, S)
    BY <1>8, <2>1, <2>2, FS_SurjSameCardinalityImpliesInj
  <2> QED
    BY <1>9, <2>3 DEF Injection, IsInjective
<1>12. \A i \in DOMAIN matches : fs[matches[i]] # "none"
  BY <1>7, <1>9
<1>13. /\ outcome' = [outcome EXCEPT ![d] = "busy"] /\ ret'.entry = Search!NoFile
       /\ UNCHANGED <<fs, touched>>
  BY DEF FindFirst, Enter, NoReturn, NoFile, Search!NoFile
<1>14. Search!Quiet
  BY <1>1, QuietIsIdle
<1> QED
  BY <1>6, <1>10, <1>11, <1>12, <1>13, <1>14 DEF Search!Begin, Remaining, Left, Wanted

LEMMA FindFirstFailsRefines ==
  ASSUME IInv, Books, NEW api \in Apis, NEW d \in Dtas, NEW e, FindFirstFails(api, d, e)
  PROVE  Search!BeginFails(d)
<1>1. dta \in [Dtas -> FindT] /\ Idle
  BY DEF IInv, FindTypeOK, FindFirstFails, Callable
<1>2. PICK f : f = GlobReset(dta[d])
  OBVIOUS
<1>3. dta' = [dta EXCEPT ![d] = f] /\ f \in FindT /\ f.pathv = NoVector /\ f.want = dta[d].want
  <2>1. dta[d] \in FindT /\ f \in FindT
    BY <1>1, <1>2, ResetShape
  <2> QED
    BY <1>2, <2>1 DEF FindFirstFails, GlobReset, FindT
<1>4. Remaining' = [Remaining EXCEPT ![d] = <<>>] /\ Wanted' = Wanted
  <2>1. Left(f) = <<>>
    BY <1>3, NothingLeft
  <2>2. /\ Remaining' = [Remaining EXCEPT ![d] = Left(f)]
        /\ Wanted' = [Wanted EXCEPT ![d] = f.want]
    BY <1>1, <1>3, RemainingAfter
  <2>3. [Wanted EXCEPT ![d] = f.want] = Wanted
    BY <1>3 DEF Wanted
  <2> QED
    BY <2>1, <2>2, <2>3
<1>5. /\ outcome' = [outcome EXCEPT ![d] = "failed"] /\ ret'.entry = Search!NoFile
      /\ touched' = {} /\ touched = {} /\ fs' = fs
  BY <1>1 DEF FindFirstFails, Return, NoFile, Search!NoFile, Books, CallIsFresh
<1>6. Search!Quiet
  BY <1>1, QuietIsIdle
<1> QED
  BY <1>4, <1>5, <1>6 DEF Search!BeginFails, Remaining, Left, Wanted

LEMMA FindNextRefines ==
  ASSUME IInv, Books, NEW api \in Apis, NEW d \in Dtas, FindNext(api, d)
  PROVE  Search!Resume(d)
<1>1. Idle /\ dta' = dta /\ UNCHANGED <<fs, touched>>
  BY DEF FindNext, Callable
<1>2. outcome' = [outcome EXCEPT ![d] = "busy"] /\ ret'.entry = Search!NoFile
  BY DEF FindNext, Enter, NoReturn, NoFile, Search!NoFile
<1>3. Search!Quiet
  BY <1>1, QuietIsIdle
<1> QED
  BY <1>1, <1>2, <1>3 DEF Search!Resume

LEMMA GetFileAttrRefines ==
  ASSUME IInv, Books, NEW d, d = current_dta, GetFileAttr
  PROVE  Search!Skip(d) \/ UNCHANGED Search!vars
<1>1. Busy /\ More(cdta)
  BY DEF GetFileAttr, Busy
<1>2. CASE fs[CurrentFile] = "none" /\ Continue(ReportLibc(err, "ENOENT"))
  <2>1. ~ Search!Eligible(cdta.want, fs[CurrentFile])
    BY <1>2 DEF Search!Eligible
  <2> QED
    BY <1>1, <1>2, <2>1, ContinueRefines
<1>3. CASE \E pc, attrib, e : GoOn(pc, attrib, e)
  BY <1>3 DEF GoOn, seen, Search!vars
<1> QED
  BY <1>2, <1>3 DEF GetFileAttr

LEMMA AccessRefines ==
  ASSUME IInv, Books, NEW d, d = current_dta, Access
  PROVE  Search!Skip(d) \/ UNCHANGED Search!vars
<1>1. Busy /\ More(cdta)
  BY DEF Access, Busy, IInv, EntryHeld
<1>2. CASE fs[CurrentFile] = "none" /\ Continue(ReportLibc(err, "ENOENT"))
  <2>1. ~ Search!Eligible(cdta.want, fs[CurrentFile])
    BY <1>2 DEF Search!Eligible
  <2> QED
    BY <1>1, <1>2, <2>1, ContinueRefines
<1>3. CASE \E pc, attrib, e : GoOn(pc, attrib, e)
  BY <1>3 DEF GoOn, seen, Search!vars
<1> QED
  BY <1>2, <1>3 DEF Access

(* An entry is passed over after the stat only if it is not asked for, or  *)
(* changed since its attributes were read.                                 *)
LEMMA StatSkipsRefines ==
  ASSUME IInv, Books, NEW d, d = current_dta, StatSkips
  PROVE  Search!Skip(d)
<1>1. Busy /\ More(cdta)
  BY DEF StatSkips, Busy, IInv, EntryHeld
<1>2. PICK e : Continue(e)
  BY DEF StatSkips
<1>3. CurrentFile \notin touched => ~ Search!Eligible(cdta.want, fs[CurrentFile])
  <2>1. SUFFICES ASSUME CurrentFile \notin touched
                 PROVE  ~ Search!Eligible(cdta.want, fs[CurrentFile])
    OBVIOUS
  <2>2. fs[CurrentFile] # "none" /\ call.attrib = AttrOf(fs[CurrentFile])
    BY <2>1 DEF StatSkips, Books, EntryKnown
  <2>3. ~ Selected(cdta.want, call.attrib, fs[CurrentFile])
    BY <2>2 DEF StatSkips, StatSelected
  <2> QED
    BY <2>2, <2>3, SelectedIsEligible
<1> QED
  BY <1>1, <1>2, <1>3, ContinueRefines

LEMMA StatFindsRefines ==
  ASSUME IInv, Books, NEW d, d = current_dta, StatFinds
  PROVE  Search!Found(d)
<1>1. /\ Busy /\ More(cdta) /\ fs[CurrentFile] # "none"
      /\ Selected(cdta.want, call.attrib, fs[CurrentFile])
  BY DEF StatFinds, StatSelected, Busy, IInv, EntryHeld
<1>2. current_dta \in Dtas /\ cdta \in FindT /\ Shape(cdta) /\ dta \in [Dtas -> FindT]
  BY CurrentDta DEF IInv, FindTypeOK
<1>3. PICK f : f = Advance(cdta)
  OBVIOUS
<1>4. dta' = [dta EXCEPT ![current_dta] = f]
  BY <1>3 DEF StatFinds, DtaAdvanced, cdta
<1>5. f.want = cdta.want
  BY <1>2, <1>3 DEF Advance, FindT
<1>6. /\ Remaining[current_dta] = Left(cdta) /\ Left(cdta) # <<>>
      /\ Head(Left(cdta)) = CurrentFile /\ Left(f) = Tail(Left(cdta))
      /\ Wanted[current_dta] = cdta.want
  BY <1>1, <1>2, <1>3, LeftMore DEF Remaining, Wanted, CurrentFile, cdta
<1>7. Remaining' = [Remaining EXCEPT ![current_dta] = Tail(@)] /\ Wanted' = Wanted
  BY <1>2, <1>4, <1>5, <1>6, RemainingAfter DEF Remaining, Wanted
<1>8. /\ ret'.entry = CurrentFile /\ touched' = {} /\ fs' = fs
      /\ outcome' = [outcome EXCEPT ![current_dta] = "found"]
  BY DEF StatFinds, Return
<1>9. CurrentFile \notin touched => Search!Eligible(cdta.want, fs[CurrentFile])
  <2>1. SUFFICES ASSUME CurrentFile \notin touched
                 PROVE  Search!Eligible(cdta.want, fs[CurrentFile])
    OBVIOUS
  <2>2. call.attrib = AttrOf(fs[CurrentFile])
    BY <2>1 DEF StatFinds, StatSelected, Books, EntryKnown
  <2> QED
    BY <1>1, <2>2, SelectedIsEligible
<1>10. Search!Searching(d)
  BY <1>1, BusyIsSearching
<1> QED
  BY <1>1, <1>6, <1>7, <1>8, <1>9, <1>10 DEF Search!Found, Remaining, Left, Wanted

(* What was reported when the call began is what FindSpec knows: nothing.  *)
LEMMA ReportsNothing ==
  ASSUME Books, Busy, NEW api, NEW prev, NEW d, NEW code, NEW e, NEW result,
         Return(api, prev, d, code, e, result, NoFile)
  PROVE  ret'.entry = ret.entry
  BY DEF Books, CallIsFresh, Busy, Idle, NoReturn, Return

LEMMA StatBadTimeRefines ==
  ASSUME IInv, Books, NEW d, d = current_dta, StatBadTime
  PROVE  Search!BadTime(d)
<1>1. Busy /\ More(cdta) /\ fs[CurrentFile] = "odd"
  BY DEF StatBadTime, StatSelected, Busy, IInv, EntryHeld
<1>2. current_dta \in Dtas /\ cdta \in FindT /\ Shape(cdta)
  BY CurrentDta DEF IInv, FindTypeOK
<1>3. /\ Remaining[current_dta] = Left(cdta) /\ Left(cdta) # <<>>
      /\ Head(Left(cdta)) = CurrentFile
  BY <1>1, <1>2, LeftMore DEF Remaining, CurrentFile, cdta
<1>4. PICK e : Return(call.api, call.prev, current_dta, "BAD_ARGUMENTS", e, "error", NoFile)
  BY DEF StatBadTime
<1>5. /\ ret'.entry = ret.entry /\ touched' = {} /\ fs' = fs /\ dta' = dta
      /\ outcome' = [outcome EXCEPT ![current_dta] = "error"]
  BY <1>1, <1>4, ReportsNothing DEF StatBadTime, Return
<1>6. Search!Searching(d)
  BY <1>1, BusyIsSearching
<1> QED
  BY <1>1, <1>3, <1>5, <1>6 DEF Search!BadTime, Remaining, Left

LEMMA ExhaustedRefines ==
  ASSUME IInv, Books, NEW d, d = current_dta, Exhausted
  PROVE  Search!NoMoreFiles(d)
<1>1. Busy /\ cdta.pathi = cdta.pathc
  BY DEF Exhausted, Busy
<1>2. current_dta \in Dtas /\ cdta \in FindT /\ Shape(cdta) /\ dta \in [Dtas -> FindT]
  BY CurrentDta DEF IInv, FindTypeOK
<1>3. PICK f : f = GlobFreed(cdta)
  OBVIOUS
<1>4. dta' = [dta EXCEPT ![current_dta] = f]
  BY <1>3 DEF Exhausted, cdta
<1>5. f \in FindT /\ f.pathv = NoVector /\ f.want = cdta.want
  <2>1. f \in FindT
    BY <1>1, <1>2, <1>3, FreedShape
  <2> QED
    BY <1>2, <1>3, <2>1 DEF GlobFreed, FindT
<1>6. Left(cdta) = <<>> /\ Left(f) = <<>>
  BY <1>1, <1>2, <1>5, LeftEmpty, NothingLeft
<1>7. Remaining[current_dta] = <<>> /\ Wanted[current_dta] = cdta.want
  BY <1>2, <1>6 DEF Remaining, Wanted, cdta
<1>8. Remaining' = Remaining /\ Wanted' = Wanted
  <2>1. /\ Remaining' = [Remaining EXCEPT ![current_dta] = Left(f)]
        /\ Wanted' = [Wanted EXCEPT ![current_dta] = f.want]
    BY <1>2, <1>4, RemainingAfter
  <2>2. [Remaining EXCEPT ![current_dta] = Left(f)] = Remaining
    BY <1>6, <1>7 DEF Remaining
  <2>3. [Wanted EXCEPT ![current_dta] = f.want] = Wanted
    BY <1>5, <1>7 DEF Wanted
  <2> QED
    BY <2>1, <2>2, <2>3
<1>9. PICK e : Return(call.api, call.prev, current_dta, "NO_MORE_FILES", e, "done", NoFile)
  BY DEF Exhausted
<1>10. /\ ret'.entry = ret.entry /\ touched' = {} /\ fs' = fs
       /\ outcome' = [outcome EXCEPT ![current_dta] = "done"]
  <2>1. ret'.entry = ret.entry
    BY <1>1, <1>9, ReportsNothing
  <2> QED
    BY <1>9, <2>1 DEF Exhausted, Return
<1>11. Search!Searching(d)
  BY <1>1, BusyIsSearching
<1> QED
  BY <1>7, <1>8, <1>10, <1>11 DEF Search!NoMoreFiles, Remaining, Left, Wanted

LEMMA ChangeRefines ==
  ASSUME IInv, Books, NEW f \in Files, NEW kind \in Kinds, Change(f, kind)
  PROVE  Search!Change(f, kind)
<1>1. Search!Quiet <=> Idle
  BY QuietIsIdle
<1> QED
  BY <1>1 DEF Change, Search!Change, lib, seen

LEMMA NextRefines ==
  ASSUME IInv, Books, [Next]_vars
  PROVE  [Search!Next]_(Search!vars)
<1>1. CASE LibraryStep
  <2>1. PICK d \in Dtas : d = current_dta
    BY DEF IInv, FindTypeOK
  <2>2. CASE AssertFails
    BY <2>2 DEF AssertFails, seen, Search!vars
  <2>3. CASE ~ AssertFails
    <3>1. \/ Search!Skip(d) \/ Search!Found(d) \/ Search!BadTime(d) \/ Search!NoMoreFiles(d)
          \/ UNCHANGED Search!vars
      BY <1>1, <2>1, <2>3, GetFileAttrRefines, AccessRefines, StatSkipsRefines, StatFindsRefines,
         StatBadTimeRefines, ExhaustedRefines DEF LibraryStep
    <3> QED
      BY <3>1 DEF Search!Next
  <2> QED
    BY <2>2, <2>3
<1>2. CASE ProgramCall
  <2>1. ASSUME NEW d \in Dtas, SetDtaAddr(d)
        PROVE  UNCHANGED Search!vars
    BY <2>1 DEF SetDtaAddr, Search!vars
  <2>2. ASSUME NEW d \in Dtas, NEW api \in Apis, NEW S \in Matches,
               NEW matches \in Orderings(S), NEW attrs \in SearchAttrs,
               FindFirst(api, d, matches, attrs)
        PROVE  Search!Next
    <3>1. /\ Search!Begin(d, matches, attrs)
          /\ \E n \in 1..Cardinality(Files) : matches \in [1..n -> Files]
      BY <2>2, FindFirstRefines
    <3>2. Search!Cardinality(Files) = Cardinality(Files)
      BY DEF Cardinality, Search!Cardinality
    <3> QED
      BY <3>1, <3>2 DEF Search!Next
  <2>3. ASSUME NEW d \in Dtas, NEW api \in Apis, NEW e \in GlobErrors, FindFirstFails(api, d, e)
        PROVE  Search!Next
    BY <2>3, FindFirstFailsRefines DEF Search!Next
  <2>4. ASSUME NEW d \in Dtas, NEW api \in Apis, FindNext(api, d)
        PROVE  Search!Next
    BY <2>4, FindNextRefines DEF Search!Next
  <2> QED
    BY <1>2, <2>1, <2>2, <2>3, <2>4 DEF ProgramCall
<1>3. ASSUME NEW f \in Files, NEW kind \in Kinds, Change(f, kind)
      PROVE  Search!Next
  BY <1>3, ChangeRefines DEF Search!Next
<1>4. CASE UNCHANGED vars
  BY <1>4 DEF vars, lib, seen, Search!vars
<1> QED
  BY <1>1, <1>2, <1>3, <1>4 DEF Next

(* Whatever other processes do meanwhile, the searches hand out each entry *)
(* that matched at most once and in order, pass over none that qualifies   *)
(* and stayed as it was, report the end only when nothing is left, and do  *)
(* not disturb each other: they behave as FindSpec says.                   *)
THEOREM Implementation == Spec => ImplementsFindSpec
<1>1. Init => Search!Init
  BY InitRefines
<1>2. (IInv /\ Books) /\ [Next]_vars => [Search!Next]_(Search!vars)
  BY NextRefines
<1> QED
  BY <1>1, <1>2, BooksKept, PTL DEF Spec, ImplementsFindSpec, Search!Spec

=============================================================================
