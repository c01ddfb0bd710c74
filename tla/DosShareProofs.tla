--------------------------- MODULE DosShareProofs ---------------------------
(***************************************************************************)
(* Proofs about file handles and share modes (DosShare), for any programs, *)
(* files, modes and number of descriptors.                                 *)
(***************************************************************************)
EXTENDS DosShare, TLAPS, FiniteSetTheorems, WellFoundedInduction

(* What a program has of its descriptors: its handles, and the one being   *)
(* locked, which was opened with a share mode.                             *)
Owned ==
  \A p \in Procs :
    /\ handles[p] \cup opening[p] \subseteq OpenFds(p)
    /\ handles[p] \cap opening[p] = {}
    /\ \A fd \in opening[p] : opening[p] = {fd} /\ fds[p][fd].share # "DENYNO"

(* The locks of two programs on a file are compatible.                     *)
LocksCompatible ==
  \A p, q \in Procs, f \in Files :
    p # q /\ locks[p][f] = "write" => locks[q][f] = "none"

(* A program that never had two handles of a file holds the lock that its  *)
(* one handle was opened for.                                              *)
LockOfHandle ==
  \A p \in Procs, f \in Files :
    <<p, f>> \notin reopened =>
      /\ \A h, k \in HandlesOf(p, f) : h = k
      /\ \A h \in HandlesOf(p, f) :
           fds[p][h].share # "DENYNO" => locks[p][f] = LockType(fds[p][h].share)

IInv ==
  /\ TypeOK /\ Owned /\ FdsAccounted
  /\ NoOrphanLock /\ LocksCompatible /\ LockOfHandle

-----------------------------------------------------------------------------
(* Descriptors.                                                            *)

LEMMA OpenIsNotClosed == Closed \notin Descriptions
  BY DEF Closed, Descriptions, Accesses

LEMMA OpenFdsFinite ==
  ASSUME NEW S \in SUBSET Fd
  PROVE  IsFiniteSet(S) /\ Cardinality(S) \in Nat
<1>1. IsFiniteSet(Fd)
  BY FdsAssumption, FS_Interval DEF Fd
<1> QED
  BY <1>1, FS_Subset, FS_CardinalityType

LEMMA OneFdMore ==
  ASSUME NEW S \in SUBSET Fd, NEW fd \in Fd \ S
  PROVE  Cardinality(S \cup {fd}) = Cardinality(S) + 1
<1>1. IsFiniteSet(S)
  BY OpenFdsFinite
<1> QED
  BY <1>1, FS_AddElement

LEMMA OneFdLess ==
  ASSUME NEW S \in SUBSET Fd, NEW fd \in S
  PROVE  Cardinality(S \ {fd}) = Cardinality(S) - 1
<1>1. IsFiniteSet(S)
  BY OpenFdsFinite
<1> QED
  BY <1>1, FS_RemoveElement

(* A program without all its descriptors open has a lowest one that is not.*)
LEMMA LowestFreeType ==
  ASSUME NEW p, OpenFds(p) # Fd
  PROVE  LowestFree(p) \in Fd \ OpenFds(p)
<1> DEFINE F == Fd \ OpenFds(p)
<1>1. F \in SUBSET Nat /\ OpenFds(p) \subseteq Fd
  BY FdsAssumption DEF Fd, OpenFds
<1>2. PICK fd \in F : TRUE
  BY <1>1
<1>3. \E m \in F : \A k \in F : m <= k
  <2> DEFINE less == { ss \in Nat \X Nat : ss[1] < ss[2] }
  <2>1. IsWellFoundedOn(less, Nat)
    BY NatLessThanWellFounded DEF OpToRel
  <2>2. PICK m \in F : \A k \in F : ~ (<<k, m>> \in less)
    <3> HIDE DEF less
    <3> QED
      BY <1>1, <1>2, <2>1, WFMin
  <2>3. ASSUME NEW k \in F PROVE m <= k
    <3>1. k \in Nat /\ m \in Nat /\ ~ (<<k, m>> \in less)
      BY <1>1, <2>2
    <3>2. ~ (k < m)
      BY <3>1
    <3> QED
      BY <3>1, <3>2
  <2> QED
    BY <2>3
<1> QED
  BY <1>3 DEF LowestFree

(* A descriptor opened is the only one that changed.                       *)
LEMMA FdOpened ==
  ASSUME TypeOK, NEW p \in Procs, NEW fd \in Fd \ OpenFds(p), NEW o \in Descriptions,
         fds' = [fds EXCEPT ![p][fd] = o]
  PROVE  /\ fds' \in [Procs -> [Fd -> Descriptions \cup {Closed}]]
         /\ fds'[p][fd] = o
         /\ \A x \in Fd \ {fd} : fds'[p][x] = fds[p][x]
         /\ \A q \in Procs \ {p} : fds'[q] = fds[q]
         /\ OpenFds(p)' = OpenFds(p) \cup {fd}
         /\ \A q \in Procs \ {p} : OpenFds(q)' = OpenFds(q)
<1>1. /\ fds' \in [Procs -> [Fd -> Descriptions \cup {Closed}]]
      /\ fds'[p][fd] = o
      /\ \A x \in Fd \ {fd} : fds'[p][x] = fds[p][x]
      /\ \A q \in Procs \ {p} : fds'[q] = fds[q]
  BY DEF TypeOK
<1> QED
  BY <1>1, OpenIsNotClosed DEF OpenFds

-----------------------------------------------------------------------------
LEMMA InitIInv == Init => IInv
<1> SUFFICES ASSUME Init PROVE IInv
  OBVIOUS
<1>1. TypeOK
  BY DEF Init, TypeOK, Creations, Nothing, Contents
<1>2. \A p \in Procs : OpenFds(p) = {} /\ handles[p] = {} /\ opening[p] = {} /\ refused[p] = 0
  BY DEF Init, OpenFds
<1>3. FdsAccounted
  BY <1>2, FS_EmptySet DEF FdsAccounted
<1>4. Owned /\ NoOrphanLock /\ LocksCompatible /\ LockOfHandle
  BY <1>2 DEF Init, Owned, NoOrphanLock, LocksCompatible, LockOfHandle, HandlesOf
<1> QED
  BY <1>1, <1>3, <1>4 DEF IInv

(* Lock types.                                                             *)
LEMMA LockTypes ==
  ASSUME NEW share
  PROVE  /\ LockType(share) \in {"read", "write"}
         /\ share \in {"DENYRW", "DENYWR", "DENYRD"} => LockType(share) = "write"
  BY DEF LockType

(* The descriptors add up for all programs if they do for the one that     *)
(* made the step.                                                          *)
AccountedOf(p) ==
  Cardinality(OpenFds(p)) = Cardinality(handles[p]) + Cardinality(opening[p]) + refused[p]

LEMMA AccountedStep ==
  ASSUME FdsAccounted, NEW p \in Procs, AccountedOf(p)',
         \A q \in Procs \ {p} : /\ OpenFds(q)' = OpenFds(q) /\ handles'[q] = handles[q]
                               /\ opening'[q] = opening[q] /\ refused'[q] = refused[q]
  PROVE  FdsAccounted'
  BY DEF FdsAccounted, AccountedOf

LEMMA AccountedNow ==
  ASSUME IInv, NEW p \in Procs
  PROVE  /\ AccountedOf(p) /\ refused[p] \in Nat
         /\ OpenFds(p) \in SUBSET Fd /\ Cardinality(OpenFds(p)) \in Nat
         /\ handles[p] \in SUBSET Fd /\ Cardinality(handles[p]) \in Nat
         /\ opening[p] \in SUBSET Fd /\ Cardinality(opening[p]) \in Nat
<1>1. OpenFds(p) \in SUBSET Fd /\ handles[p] \in SUBSET Fd /\ opening[p] \in SUBSET Fd
  BY DEF IInv, TypeOK, OpenFds
<1> QED
  BY <1>1, OpenFdsFinite DEF IInv, TypeOK, FdsAccounted, AccountedOf

(* A service that opens a file returns the descriptor at once, or locks it *)
(* first.                                                                  *)
Opens(p, f, access, share) ==
  /\ OpenFds(p) # Fd /\ opening[p] = {}
  /\ LET fd == LowestFree(p)
     IN  /\ fds' = [fds EXCEPT ![p][fd] = Opened(f, access, share)]
         /\ IF share = "DENYNO"
              THEN Returned(p, f, fd) /\ UNCHANGED opening
              ELSE /\ opening' = [opening EXCEPT ![p] = {fd}]
                   /\ UNCHANGED <<handles, reopened>>
  /\ UNCHANGED <<locks, refused>>

LEMMA OpensStep ==
  ASSUME IInv, NEW p \in Procs, NEW f \in Files, NEW access \in Accesses, NEW share \in Shares,
         Opens(p, f, access, share),
         file' \in [Files -> [content : Contents, ro : BOOLEAN]],
         created' \in [Procs -> Creations]
  PROVE  IInv'
<1> DEFINE fd == LowestFree(p)
           o == Opened(f, access, share)
<1>1. TypeOK /\ fd \in Fd \ OpenFds(p) /\ o \in Descriptions /\ o.file = f /\ o.share = share
  BY LowestFreeType DEF IInv, Opens, Opened, Descriptions
<1>2. /\ fds' \in [Procs -> [Fd -> Descriptions \cup {Closed}]]
      /\ fds'[p][fd] = o
      /\ \A x \in Fd \ {fd} : fds'[p][x] = fds[p][x]
      /\ \A q \in Procs \ {p} : fds'[q] = fds[q]
      /\ OpenFds(p)' = OpenFds(p) \cup {fd}
      /\ \A q \in Procs \ {p} : OpenFds(q)' = OpenFds(q)
  BY <1>1, FdOpened DEF Opens
<1>3. UNCHANGED <<locks, refused>> /\ opening[p] = {}
  BY DEF Opens
<1>4. \A q \in Procs : /\ handles[q] \subseteq OpenFds(q) /\ opening[q] \subseteq OpenFds(q)
                       /\ handles[q] \cap opening[q] = {} /\ OpenFds(q) \subseteq Fd
  BY DEF IInv, Owned, OpenFds
<1>5. /\ fd \notin handles[p] /\ fd \notin opening[p]
      /\ \A q \in Procs : \A x \in handles[q] \cup opening[q] : fds'[q][x] = fds[q][x]
  BY <1>1, <1>2, <1>4
<1>6. /\ AccountedOf(p) /\ refused[p] \in Nat
      /\ OpenFds(p) \in SUBSET Fd /\ Cardinality(OpenFds(p)) \in Nat
      /\ handles[p] \in SUBSET Fd /\ Cardinality(handles[p]) \in Nat
      /\ opening[p] \in SUBSET Fd /\ Cardinality(opening[p]) \in Nat
  BY AccountedNow
<1>7. CASE share = "DENYNO"
  <2>1. /\ handles' = [handles EXCEPT ![p] = @ \cup {fd}] /\ opening' = opening
        /\ reopened' = IF HandlesOf(p, f) # {} THEN reopened \cup {<<p, f>>} ELSE reopened
    BY <1>7 DEF Opens, Returned
  <2>2. /\ handles'[p] = handles[p] \cup {fd}
        /\ \A q \in Procs \ {p} : handles'[q] = handles[q]
    BY <1>1, <2>1 DEF TypeOK
  <2>3. TypeOK'
    BY <1>1, <1>2, <1>3, <2>1 DEF TypeOK
  <2>4. Owned'
    BY <1>1, <1>2, <1>3, <1>4, <1>5, <2>1, <2>2 DEF IInv, Owned
  <2>5. /\ HandlesOf(p, f)' = HandlesOf(p, f) \cup {fd}
        /\ \A g \in Files \ {f} : HandlesOf(p, g)' = HandlesOf(p, g)
        /\ \A q \in Procs \ {p}, g \in Files : HandlesOf(q, g)' = HandlesOf(q, g)
    BY <1>1, <1>2, <1>5, <2>2 DEF HandlesOf
  <2>6. FdsAccounted'
    <3>1. /\ Cardinality(OpenFds(p)') = Cardinality(OpenFds(p)) + 1
          /\ Cardinality(handles'[p]) = Cardinality(handles[p]) + 1
      BY <1>1, <1>2, <1>5, <1>6, <2>2, OneFdMore
    <3>2. AccountedOf(p)'
      <4>1. opening'[p] = opening[p] /\ refused'[p] = refused[p]
        BY <1>3, <2>1
      <4> QED
        BY <1>6, <3>1, <4>1 DEF AccountedOf
    <3> QED
      BY <1>2, <1>3, <2>1, <2>2, <3>2, AccountedStep DEF IInv
  <2>7. NoOrphanLock'
    BY <1>3, <1>5, <2>2, <2>5 DEF IInv, NoOrphanLock, HandlesOf
  <2>8. LockOfHandle'
    BY <1>1, <1>2, <1>3, <1>5, <1>7, <2>1, <2>2, <2>5, SMTT(30)
       DEF IInv, LockOfHandle, HandlesOf, LockType
  <2> QED
    BY <1>3, <2>3, <2>4, <2>6, <2>7, <2>8 DEF IInv, LocksCompatible
<1>8. CASE share # "DENYNO"
  <2>1. opening' = [opening EXCEPT ![p] = {fd}] /\ UNCHANGED <<handles, reopened>>
    BY <1>8 DEF Opens
  <2>2. opening'[p] = {fd} /\ \A q \in Procs \ {p} : opening'[q] = opening[q]
    BY <1>1, <2>1 DEF TypeOK
  <2>3. TypeOK'
    BY <1>1, <1>2, <1>3, <2>1 DEF TypeOK
  <2>4. Owned'
    BY <1>1, <1>2, <1>3, <1>4, <1>5, <1>8, <2>1, <2>2 DEF IInv, Owned
  <2>5. \A q \in Procs, g \in Files : HandlesOf(q, g)' = HandlesOf(q, g)
    BY <1>5, <2>1 DEF HandlesOf
  <2>6. FdsAccounted'
    <3>1. Cardinality(OpenFds(p)') = Cardinality(OpenFds(p)) + 1
      BY <1>1, <1>2, <1>6, OneFdMore
    <3>2. Cardinality(opening'[p]) = 1 /\ Cardinality(opening[p]) = 0
      BY <1>3, <2>2, FS_Singleton, FS_EmptySet
    <3>3. AccountedOf(p)'
      BY <1>3, <1>6, <2>1, <3>1, <3>2 DEF AccountedOf
    <3> QED
      BY <1>2, <1>3, <2>1, <2>2, <3>3, AccountedStep DEF IInv
  <2>7. NoOrphanLock' /\ LockOfHandle'
    BY <1>3, <1>5, <2>1, <2>5 DEF IInv, NoOrphanLock, LockOfHandle, HandlesOf, LockType
  <2> QED
    BY <1>3, <2>3, <2>4, <2>6, <2>7 DEF IInv, LocksCompatible
<1> QED
  BY <1>7, <1>8

(* The descriptor being locked, and the file it is of.                     *)
LEMMA OpeningFd ==
  ASSUME IInv, NEW p \in Procs, NEW fd \in opening[p]
  PROVE  /\ opening[p] = {fd} /\ fd \in Fd /\ fd \in OpenFds(p) /\ fd \notin handles[p]
         /\ fds[p][fd] \in Descriptions /\ fds[p][fd].file \in Files
         /\ fds[p][fd].share # "DENYNO"
  BY DEF IInv, Owned, TypeOK, OpenFds, Descriptions

LEMMA LockStep ==
  ASSUME IInv, NEW p \in Procs, NEW fd \in Fd, Lock(p, fd)
  PROVE  IInv'
<1>1. PICK o, f : o = fds[p][fd] /\ f = fds[p][fd].file
  OBVIOUS
<1>2. /\ fd \in opening[p] /\ Grants(p, fd) /\ TypeOK
      /\ locks' = [locks EXCEPT ![p][f] = LockType(o.share)]
      /\ Returned(p, f, fd)
      /\ opening' = [opening EXCEPT ![p] = {}]
      /\ UNCHANGED <<file, fds, refused, created>>
  BY <1>1 DEF Lock, IInv
<1>3. /\ opening[p] = {fd} /\ fd \in Fd /\ fd \in OpenFds(p) /\ fd \notin handles[p]
      /\ o \in Descriptions /\ f \in Files /\ o.share # "DENYNO"
  BY <1>2, <1>1, OpeningFd
<1>4. /\ handles' = [handles EXCEPT ![p] = @ \cup {fd}]
      /\ reopened' = IF HandlesOf(p, f) # {} THEN reopened \cup {<<p, f>>} ELSE reopened
  BY <1>2 DEF Returned
<1>5. /\ handles'[p] = handles[p] \cup {fd} /\ opening'[p] = {}
      /\ \A q \in Procs \ {p} : handles'[q] = handles[q] /\ opening'[q] = opening[q]
      /\ \A q \in Procs : OpenFds(q)' = OpenFds(q)
  BY <1>2, <1>4 DEF TypeOK, OpenFds
<1>6. /\ locks' \in [Procs -> [Files -> {"none", "read", "write"}]]
      /\ locks'[p][f] = LockType(o.share)
      /\ \A g \in Files \ {f} : locks'[p][g] = locks[p][g]
      /\ \A q \in Procs \ {p} : locks'[q] = locks[q]
  BY <1>2, <1>3, LockTypes DEF TypeOK
<1>7. /\ HandlesOf(p, f)' = HandlesOf(p, f) \cup {fd}
      /\ \A g \in Files \ {f} : HandlesOf(p, g)' = HandlesOf(p, g)
      /\ \A q \in Procs \ {p}, g \in Files : HandlesOf(q, g)' = HandlesOf(q, g)
  BY <1>2, <1>3, <1>5, <1>1 DEF HandlesOf
<1>8. TypeOK'
  BY <1>2, <1>3, <1>4, <1>6 DEF TypeOK
<1>9. Owned'
  BY <1>2, <1>3, <1>5 DEF IInv, Owned
<1>10. /\ AccountedOf(p) /\ refused[p] \in Nat
       /\ OpenFds(p) \in SUBSET Fd /\ Cardinality(OpenFds(p)) \in Nat
       /\ handles[p] \in SUBSET Fd /\ Cardinality(handles[p]) \in Nat
       /\ opening[p] \in SUBSET Fd /\ Cardinality(opening[p]) \in Nat
  BY AccountedNow
<1>11. FdsAccounted'
  <2>1. Cardinality(handles'[p]) = Cardinality(handles[p]) + 1
    BY <1>3, <1>5, <1>10, OneFdMore
  <2>2. Cardinality(opening[p]) = 1 /\ Cardinality(opening'[p]) = 0
    BY <1>3, <1>5, FS_Singleton, FS_EmptySet
  <2>3. AccountedOf(p)'
    BY <1>2, <1>5, <1>10, <2>1, <2>2 DEF AccountedOf
  <2> QED
    BY <1>2, <1>5, <2>3, AccountedStep DEF IInv
<1>12. NoOrphanLock'
  <2> SUFFICES ASSUME NEW q \in Procs, NEW g \in Files, locks'[q][g] # "none"
               PROVE  \E h \in HandlesOf(q, g)' : fds[q][h].share # "DENYNO"
    BY <1>2 DEF NoOrphanLock
  <2>1. CASE q = p /\ g = f
    <3>1. HandlesOf(q, g)' = HandlesOf(p, f)'
      BY <2>1 DEF HandlesOf
    <3> QED
      BY <1>3, <1>7, <1>1, <2>1, <3>1
  <2>2. CASE ~ (q = p /\ g = f)
    <3>1. locks'[q][g] = locks[q][g] /\ HandlesOf(q, g)' = HandlesOf(q, g)
      BY <1>6, <1>7, <2>2
    <3> QED
      BY <3>1 DEF IInv, NoOrphanLock
  <2> QED
    BY <2>1, <2>2
<1>13. LocksCompatible'
  <2>1. \A q \in Procs \ {p} :
          locks[q][f] = "none" \/ (LockType(o.share) = "read" /\ locks[q][f] = "read")
    BY <1>2, <1>1 DEF Grants, Compatible
  <2>2. \A q \in Procs \ {p} : /\ LockType(o.share) = "write" => locks[q][f] = "none"
                               /\ locks[q][f] # "write"
    BY <2>1
  <2> QED
    BY <1>6, <2>2 DEF IInv, LocksCompatible
<1>14. LockOfHandle'
  <2> SUFFICES ASSUME NEW q \in Procs, NEW g \in Files, <<q, g>> \notin reopened'
               PROVE  /\ \A h, k \in HandlesOf(q, g)' : h = k
                      /\ \A h \in HandlesOf(q, g)' :
                           fds[q][h].share # "DENYNO" => locks'[q][g] = LockType(fds[q][h].share)
    BY <1>2 DEF LockOfHandle, LockType
  <2>1. CASE q = p /\ g = f
    <3>1. HandlesOf(p, f) = {}
      BY <1>4, <2>1
    <3>2. HandlesOf(q, g)' = HandlesOf(p, f)'
      BY <2>1 DEF HandlesOf
    <3> QED
      BY <1>6, <1>7, <1>1, <2>1, <3>1, <3>2
  <2>2. CASE ~ (q = p /\ g = f)
    <3>1. locks'[q][g] = locks[q][g] /\ HandlesOf(q, g)' = HandlesOf(q, g)
      BY <1>6, <1>7, <2>2
    <3>2. <<q, g>> \notin reopened
      BY <1>4
    <3> QED
      BY <3>1, <3>2 DEF IInv, LockOfHandle
  <2> QED
    BY <2>1, <2>2
<1> QED
  BY <1>8, <1>9, <1>11, <1>12, <1>13, <1>14 DEF IInv

LEMMA LockRefusedStep ==
  ASSUME IInv, NEW p \in Procs, NEW fd \in Fd, LockRefused(p, fd) \/ LocksExhausted(p, fd)
  PROVE  IInv'
<1>1. /\ fd \in opening[p] /\ TypeOK
      /\ opening' = [opening EXCEPT ![p] = {}] /\ refused' = [refused EXCEPT ![p] = @ + 1]
      /\ UNCHANGED <<file, fds, locks, handles, reopened, created>>
  BY DEF LockRefused, LocksExhausted, ReturnedError, kernel, IInv
<1>2. opening[p] = {fd}
  BY <1>1, OpeningFd
<1>3. /\ opening'[p] = {} /\ refused'[p] = refused[p] + 1
      /\ \A q \in Procs \ {p} : opening'[q] = opening[q] /\ refused'[q] = refused[q]
      /\ \A q \in Procs : OpenFds(q)' = OpenFds(q)
  BY <1>1 DEF TypeOK, OpenFds
<1>4. TypeOK'
  BY <1>1 DEF TypeOK
<1>5. Owned'
  BY <1>1, <1>3 DEF IInv, Owned
<1>6. /\ AccountedOf(p) /\ refused[p] \in Nat
      /\ OpenFds(p) \in SUBSET Fd /\ Cardinality(OpenFds(p)) \in Nat
      /\ handles[p] \in SUBSET Fd /\ Cardinality(handles[p]) \in Nat
      /\ opening[p] \in SUBSET Fd /\ Cardinality(opening[p]) \in Nat
  BY AccountedNow
<1>7. FdsAccounted'
  <2>1. Cardinality(opening[p]) = 1 /\ Cardinality(opening'[p]) = 0
    BY <1>2, <1>3, FS_Singleton, FS_EmptySet
  <2>2. AccountedOf(p)'
    BY <1>1, <1>3, <1>6, <2>1 DEF AccountedOf
  <2> QED
    BY <1>1, <1>3, <2>2, AccountedStep DEF IInv
<1> QED
  BY <1>1, <1>4, <1>5, <1>7
     DEF IInv, NoOrphanLock, LocksCompatible, LockOfHandle, HandlesOf, LockType

LEMMA CloseStep ==
  ASSUME IInv, NEW p \in Procs, NEW fd \in Fd, Close(p, fd)
  PROVE  IInv'
<1>1. PICK f : f = fds[p][fd].file
  OBVIOUS
<1>2. /\ fd \in handles[p] /\ TypeOK
      /\ handles' = [handles EXCEPT ![p] = @ \ {fd}]
      /\ UNCHANGED <<file, opening, refused, reopened, created>>
  BY DEF Close, IInv
<1>3. fd \in OpenFds(p) /\ fds[p][fd] \in Descriptions /\ fds[p][fd] # Closed /\ f \in Files
  BY <1>2, <1>1 DEF IInv, Owned, OpenFds, TypeOK, Descriptions
<1>4. /\ AfterClose(p, fd) \in [Fd -> Descriptions \cup {Closed}]
      /\ AfterClose(p, fd)[fd] = Closed
      /\ \A x \in Fd \ {fd} : AfterClose(p, fd)[x] = fds[p][x]
  BY <1>2 DEF TypeOK, AfterClose
<1>5. AfterClose(p, fd) # fds[p]
  BY <1>3, <1>4
<1>6. fds' = [fds EXCEPT ![p] = AfterClose(p, fd)] /\ locks' = [locks EXCEPT ![p][f] = "none"]
  BY <1>5, <1>1 DEF Close
<1>7. /\ fds' \in [Procs -> [Fd -> Descriptions \cup {Closed}]]
      /\ fds'[p][fd] = Closed
      /\ \A x \in Fd \ {fd} : fds'[p][x] = fds[p][x]
      /\ \A q \in Procs \ {p} : fds'[q] = fds[q]
  BY <1>2, <1>4, <1>6 DEF TypeOK
<1>8. /\ OpenFds(p)' = OpenFds(p) \ {fd}
      /\ \A q \in Procs \ {p} : OpenFds(q)' = OpenFds(q)
  BY <1>7 DEF OpenFds
<1>9. /\ handles'[p] = handles[p] \ {fd}
      /\ \A q \in Procs \ {p} : handles'[q] = handles[q]
  BY <1>2 DEF TypeOK
<1>10. /\ locks' \in [Procs -> [Files -> {"none", "read", "write"}]]
       /\ locks'[p][f] = "none"
       /\ \A g \in Files \ {f} : locks'[p][g] = locks[p][g]
       /\ \A q \in Procs \ {p} : locks'[q] = locks[q]
  BY <1>2, <1>3, <1>6 DEF TypeOK
<1>11. /\ HandlesOf(p, f)' = HandlesOf(p, f) \ {fd}
       /\ \A g \in Files \ {f} : HandlesOf(p, g)' = HandlesOf(p, g)
       /\ \A q \in Procs \ {p}, g \in Files : HandlesOf(q, g)' = HandlesOf(q, g)
       /\ \A q \in Procs, g \in Files : \A h \in HandlesOf(q, g)' : fds'[q][h] = fds[q][h]
  <2>1. \A q \in Procs : handles[q] \subseteq Fd
    BY <1>2 DEF TypeOK
  <2>2. \A q \in Procs : \A h \in handles'[q] : h \in handles[q] /\ fds'[q][h] = fds[q][h]
    BY <1>7, <1>9, <2>1
  <2>3. fd \in HandlesOf(p, f) /\ \A g \in Files \ {f} : fd \notin HandlesOf(p, g)
    BY <1>2, <1>1 DEF HandlesOf
  <2>4. HandlesOf(p, f)' = HandlesOf(p, f) \ {fd}
    BY <1>9, <2>2, <2>3 DEF HandlesOf
  <2>5. \A g \in Files \ {f} : HandlesOf(p, g)' = HandlesOf(p, g)
    BY <1>9, <2>2, <2>3 DEF HandlesOf
  <2>6. \A q \in Procs \ {p}, g \in Files : HandlesOf(q, g)' = HandlesOf(q, g)
    BY <1>9, <2>2 DEF HandlesOf
  <2>7. \A q \in Procs, g \in Files : \A h \in HandlesOf(q, g)' : fds'[q][h] = fds[q][h]
    BY <2>2 DEF HandlesOf
  <2> QED
    BY <2>4, <2>5, <2>6, <2>7
<1>12. /\ locks'[p][f] = "none"
       /\ \A q \in Procs, g \in Files : ~ (q = p /\ g = f) => locks'[q][g] = locks[q][g]
  <2>1. ASSUME NEW q \in Procs, NEW g \in Files, ~ (q = p /\ g = f)
        PROVE  locks'[q][g] = locks[q][g]
    <3>1. CASE q = p
      <4>1. g # f
        BY <2>1, <3>1
      <4>2. locks'[p][g] = locks[p][g]
        BY <1>10, <4>1
      <4> QED
        BY <3>1, <4>2
    <3>2. CASE q # p
      <4>1. locks'[q] = locks[q]
        BY <1>10, <3>2
      <4> QED
        BY <4>1
    <3> QED
      BY <3>1, <3>2
  <2> QED
    BY <1>10, <2>1
<1>13. \A q \in Procs, g \in Files : ~ (q = p /\ g = f) => HandlesOf(q, g)' = HandlesOf(q, g)
  <2>1. ASSUME NEW q \in Procs, NEW g \in Files, ~ (q = p /\ g = f)
        PROVE  HandlesOf(q, g)' = HandlesOf(q, g)
    <3>1. CASE q = p
      <4>1. HandlesOf(p, g)' = HandlesOf(p, g)
        BY <1>11, <2>1, <3>1
      <4>2. HandlesOf(q, g)' = HandlesOf(p, g)' /\ HandlesOf(q, g) = HandlesOf(p, g)
        BY <3>1 DEF HandlesOf
      <4> QED
        BY <4>1, <4>2
    <3>2. CASE q # p
      BY <1>11, <3>2
    <3> QED
      BY <3>1, <3>2
  <2> QED
    BY <2>1
<1>14. TypeOK'
  BY <1>2, <1>7, <1>10 DEF TypeOK
<1>15. Owned'
  <2>1. ASSUME NEW q \in Procs
        PROVE  /\ handles'[q] \cup opening'[q] \subseteq OpenFds(q)'
               /\ handles'[q] \cap opening'[q] = {}
               /\ \A x \in opening'[q] : opening'[q] = {x} /\ fds'[q][x].share # "DENYNO"
    <3>1. /\ handles[q] \cup opening[q] \subseteq OpenFds(q) /\ opening[q] \subseteq Fd
          /\ handles[q] \cap opening[q] = {} /\ opening'[q] = opening[q]
          /\ \A x \in opening[q] : opening[q] = {x} /\ fds[q][x].share # "DENYNO"
      BY <1>2 DEF IInv, Owned, TypeOK
    <3>2. \A x \in opening[q] : fds'[q][x] = fds[q][x]
      BY <1>2, <1>7, <3>1
    <3> QED
      BY <1>2, <1>8, <1>9, <3>1, <3>2
  <2> QED
    BY <2>1 DEF Owned
<1>16. /\ AccountedOf(p) /\ refused[p] \in Nat
       /\ OpenFds(p) \in SUBSET Fd /\ Cardinality(OpenFds(p)) \in Nat
       /\ handles[p] \in SUBSET Fd /\ Cardinality(handles[p]) \in Nat
       /\ opening[p] \in SUBSET Fd /\ Cardinality(opening[p]) \in Nat
  BY AccountedNow
<1>17. FdsAccounted'
  <2>1. /\ Cardinality(OpenFds(p)') = Cardinality(OpenFds(p)) - 1
        /\ Cardinality(handles'[p]) = Cardinality(handles[p]) - 1
    BY <1>2, <1>3, <1>8, <1>9, <1>16, OneFdLess
  <2>2. AccountedOf(p)'
    BY <1>2, <1>16, <2>1 DEF AccountedOf
  <2> QED
    BY <1>2, <1>8, <1>9, <2>2, AccountedStep DEF IInv
<1>18. NoOrphanLock'
  <2>1. ASSUME NEW q \in Procs, NEW g \in Files, locks'[q][g] # "none"
        PROVE  \E h \in HandlesOf(q, g)' : fds'[q][h].share # "DENYNO"
    <3>1. ~ (q = p /\ g = f) /\ locks'[q][g] = locks[q][g]
      BY <1>3, <1>12, <2>1
    <3>2. HandlesOf(q, g)' = HandlesOf(q, g)
      BY <1>13, <3>1
    <3> QED
      BY <1>11, <2>1, <3>1, <3>2 DEF IInv, NoOrphanLock
  <2> QED
    BY <2>1 DEF NoOrphanLock
<1>19. LocksCompatible'
  <2>1. ASSUME NEW q \in Procs, NEW r \in Procs, NEW g \in Files,
               q # r, locks'[q][g] = "write"
        PROVE  locks'[r][g] = "none"
    <3>1. locks[q][g] = "write"
      BY <1>12, <2>1
    <3>2. locks[r][g] = "none"
      BY <2>1, <3>1 DEF IInv, LocksCompatible
    <3> QED
      BY <1>12, <3>2
  <2> QED
    BY <2>1 DEF LocksCompatible
<1>20. LockOfHandle'
  <2>1. ASSUME NEW q \in Procs, NEW g \in Files, <<q, g>> \notin reopened
        PROVE  /\ \A h, k \in HandlesOf(q, g)' : h = k
               /\ \A h \in HandlesOf(q, g)' :
                    fds'[q][h].share # "DENYNO" => locks'[q][g] = LockType(fds'[q][h].share)
    <3>1. /\ \A h, k \in HandlesOf(q, g) : h = k
          /\ \A h \in HandlesOf(q, g) :
               fds[q][h].share # "DENYNO" => locks[q][g] = LockType(fds[q][h].share)
      BY <2>1 DEF IInv, LockOfHandle
    <3>2. CASE q = p /\ g = f
      <4>1. fd \in HandlesOf(p, f)
        BY <1>2, <1>1 DEF HandlesOf
      <4>2. HandlesOf(q, g)' = {}
        <5>1. HandlesOf(q, g) \ {fd} = {}
          BY <3>1, <3>2, <4>1
        <5>2. HandlesOf(q, g)' = HandlesOf(p, f)' /\ HandlesOf(q, g) = HandlesOf(p, f)
          BY <3>2 DEF HandlesOf
        <5> QED
          BY <1>11, <5>1, <5>2
      <4> QED
        BY <4>2
    <3>3. CASE ~ (q = p /\ g = f)
      <4>1. HandlesOf(q, g)' = HandlesOf(q, g) /\ locks'[q][g] = locks[q][g]
        BY <1>12, <1>13, <3>3
      <4> QED
        BY <1>11, <3>1, <4>1
    <3> QED
      BY <3>2, <3>3
  <2> QED
    BY <1>2, <2>1 DEF LockOfHandle, LockType
<1> QED
  BY <1>14, <1>15, <1>17, <1>18, <1>19, <1>20 DEF IInv

LEMMA RestartStep ==
  ASSUME IInv, NEW p \in Procs, Restart(p)
  PROVE  IInv'
<1>1. /\ TypeOK
      /\ fds' = [fds EXCEPT ![p] = [fd \in Fd |-> Closed]]
      /\ locks' = [locks EXCEPT ![p] = [f \in Files |-> "none"]]
      /\ opening' = [opening EXCEPT ![p] = {}]
      /\ handles' = [handles EXCEPT ![p] = {}]
      /\ refused' = [refused EXCEPT ![p] = 0]
      /\ reopened' = { e \in reopened : e[1] # p }
      /\ created' = [created EXCEPT ![p] = Nothing]
      /\ UNCHANGED file
  BY DEF Restart, IInv
<1>2. /\ OpenFds(p)' = {} /\ handles'[p] = {} /\ opening'[p] = {} /\ refused'[p] = 0
      /\ \A f \in Files : locks'[p][f] = "none" /\ HandlesOf(p, f)' = {}
  BY <1>1 DEF TypeOK, OpenFds, HandlesOf
<1>3. \A q \in Procs \ {p} :
        /\ fds'[q] = fds[q] /\ locks'[q] = locks[q] /\ OpenFds(q)' = OpenFds(q)
        /\ handles'[q] = handles[q] /\ opening'[q] = opening[q] /\ refused'[q] = refused[q]
        /\ \A f \in Files : /\ HandlesOf(q, f)' = HandlesOf(q, f)
                            /\ <<q, f>> \in reopened' <=> <<q, f>> \in reopened
  BY <1>1 DEF TypeOK, OpenFds, HandlesOf
<1>4. TypeOK'
  <2>1. Nothing \in Creations
    BY DEF Nothing, Creations, Contents
  <2> QED
    BY <1>1, <2>1 DEF TypeOK
<1>5. FdsAccounted'
  <2>1. AccountedOf(p)'
    BY <1>2, FS_EmptySet DEF AccountedOf
  <2> QED
    BY <1>3, <2>1, AccountedStep DEF IInv
<1>6. Owned'
  BY <1>2, <1>3 DEF IInv, Owned
<1>7. NoOrphanLock'
  <2> SUFFICES ASSUME NEW q \in Procs, NEW f \in Files, locks'[q][f] # "none"
               PROVE  \E h \in HandlesOf(q, f)' : fds'[q][h].share # "DENYNO"
    BY DEF NoOrphanLock
  <2>1. q \in Procs \ {p}
    BY <1>2
  <2>2. /\ locks'[q] = locks[q] /\ fds'[q] = fds[q] /\ HandlesOf(q, f)' = HandlesOf(q, f)
    BY <1>3, <2>1
  <2> QED
    BY <2>2 DEF IInv, NoOrphanLock
<1>8. LocksCompatible'
  BY <1>2, <1>3 DEF IInv, LocksCompatible
<1>9. LockOfHandle'
  BY <1>2, <1>3 DEF IInv, LockOfHandle, LockType
<1> QED
  BY <1>4, <1>5, <1>6, <1>7, <1>9, <1>8 DEF IInv

(* The steps that only change what files contain, and none.                *)
LEMMA FdsKept ==
  ASSUME IInv, UNCHANGED <<fds, locks, opening, handles, refused, reopened, created>>,
         file' \in [Files -> [content : Contents, ro : BOOLEAN]]
  PROVE  IInv'
<1>1. TypeOK'
  BY DEF IInv, TypeOK
<1>2. FdsAccounted'
  BY DEF IInv, FdsAccounted, OpenFds
<1> QED
  BY <1>1, <1>2
     DEF IInv, Owned, NoOrphanLock, LocksCompatible, LockOfHandle, HandlesOf, OpenFds, LockType

LEMMA WriteStep ==
  ASSUME IInv, NEW p \in Procs, NEW fd \in Fd, Write(p, fd)
  PROVE  IInv'
<1>1. PICK f : f = fds[p][fd].file
  OBVIOUS
<1>2. file' = [file EXCEPT ![f].content = "data"]
  BY <1>1 DEF Write
<1>3. file' \in [Files -> [content : Contents, ro : BOOLEAN]]
  BY <1>2 DEF IInv, TypeOK, Contents
<1> QED
  BY <1>3, FdsKept DEF Write, seen

LEMMA CreatStep ==
  ASSUME IInv, NEW p \in Procs, NEW f \in Files, NEW service, NEW api \in Apis,
         NEW rdonly \in BOOLEAN,
         Creat(p, f, service, api, rdonly)
  PROVE  IInv'
<1>1. Opens(p, f, "RDWR", "DENYNO")
  BY DEF Creat, CreatFails, Opens, Idle
<1>2. file' \in [Files -> [content : Contents, ro : BOOLEAN]]
  <2>1. file \in [Files -> [content : Contents, ro : BOOLEAN]]
    BY DEF IInv, TypeOK
  <2>2. PICK ro \in BOOLEAN : file' = [file EXCEPT ![f] = [content |-> "empty", ro |-> ro]]
    BY <2>1 DEF Creat
  <2> QED
    BY <2>1, <2>2 DEF Contents
<1>3. created' \in [Procs -> Creations]
  <2>1. /\ created \in [Procs -> Creations]
        /\ [api |-> api, found |-> file[f].content] \in Creations
    BY DEF IInv, TypeOK, Creations
  <2> QED
    BY <2>1 DEF Creat
<1> QED
  BY <1>1, <1>2, <1>3, OpensStep DEF Accesses, Shares

LEMMA OpenStep ==
  ASSUME IInv, NEW p \in Procs, NEW f \in Files, NEW mode \in Modes,
         Open(p, f, mode[1], mode[2])
  PROVE  IInv'
<1>1. Opens(p, f, mode[1], mode[2])
  BY DEF Open, OpenFails, Opens, Idle
<1>2. /\ file' \in [Files -> [content : Contents, ro : BOOLEAN]]
      /\ created' \in [Procs -> Creations]
  BY DEF Open, IInv, TypeOK
<1>3. mode[1] \in Accesses /\ mode[2] \in Shares
  BY ModesAssumption
<1> QED
  BY <1>1, <1>2, <1>3, OpensStep

LEMMA NextIInv == IInv /\ [Next]_vars => IInv'
<1> SUFFICES ASSUME IInv, [Next]_vars PROVE IInv'
  OBVIOUS
<1>1. CASE UNCHANGED vars
  BY <1>1, FdsKept DEF vars, kernel, seen, IInv, TypeOK
<1>2. CASE Next
  BY <1>2, CreatStep, OpenStep, LockStep, LockRefusedStep, CloseStep, WriteStep, RestartStep
     DEF Next
<1> QED
  BY <1>1, <1>2

(* The inductive invariant holds of the programs and their handles.        *)
THEOREM Invariance == Spec => []IInv
  BY InitIInv, NextIInv, PTL DEF Spec

-----------------------------------------------------------------------------
(* The variables keep to their types.                                      *)
THEOREM TypeCorrect == Spec => []TypeOK
<1>1. IInv => TypeOK
  BY DEF IInv
<1> QED
  BY <1>1, Invariance, PTL

(* No call, nor a crash between opening a file and locking it, leaves a    *)
(* lock without a handle.                                                  *)
THEOREM LocksHaveHandles == Spec => []NoOrphanLock
<1>1. IInv => NoOrphanLock
  BY DEF IInv
<1> QED
  BY <1>1, Invariance, PTL

(* The only descriptors a program loses are those of opens whose lock was  *)
(* refused.                                                                *)
THEOREM DescriptorsAccounted == Spec => []FdsAccounted
<1>1. IInv => FdsAccounted
  BY DEF IInv
<1> QED
  BY <1>1, Invariance, PTL

(* Two programs that open a file with share modes, one of which denies     *)
(* something, do not both have a handle of it, however their two system    *)
(* calls each interleave, if neither ever had two.                         *)
THEOREM DenyingExcludes == Spec => []DenyExcludesUnlessReopened
<1>1. IInv => DenyExcludesUnlessReopened
  <2> SUFFICES ASSUME IInv, NEW p \in Procs, NEW q \in Procs, NEW f \in Files,
                      NEW h \in HandlesOf(p, f), NEW k \in HandlesOf(q, f), p # q,
                      fds[p][h].share \in {"DENYRW", "DENYWR", "DENYRD"},
                      fds[q][k].share # "DENYNO",
                      <<p, f>> \notin reopened, <<q, f>> \notin reopened
               PROVE  FALSE
    BY DEF DenyExcludesUnlessReopened
  <2>1. locks[p][f] = LockType(fds[p][h].share) /\ locks[q][f] = LockType(fds[q][k].share)
    BY DEF IInv, LockOfHandle
  <2>2. locks[p][f] = "write" /\ locks[q][f] \in {"read", "write"}
    BY <2>1, LockTypes
  <2> QED
    BY <2>2 DEF IInv, LocksCompatible
<1> QED
  BY <1>1, Invariance, PTL

=============================================================================
