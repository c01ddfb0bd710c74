-------------------------- MODULE ExitStackProofs --------------------------
(***************************************************************************)
(* Proofs about the exit cleanup stack (ExitStack), for every stack size,  *)
(* word size and bound: the stack and the list of the C library agree      *)
(* until the program exits, neither overrun nor assertion stops a program  *)
(* that does not call _cexit, and every registered function is called      *)
(* once, newest first, by exit or by the first _cexit.                     *)
(***************************************************************************)
EXTENDS ExitStack, TLAPS, SequenceTheorems

(* Only registrations made so far are stored anywhere or were called.      *)
Known ==
  /\ \A i \in DOMAIN stack : stack[i] <= count
  /\ \A i \in DOMAIN list : list[i] <= count
  /\ \A r \in 1..MaxRegs : r > count => runs[r] = 0

(* Before the first _cexit the top has not wrapped around.                 *)
NoCexitYet ==
  cexits = 0 =>
    /\ top <= Size
    /\ pc \notin {"close", "aborted", "crashed"}
    /\ \A i \in DOMAIN frames : frames[i] = "exit"

Mirrored ==
  cexits = 0 /\ frames = <<>> =>
    /\ top = Len(list)
    /\ \A i \in 1..top : stack[i - 1] = list[i]

(* The slots D of s hold each of n registrations still to be called, the   *)
(* newer above the older; ran says how often each was called.              *)
Pending(s, D, n, ran) ==
  /\ \A i \in D : s[i] \in 1..n /\ ran[s[i]] = 0
  /\ \A i, j \in D : i < j => s[i] < s[j]
  /\ \A r \in 1..n : ran[r] = 1 \/ \E i \in D : s[i] = r

ListPending == cexits = 0 => Pending(list, 1..Len(list), count, runs)

(* The first _cexit works on a stack that holds what is to be called.      *)
FirstCexit == cexits = 1 /\ frames = <<"cexit">>
StackPending ==
  FirstCexit /\ pc \in {"loop", "handler"} => top <= Size /\ Pending(stack, 0..top-1, count, runs)
AllCalled == FirstCexit /\ pc = "close" => \A r \in 1..count : runs[r] = 1

(* Only _cexit closes, and the first one is alone.                         *)
OneCexit ==
  /\ pc = "close" => InFrame("cexit")
  /\ cexits = 1 => \A i, j \in DOMAIN frames :
                     frames[i] = "cexit" /\ frames[j] = "cexit" => i = j

IInv ==
  /\ TypeOK /\ Known /\ NoCexitYet /\ OneCexit
  /\ Mirrored /\ ListPending /\ StackPending /\ AllCalled

-----------------------------------------------------------------------------
LEMMA InitIInv == Init => IInv
<1> SUFFICES ASSUME Init PROVE IInv
  OBVIOUS
<1>1. TypeOK
  BY SizeAssumption, BoundAssumption DEF Init, TypeOK, Empty, Points
<1>2. DOMAIN list = {} /\ DOMAIN frames = {} /\ Len(list) = 0 /\ 1..count = {}
  BY DEF Init
<1>3. Known
  BY <1>2 DEF Init, Known, Empty
<1> QED
  BY <1>1, <1>2, <1>3, SizeAssumption
  DEF Init, IInv, NoCexitYet, OneCexit, Mirrored, ListPending, Pending, StackPending,
      AllCalled, FirstCexit

(* Decrementing a size_t stays a size_t, and wraps only at 0.              *)
LEMMA DecrementedType ==
  ASSUME TypeOK
  PROVE  /\ Decremented \in 0..Word-1
         /\ top > 0 => Decremented = top - 1
<1>1. top \in 0..Word-1 /\ Word \in Nat /\ Word > 1
  BY SizeAssumption DEF TypeOK
<1>2. CASE top = 0
  BY <1>1, <1>2 DEF Decremented
<1>3. CASE top > 0
  <2>1. top + Word - 1 = (top - 1) + Word /\ top - 1 \in 0..Word-1
    BY <1>1, <1>3
  <2>2. (top + Word - 1) % Word = top - 1
    BY <1>1, <2>1, SMTT(30)
  <2> QED
    BY <1>1, <1>3, <2>2 DEF Decremented
<1> QED
  BY <1>1, <1>2, <1>3

(* A sequence of numbers up to n, and n + 1 after it.                      *)
LEMMA AppendBounded ==
  ASSUME NEW m \in Nat, NEW n \in Nat, NEW s \in Seq(1..m), \A i \in DOMAIN s : s[i] <= n
  PROVE  \A i \in DOMAIN Append(s, n + 1) : Append(s, n + 1)[i] <= n + 1
<1>1. PICK k \in Nat : k = Len(s) /\ DOMAIN s = 1..k
  OBVIOUS
<1>2. PICK t : t = Append(s, n + 1)
  OBVIOUS
<1>3. /\ DOMAIN t = 1..k+1 /\ t[k + 1] = n + 1
      /\ \A i \in 1..k : s[i] \in 1..m /\ t[i] = s[i]
  BY <1>1, <1>2
<1>4. ASSUME NEW i \in 1..k+1
      PROVE  t[i] <= n + 1
  <2>1. CASE i = k + 1
    BY <1>3, <2>1
  <2>2. CASE i \in 1..k
    <3>1. s[i] \in Nat /\ s[i] <= n
      BY <1>1, <1>3, <2>2
    <3>2. t[i] = s[i]
      BY <1>3, <2>2
    <3> QED
      BY <3>1, <3>2
  <2> QED
    BY <2>1, <2>2
<1> QED
  BY <1>2, <1>3, <1>4

(* Counting one call more.                                                 *)
LEMMA CountedType ==
  ASSUME NEW R, NEW ran \in [R -> Nat], NEW x
  PROVE  [ran EXCEPT ![x] = @ + 1] \in [R -> Nat]
<1>1. ASSUME x \in R PROVE ran[x] + 1 \in Nat
  BY <1>1
<1> QED
  BY <1>1

(* Storing a new registration in a slot of its own.                        *)
LEMMA PendingPush ==
  ASSUME NEW n \in Nat, NEW ran, NEW s, NEW t, NEW D, NEW x,
         Pending(s, D, n, ran), ran[n + 1] = 0,
         x \in Int, \A i \in D : i \in Int /\ i < x /\ t[i] = s[i], t[x] = n + 1
  PROVE  Pending(t, D \cup {x}, n + 1, ran)
<1>1. \A i \in D \cup {x} : t[i] \in 1..n+1 /\ ran[t[i]] = 0
  BY DEF Pending
<1>2. \A i, j \in D \cup {x} : i < j => t[i] < t[j]
  BY DEF Pending
<1>3. ASSUME NEW r \in 1..n+1
      PROVE  ran[r] = 1 \/ \E i \in D \cup {x} : t[i] = r
  <2>1. CASE r = n + 1
    BY <2>1
  <2>2. CASE r \in 1..n
    BY <2>2 DEF Pending
  <2> QED
    BY <2>1, <2>2
<1> QED
  BY <1>1, <1>2, <1>3 DEF Pending

(* Calling the registration in one slot and giving the slot up.            *)
LEMMA PendingPop ==
  ASSUME NEW m \in Nat, NEW n \in 0..m, NEW ran \in [1..m -> Nat], NEW s, NEW t,
         NEW D \in SUBSET Int, NEW x \in D,
         Pending(s, D, n, ran), \A i \in D \ {x} : t[i] = s[i]
  PROVE  Pending(t, D \ {x}, n, [ran EXCEPT ![s[x]] = @ + 1])
<1> DEFINE after == [ran EXCEPT ![s[x]] = @ + 1]
<1>1. s[x] \in 1..n /\ s[x] \in 1..m /\ ran[s[x]] = 0
  BY DEF Pending
<1>2. after[s[x]] = 1 /\ \A r \in 1..n : r # s[x] => after[r] = ran[r]
  BY <1>1
<1>3. ASSUME NEW i \in D \ {x}
      PROVE  s[i] # s[x]
  <2>1. i \in Int /\ x \in Int /\ s[i] \in 1..n
    BY DEF Pending
  <2>2. i < x \/ x < i
    BY <2>1
  <2> QED
    BY <1>1, <2>1, <2>2 DEF Pending
<1>4. \A i \in D \ {x} : t[i] \in 1..n /\ after[t[i]] = 0
  BY <1>2, <1>3 DEF Pending
<1>5. \A i, j \in D \ {x} : i < j => t[i] < t[j]
  BY DEF Pending
<1> HIDE DEF after
<1>6. ASSUME NEW r \in 1..n
      PROVE  after[r] = 1 \/ \E i \in D \ {x} : t[i] = r
  <2>1. CASE r = s[x]
    BY <1>2, <2>1
  <2>2. CASE r # s[x]
    <3>1. after[r] = ran[r]
      BY <1>2, <2>2
    <3>2. CASE \E i \in D : s[i] = r
      <4>1. PICK i \in D : s[i] = r
        BY <3>2
      <4>2. i \in D \ {x} /\ t[i] = r
        BY <2>2, <4>1
      <4> QED
        BY <4>2
    <3> QED
      BY <3>1, <3>2 DEF Pending
  <2> QED
    BY <2>1, <2>2
<1>7. Pending(t, D \ {x}, n, after)
  BY <1>4, <1>5, <1>6 DEF Pending
<1> QED
  BY <1>7 DEF after

-----------------------------------------------------------------------------
(* Registering.                                                            *)

LEMMA StutterStep == IInv /\ UNCHANGED vars => IInv'
  BY DEF vars, IInv, TypeOK, Known, NoCexitYet, OneCexit, InFrame, Innermost, Mirrored,
         ListPending, Pending, StackPending, AllCalled, FirstCexit

LEMMA RegisterAbortsStep ==
  ASSUME IInv, RegisterAborts
  PROVE  IInv'
<1>1. TypeOK'
  BY DEF RegisterAborts, IInv, TypeOK, Points, Ends
<1>2. cexits # 0
  BY DEF RegisterAborts, AssertionHolds, IInv, NoCexitYet
<1> QED
  BY <1>1, <1>2 DEF RegisterAborts, IInv, Known, NoCexitYet, OneCexit, Mirrored,
                    ListPending, StackPending, AllCalled

LEMMA RegisterStep ==
  ASSUME IInv, Register
  PROVE  IInv'
<1>1. /\ top \in 0..Size-1 /\ DOMAIN stack = 0..Size-1
      /\ count \in 0..MaxRegs /\ count + 1 \in 1..MaxRegs
      /\ stack \in [0..Size-1 -> 0..MaxRegs] /\ list \in Seq(1..MaxRegs)
      /\ Size \in Nat /\ Word \in Nat /\ Size + 1 < Word
  BY SizeAssumption, BoundAssumption DEF Register, AssertionHolds, Full, IInv, TypeOK
<1>2. PICK added \in BOOLEAN :
        /\ list' = IF added THEN Append(list, count + 1) ELSE list
        /\ IF ~ Pushes(added)
             THEN UNCHANGED <<stack, top, pc, count>>
           ELSE IF top \notin DOMAIN stack
             THEN pc' = "crashed" /\ UNCHANGED <<stack, top, count>>
           ELSE /\ stack' = [stack EXCEPT ![top] = count + 1]
                /\ top' = top + 1
                /\ count' = count + 1
                /\ UNCHANGED pc
  BY DEF Register
<1>3. CASE ~ added
  BY <1>2, <1>3, StutterStep DEF Pushes, Register, vars
<1>4. CASE added
  <2>1. /\ list' = Append(list, count + 1)
        /\ stack' = [stack EXCEPT ![top] = count + 1]
        /\ top' = top + 1 /\ count' = count + 1
        /\ UNCHANGED <<pc, frames, runs, cexits>>
    BY <1>1, <1>2, <1>4 DEF Pushes, Register
  <2>2. /\ stack'[top] = count + 1
        /\ \A i \in 0..Size-1 : i # top => stack'[i] = stack[i]
        /\ DOMAIN stack' = 0..Size-1
    BY <1>1, <2>1
  <2>3. /\ Len(list') = Len(list) + 1
        /\ list'[Len(list) + 1] = count + 1
        /\ \A i \in 1..Len(list) : list'[i] = list[i]
    BY <1>1, <2>1
  <2>4. TypeOK'
    BY <1>1, <2>1 DEF IInv, TypeOK
  <2>5. runs[count + 1] = 0
    BY <1>1 DEF IInv, Known
  <2>6. Known'
    <3>1. \A i \in DOMAIN stack' : stack'[i] <= count'
      BY <1>1, <2>1, <2>2 DEF IInv, Known
    <3>2. \A i \in DOMAIN list' : list'[i] <= count'
      <4>1. \A i \in DOMAIN list : list[i] <= count
        BY DEF IInv, Known
      <4>2. list \in Seq(1..MaxRegs) /\ MaxRegs \in Nat /\ count \in Nat
        BY <1>1, BoundAssumption
      <4>3. \A i \in DOMAIN Append(list, count + 1) : Append(list, count + 1)[i] <= count + 1
        BY <4>1, <4>2, AppendBounded
      <4> QED
        BY <2>1, <4>3
    <3>3. \A r \in 1..MaxRegs : r > count' => runs'[r] = 0
      BY <1>1, <2>1 DEF IInv, Known
    <3> QED
      BY <3>1, <3>2, <3>3 DEF Known
  <2>7. NoCexitYet' /\ OneCexit' /\ AllCalled'
    <3>1. Running
      BY DEF Register
    <3> QED
      BY <1>1, <2>1, <3>1 DEF IInv, NoCexitYet, OneCexit, InFrame, Innermost, AllCalled, Running
  <2>8. Mirrored'
    <3> SUFFICES ASSUME cexits = 0, frames = <<>>
                 PROVE  top' = Len(list') /\ \A i \in 1..top' : stack'[i - 1] = list'[i]
      BY <2>1 DEF Mirrored
    <3>1. top = Len(list) /\ \A i \in 1..top : stack[i - 1] = list[i]
      BY DEF IInv, Mirrored
    <3>2. ASSUME NEW i \in 1..top'
          PROVE  stack'[i - 1] = list'[i]
      <4>1. CASE i = top + 1
        BY <1>1, <2>2, <2>3, <3>1, <4>1
      <4>2. CASE i \in 1..top
        <5>1. i - 1 \in 0..Size-1 /\ i - 1 # top
          BY <1>1, <4>2
        <5> QED
          BY <2>2, <2>3, <3>1, <4>2, <5>1
      <4> QED
        <5>1. top' = top + 1 /\ top \in Nat
          BY <1>1, <2>1
        <5> QED
          BY <4>1, <4>2, <5>1
    <3> QED
      BY <2>1, <2>3, <3>1, <3>2
  <2>9. ListPending'
    <3> SUFFICES ASSUME cexits = 0
                 PROVE  Pending(list', 1..Len(list'), count + 1, runs)
      BY <2>1 DEF ListPending
    <3>1. Pending(list, 1..Len(list), count, runs)
      BY DEF IInv, ListPending
    <3>2. 1..Len(list') = (1..Len(list)) \cup {Len(list) + 1}
      BY <1>1, <2>3
    <3>3. /\ Len(list) + 1 \in Int /\ count \in Nat
          /\ \A i \in 1..Len(list) : i \in Int /\ i < Len(list) + 1
      BY <1>1
    <3>4. Pending(list', (1..Len(list)) \cup {Len(list) + 1}, count + 1, runs)
      BY <2>3, <2>5, <3>1, <3>3, PendingPush
    <3> QED
      BY <3>2, <3>4
  <2>10. StackPending'
    <3> SUFFICES ASSUME FirstCexit, pc \in {"loop", "handler"}
                 PROVE  top + 1 <= Size /\ Pending(stack', 0..top'-1, count + 1, runs)
      BY <2>1 DEF StackPending, FirstCexit
    <3>1. Pending(stack, 0..top-1, count, runs)
      BY DEF IInv, StackPending
    <3>2. 0..top'-1 = (0..top-1) \cup {top}
      BY <1>1, <2>1
    <3>3. /\ top \in Int /\ count \in Nat
          /\ \A i \in 0..top-1 : i \in Int /\ i < top /\ i \in 0..Size-1 /\ i # top
      BY <1>1
    <3>4. \A i \in 0..top-1 : stack'[i] = stack[i]
      BY <2>2, <3>3
    <3>5. Pending(stack', (0..top-1) \cup {top}, count + 1, runs)
      BY <2>2, <2>5, <3>1, <3>3, <3>4, PendingPush
    <3>6. top + 1 <= Size
      BY <1>1
    <3>7. Pending(stack', 0..top'-1, count + 1, runs)
      BY <3>2, <3>5, Zenon
    <3> QED
      BY <3>6, <3>7, Zenon
  <2> QED
    BY <2>4, <2>6, <2>7, <2>8, <2>9, <2>10 DEF IInv
<1> QED
  BY <1>3, <1>4

-----------------------------------------------------------------------------
(* Beginning exit and _cexit.                                              *)

LEMMA ExitStep ==
  ASSUME IInv, Exit
  PROVE  IInv'
<1>1. frames \in Seq(Frames) /\ frames' = Append(frames, "exit") /\ pc' = "loop"
  BY DEF Exit, IInv, TypeOK
<1>2. /\ Len(frames') = Len(frames) + 1 /\ frames'[Len(frames) + 1] = "exit"
      /\ \A i \in DOMAIN frames' : i = Len(frames) + 1 \/ (i \in DOMAIN frames /\ frames'[i] = frames[i])
  BY <1>1
<1>3. UNCHANGED <<stack, top, list, count, runs, cexits>>
  BY DEF Exit
<1>4. TypeOK'
  BY <1>1, <1>3 DEF IInv, TypeOK, Frames, Points
<1>5. Known' /\ ListPending'
  BY <1>3 DEF IInv, Known, ListPending
<1>6. NoCexitYet' /\ OneCexit'
  BY <1>1, <1>2, <1>3 DEF IInv, NoCexitYet, OneCexit
<1>7. frames' # <<>> /\ ~ FirstCexit'
  <2>1. Len(frames) \in Nat
    BY <1>1
  <2>2. frames' # <<>>
    BY <1>2, <2>1
  <2>3. ASSUME frames' = <<"cexit">>
        PROVE  FALSE
    <3>1. Len(frames') = 1 /\ frames'[1] = "cexit"
      BY <2>3
    <3> QED
      BY <1>2, <2>1, <3>1
  <2> QED
    BY <2>2, <2>3 DEF FirstCexit
<1> QED
  BY <1>4, <1>5, <1>6, <1>7 DEF IInv, Mirrored, StackPending, AllCalled

(* The stack the first _cexit finds holds what the C library has to call.  *)
LEMMA CExitStep ==
  ASSUME IInv, CExit
  PROVE  IInv'
<1>1. /\ frames \in Seq(Frames) /\ frames' = Append(frames, "cexit") /\ pc' = "loop"
      /\ cexits \in Nat /\ cexits' = cexits + 1 /\ top \in Nat /\ list \in Seq(1..MaxRegs)
  BY DEF CExit, IInv, TypeOK
<1>2. /\ Len(frames') = Len(frames) + 1 /\ frames'[Len(frames) + 1] = "cexit"
      /\ \A i \in DOMAIN frames' : i = Len(frames) + 1 \/ (i \in DOMAIN frames /\ frames'[i] = frames[i])
  BY <1>1
<1>3. UNCHANGED <<stack, top, list, count, runs>>
  BY DEF CExit
<1>4. TypeOK'
  BY <1>1, <1>3, BoundAssumption DEF CExit, IInv, TypeOK, Frames, Points
<1>5. Known' /\ NoCexitYet' /\ Mirrored' /\ ListPending' /\ AllCalled'
  BY <1>1, <1>3 DEF IInv, Known, NoCexitYet, Mirrored, ListPending, AllCalled
<1>6. OneCexit'
  <2>1. ASSUME cexits' = 1, NEW i \in DOMAIN frames', frames'[i] = "cexit"
        PROVE  i = Len(frames) + 1
    BY <1>1, <1>2, <2>1 DEF IInv, NoCexitYet
  <2> QED
    BY <1>1, <2>1 DEF OneCexit
<1>7. StackPending'
  <2> SUFFICES ASSUME FirstCexit'
               PROVE  top <= Size /\ Pending(stack, 0..top-1, count, runs)
    BY <1>3 DEF StackPending
  <2>1. cexits = 0
    BY <1>1 DEF FirstCexit
  <2>2. frames = <<>>
    BY <1>1, <1>2 DEF FirstCexit
  <2>3. /\ top <= Size /\ top = Len(list) /\ Pending(list, 1..Len(list), count, runs)
        /\ \A i \in 1..top : stack[i - 1] = list[i]
    BY <2>1, <2>2 DEF IInv, NoCexitYet, Mirrored, ListPending
  <2>4. \A i \in 0..top-1 : i + 1 \in 1..Len(list) /\ stack[i] = list[i + 1]
    <3>1. ASSUME NEW i \in 0..top-1
          PROVE  i + 1 \in 1..Len(list) /\ stack[i] = list[i + 1]
      <4>1. i + 1 \in 1..top /\ (i + 1) - 1 = i
        BY <1>1
      <4> QED
        BY <2>3, <4>1
    <3> QED
      BY <3>1
  <2>5. \A i \in 0..top-1 : stack[i] \in 1..count /\ runs[stack[i]] = 0
    BY <2>3, <2>4 DEF Pending
  <2>6. \A i, j \in 0..top-1 : i < j => stack[i] < stack[j]
    <3>1. ASSUME NEW i \in 0..top-1, NEW j \in 0..top-1, i < j
          PROVE  stack[i] < stack[j]
      <4>1. i + 1 < j + 1
        BY <1>1, <3>1
      <4> QED
        BY <2>3, <2>4, <4>1 DEF Pending
    <3> QED
      BY <3>1
  <2>7. ASSUME NEW r \in 1..count
        PROVE  runs[r] = 1 \/ \E i \in 0..top-1 : stack[i] = r
    <3>1. CASE \E k \in 1..Len(list) : list[k] = r
      <4>1. PICK k \in 1..top : list[k] = r
        BY <2>3, <3>1
      <4>2. k - 1 \in 0..top-1 /\ stack[k - 1] = r
        BY <1>1, <2>3, <4>1
      <4> QED
        BY <4>2
    <3> QED
      BY <2>3, <3>1 DEF Pending
  <2> QED
    BY <2>3, <2>5, <2>6, <2>7 DEF Pending
<1> QED
  BY <1>4, <1>5, <1>6, <1>7 DEF IInv

(* Steps that change nothing but where the program is.                     *)
LEMMA PointStep ==
  ASSUME IInv, ExitAtOnce \/ ExitEnds \/ HandlerReturns
  PROVE  IInv'
<1>1. /\ UNCHANGED <<stack, top, list, frames, count, runs, cexits>>
      /\ pc' = "exited" \/ (pc = "handler" /\ pc' = "loop")
  BY DEF ExitAtOnce, ExitEnds, HandlerReturns
<1>2. TypeOK'
  BY <1>1 DEF IInv, TypeOK, Points, Ends
<1>3. Known' /\ NoCexitYet' /\ OneCexit' /\ Mirrored' /\ ListPending'
  BY <1>1 DEF IInv, Known, NoCexitYet, OneCexit, Mirrored, ListPending
<1>4. StackPending' /\ AllCalled'
  BY <1>1 DEF IInv, StackPending, AllCalled, FirstCexit
<1> QED
  BY <1>2, <1>3, <1>4 DEF IInv

-----------------------------------------------------------------------------
(* The loops of exit and _cexit.                                           *)

(* Taking the last element off a sequence.                                 *)
LEMMA ButLast ==
  ASSUME NEW S, NEW s \in Seq(S), s # <<>>
  PROVE  /\ Len(s) \in 1..Len(s) /\ s[Len(s)] \in S
         /\ SubSeq(s, 1, Len(s) - 1) \in Seq(S)
         /\ Len(SubSeq(s, 1, Len(s) - 1)) = Len(s) - 1
         /\ \A i \in 1..Len(s)-1 :
              i \in 1..Len(s) /\ i # Len(s) /\ SubSeq(s, 1, Len(s) - 1)[i] = s[i]
<1>1. Len(s) \in Nat /\ Len(s) > 0
  BY EmptySeq
<1>2. Len(s) \in 1..Len(s) /\ s[Len(s)] \in S
  BY <1>1
<1>3. \A i \in 1..Len(s)-1 : i \in 1..Len(s) /\ i # Len(s) /\ s[i] \in S
  BY <1>1
<1>4. \A i \in 1..Len(s)-1 : s[i] \in S
  BY <1>3
<1>5. /\ SubSeq(s, 1, Len(s) - 1) \in Seq(S)
      /\ Len(SubSeq(s, 1, Len(s) - 1)) = IF 1 <= Len(s) - 1 THEN (Len(s) - 1) - 1 + 1 ELSE 0
      /\ \A i \in 1..(Len(s) - 1) - 1 + 1 : SubSeq(s, 1, Len(s) - 1)[i] = s[1 + i - 1]
  <2>1. 1 \in Int /\ Len(s) - 1 \in Int
    BY <1>1
  <2> QED
    BY <1>4, <2>1, SubSeqProperties
<1> DEFINE t == SubSeq(s, 1, Len(s) - 1)
<1> HIDE DEF t
<1>6. \A i \in 1..Len(s)-1 : t[i] = s[i]
  <2>1. ASSUME NEW i \in 1..Len(s)-1
        PROVE  t[i] = s[i]
    <3>1. i \in 1..(Len(s) - 1) - 1 + 1 /\ 1 + i - 1 = i
      BY <1>1
    <3>2. t[i] = s[1 + i - 1]
      BY <1>5, <3>1 DEF t
    <3> QED
      BY <3>1, <3>2
  <2> QED
    BY <2>1
<1>7. Len(t) = Len(s) - 1 /\ t \in Seq(S)
  <2>1. t \in Seq(S)
    BY <1>5 DEF t
  <2>2. Len(t) = IF 1 <= Len(s) - 1 THEN (Len(s) - 1) - 1 + 1 ELSE 0
    BY <1>5 DEF t
  <2>3. CASE 1 <= Len(s) - 1
    BY <1>1, <2>1, <2>2, <2>3
  <2>4. CASE Len(s) = 1
    BY <2>1, <2>2, <2>4
  <2>5. \A n \in Nat : n > 0 => 1 <= n - 1 \/ n = 1
    OBVIOUS
  <2> QED
    BY <1>1, <2>3, <2>4, <2>5
<1> QED
  BY <1>2, <1>3, <1>6, <1>7 DEF t

LEMMA ExitCallsNextStep ==
  ASSUME IInv, ExitCallsNext
  PROVE  IInv'
<1> DEFINE r == list[Len(list)]
<1>1. list \in Seq(1..MaxRegs) /\ list # <<>>
  BY DEF ExitCallsNext, IInv, TypeOK
<1>2. /\ list \in Seq(1..MaxRegs) /\ Len(list) \in 1..Len(list) /\ r \in 1..MaxRegs
      /\ runs \in [1..MaxRegs -> Nat] /\ count \in 0..MaxRegs /\ MaxRegs \in Nat
  BY <1>1, ButLast, BoundAssumption DEF IInv, TypeOK
<1>3. /\ list' = SubSeq(list, 1, Len(list) - 1)
      /\ runs' = [runs EXCEPT ![r] = @ + 1]
      /\ pc' = "handler" /\ InFrame("exit")
      /\ UNCHANGED <<stack, top, frames, count, cexits>>
  BY DEF ExitCallsNext, Call
<1>4. /\ list' \in Seq(1..MaxRegs) /\ Len(list') = Len(list) - 1
      /\ \A i \in 1..Len(list') : i \in 1..Len(list) /\ list'[i] = list[i]
  <2>1. \A i \in 1..Len(list)-1 : i \in 1..Len(list) /\ list'[i] = list[i]
    BY <1>1, <1>3, ButLast
  <2>2. /\ SubSeq(list, 1, Len(list) - 1) \in Seq(1..MaxRegs)
        /\ Len(SubSeq(list, 1, Len(list) - 1)) = Len(list) - 1
    BY <1>1, ButLast, Zenon
  <2>3. list' \in Seq(1..MaxRegs) /\ Len(list') = Len(list) - 1
    BY <1>3, <2>2, Zenon
  <2> QED
    BY <2>1, <2>3, Zenon
<1>5. TypeOK'
  <2>1. runs' \in [1..MaxRegs -> Nat]
    <3> HIDE DEF r
    <3> QED
      BY <1>2, <1>3, CountedType, Zenon
  <2> QED
    BY <1>3, <1>4, <2>1 DEF IInv, TypeOK, Points
<1>6. Known'
  <2>1. r <= count
    BY <1>2 DEF IInv, Known
  <2>2. \A i \in DOMAIN list' : list'[i] <= count
    <3>1. DOMAIN list = 1..Len(list) /\ DOMAIN list' = 1..Len(list')
      BY <1>2, <1>4
    <3> QED
      BY <1>4, <3>1 DEF IInv, Known
  <2>3. \A k \in 1..MaxRegs : k > count => runs'[k] = 0
    BY <1>2, <1>3, <2>1 DEF IInv, Known
  <2> QED
    BY <1>3, <2>2, <2>3 DEF IInv, Known
<1>7. frames # <<>> /\ ~ FirstCexit
  BY <1>3 DEF InFrame, Innermost, FirstCexit
<1>8. ListPending'
  <2> SUFFICES ASSUME cexits = 0
               PROVE  Pending(list', 1..Len(list'), count, runs')
    BY <1>3 DEF ListPending
  <2>1. Pending(list, 1..Len(list), count, runs)
    BY DEF IInv, ListPending
  <2>2. 1..Len(list') = (1..Len(list)) \ {Len(list)}
    BY <1>2, <1>4, SMTT(30)
  <2> HIDE DEF r
  <2>3. 1..Len(list) \in SUBSET Int /\ \A i \in (1..Len(list)) \ {Len(list)} : list'[i] = list[i]
    BY <1>4, <2>2
  <2>4. Pending(list', (1..Len(list)) \ {Len(list)}, count, [runs EXCEPT ![list[Len(list)]] = @ + 1])
    BY <1>2, <2>1, <2>3, PendingPop
  <2> QED
    BY <1>3, <2>2, <2>4 DEF r
<1>9. NoCexitYet' /\ OneCexit' /\ Mirrored' /\ StackPending' /\ AllCalled'
  BY <1>3, <1>7 DEF IInv, NoCexitYet, OneCexit, Mirrored, StackPending, AllCalled, FirstCexit
<1> QED
  BY <1>5, <1>6, <1>8, <1>9 DEF IInv

LEMMA CexitsBegun ==
  ASSUME IInv, InFrame("cexit")
  PROVE  cexits # 0
<1>1. frames \in Seq(Frames)
  BY DEF IInv, TypeOK
<1>2. Len(frames) \in DOMAIN frames /\ frames[Len(frames)] = "cexit"
  BY <1>1 DEF InFrame, Innermost
<1> QED
  BY <1>2 DEF IInv, NoCexitYet

LEMMA CExitCallsNextStep ==
  ASSUME IInv, CExitCallsNext
  PROVE  IInv'
<1>1. /\ top' = top - 1 /\ top' \in 0..Word-1 /\ top \in Nat /\ top > 0
      /\ stack \in [0..Size-1 -> 0..MaxRegs] /\ runs \in [1..MaxRegs -> Nat]
      /\ count \in 0..MaxRegs /\ MaxRegs \in Nat /\ Size \in Nat
  <2>1. top \in Nat /\ top > 0 /\ top' = Decremented
    BY DEF CExitCallsNext, MoreEntries, IInv, TypeOK
  <2>2. Decremented \in 0..Word-1 /\ Decremented = top - 1
    BY <2>1, DecrementedType DEF IInv
  <2>3. /\ stack \in [0..Size-1 -> 0..MaxRegs] /\ runs \in [1..MaxRegs -> Nat]
        /\ count \in 0..MaxRegs
    BY DEF IInv, TypeOK
  <2> QED
    BY <2>1, <2>2, <2>3, SizeAssumption, BoundAssumption, Zenon
<1>2. UNCHANGED <<stack, list, frames, count, cexits>> /\ pc = "loop" /\ cexits # 0
  BY CexitsBegun DEF CExitCallsNext
<1>3. CASE top' \in DOMAIN stack /\ stack[top'] # Empty
  <2>1. /\ runs' = [runs EXCEPT ![stack[top']] = @ + 1] /\ pc' = "handler"
        /\ stack[top'] \in 1..MaxRegs /\ stack[top'] <= count
    BY <1>1, <1>3 DEF CExitCallsNext, Call, Empty, IInv, Known
  <2>2. TypeOK'
    <3>1. runs' \in [1..MaxRegs -> Nat]
      BY <1>1, <2>1, CountedType, Zenon
    <3>2. pc' \in Points
      BY <2>1 DEF Points
    <3>3. TypeOK
      BY DEF IInv
    <3> QED
      BY <1>1, <1>2, <3>1, <3>2, <3>3 DEF TypeOK
  <2>3. Known'
    BY <1>1, <1>2, <2>1 DEF IInv, Known
  <2>4. StackPending'
    <3> SUFFICES ASSUME FirstCexit
                 PROVE  top' <= Size /\ Pending(stack, 0..top'-1, count, runs')
      BY <1>2 DEF StackPending, FirstCexit
    <3>1. top <= Size /\ Pending(stack, 0..top-1, count, runs)
      BY <1>2 DEF IInv, StackPending
    <3>2. 0..top'-1 = (0..top-1) \ {top'} /\ top' \in 0..top-1 /\ 0..top-1 \in SUBSET Int
      BY <1>1
    <3>3. Pending(stack, (0..top-1) \ {top - 1}, count, [runs EXCEPT ![stack[top - 1]] = @ + 1])
      BY <1>1, <3>1, <3>2, PendingPop
    <3>4. top' <= Size
      BY <1>1, <3>1
    <3>5. Pending(stack, 0..top'-1, count, runs')
      BY <1>1, <2>1, <3>2, <3>3
    <3> QED
      BY <3>4, <3>5
  <2>5. NoCexitYet' /\ OneCexit' /\ Mirrored' /\ ListPending' /\ AllCalled'
    BY <1>2, <2>1 DEF IInv, NoCexitYet, OneCexit, Mirrored, ListPending, AllCalled
  <2> QED
    BY <2>2, <2>3, <2>4, <2>5 DEF IInv
<1>4. CASE ~ (top' \in DOMAIN stack /\ stack[top'] # Empty)
  <2>1. pc' = "crashed" /\ UNCHANGED runs
    BY <1>4 DEF CExitCallsNext
  <2>2. TypeOK'
    BY <1>1, <1>2, <2>1 DEF IInv, TypeOK, Points, Ends
  <2>3. Known' /\ NoCexitYet' /\ OneCexit' /\ Mirrored' /\ ListPending'
    BY <1>2, <2>1 DEF IInv, Known, NoCexitYet, OneCexit, Mirrored, ListPending
  <2>4. StackPending' /\ AllCalled'
    BY <2>1 DEF StackPending, AllCalled
  <2> QED
    BY <2>2, <2>3, <2>4 DEF IInv
<1> QED
  BY <1>3, <1>4

LEMMA CExitLoopEndsStep ==
  ASSUME IInv, CExitLoopEnds
  PROVE  IInv'
<1>1. /\ top' \in 0..Word-1 /\ top = 0 /\ pc = "loop" /\ pc' = "close"
      /\ InFrame("cexit") /\ UNCHANGED <<stack, list, frames, count, runs, cexits>>
  BY DecrementedType DEF CExitLoopEnds, MoreEntries, IInv, TypeOK
<1>2. cexits # 0
  BY <1>1, CexitsBegun
<1>3. TypeOK'
  BY <1>1 DEF IInv, TypeOK, Points
<1>4. AllCalled'
  <2> SUFFICES ASSUME FirstCexit, NEW r \in 1..count
               PROVE  runs[r] = 1
    BY <1>1 DEF AllCalled, FirstCexit
  <2>1. Pending(stack, 0..top-1, count, runs)
    BY <1>1 DEF IInv, StackPending
  <2>2. 0..top-1 = {}
    BY <1>1
  <2> QED
    BY <2>1, <2>2 DEF Pending
<1>5. Known' /\ NoCexitYet' /\ OneCexit' /\ Mirrored' /\ ListPending' /\ StackPending'
  BY <1>1, <1>2 DEF IInv, Known, NoCexitYet, OneCexit, InFrame, Innermost, Mirrored,
                    ListPending, StackPending
<1> QED
  BY <1>3, <1>4, <1>5 DEF IInv

LEMMA CExitReturnsStep ==
  ASSUME IInv, CExitReturns
  PROVE  IInv'
<1>1. /\ frames \in Seq(Frames) /\ frames' = SubSeq(frames, 1, Len(frames) - 1)
      /\ pc = "close" /\ pc' \in {"main", "handler"}
      /\ UNCHANGED <<stack, top, list, count, runs, cexits>>
  BY DEF CExitReturns, Resumed, IInv, TypeOK
<1>2. /\ InFrame("cexit") /\ cexits # 0 /\ frames # <<>>
  BY <1>1, CexitsBegun DEF IInv, OneCexit, InFrame
<1>3. /\ Len(frames) \in DOMAIN frames /\ Len(frames') = Len(frames) - 1
      /\ frames[Len(frames)] = "cexit" /\ frames' \in Seq(Frames)
      /\ \A i \in DOMAIN frames' : i \in DOMAIN frames /\ i # Len(frames) /\ frames'[i] = frames[i]
  <2>1. frames[Len(frames)] = "cexit"
    BY <1>2 DEF InFrame, Innermost
  <2>2. \A i \in 1..Len(frames)-1 :
          i \in 1..Len(frames) /\ i # Len(frames) /\ frames'[i] = frames[i]
    BY <1>1, <1>2, ButLast
  <2>3. frames' \in Seq(Frames) /\ Len(frames') = Len(frames) - 1 /\ Len(frames) \in 1..Len(frames)
    BY <1>1, <1>2, ButLast
  <2>4. DOMAIN frames = 1..Len(frames) /\ DOMAIN frames' = 1..Len(frames)-1
    BY <1>1, <2>3
  <2> QED
    BY <2>1, <2>2, <2>3, <2>4
<1>4. TypeOK'
  BY <1>1, <1>3 DEF IInv, TypeOK, Points
<1>5. cexits = 1 => \A i \in DOMAIN frames' : frames'[i] # "cexit"
  BY <1>3 DEF IInv, OneCexit
<1>6. ~ FirstCexit'
  <2> SUFFICES ASSUME cexits = 1, frames' = <<"cexit">>
               PROVE  FALSE
    BY <1>1 DEF FirstCexit
  <2>1. 1 \in DOMAIN frames' /\ frames'[1] = "cexit"
    OBVIOUS
  <2> QED
    BY <1>5, <2>1
<1>7. Known' /\ NoCexitYet' /\ OneCexit' /\ Mirrored' /\ ListPending'
  BY <1>1, <1>2, <1>5 DEF IInv, Known, NoCexitYet, OneCexit, Mirrored, ListPending
<1> QED
  BY <1>4, <1>6, <1>7 DEF IInv, StackPending, AllCalled

-----------------------------------------------------------------------------
LEMMA NextIInv == IInv /\ [Next]_vars => IInv'
<1> SUFFICES ASSUME IInv, [Next]_vars PROVE IInv'
  OBVIOUS
<1>1. CASE RegisterFull \/ UNCHANGED vars
  BY <1>1, StutterStep DEF RegisterFull
<1>2. CASE RegisterAborts \/ Register
  BY <1>2, RegisterAbortsStep, RegisterStep
<1>3. CASE Exit \/ CExit \/ ExitAtOnce \/ ExitEnds \/ HandlerReturns
  BY <1>3, ExitStep, CExitStep, PointStep
<1>4. CASE ExitCallsNext \/ CExitCallsNext \/ CExitLoopEnds \/ CExitReturns
  BY <1>4, ExitCallsNextStep, CExitCallsNextStep, CExitLoopEndsStep, CExitReturnsStep
<1> QED
  BY <1>1, <1>2, <1>3, <1>4 DEF Next, LoopStep

(* The invariant the other theorems rest on.                               *)
THEOREM Invariant == Spec => []IInv
BY InitIInv, NextIInv, PTL DEF Spec

(* Every variable of the exit cleanup stack keeps its type: the top stays  *)
(* a size_t through the decrement that takes it below zero.                *)
THEOREM TypeCorrect == Spec => []TypeOK
<1>1. IInv => TypeOK
  BY DEF IInv
<1> QED
  BY <1>1, Invariant, PTL

(* exit and _cexit would make the same calls: the stack and the C          *)
(* library's list agree until one of them is called.                       *)
THEOREM Mirror == Spec => []StackMirrorsLibc
<1>1. IInv => StackMirrorsLibc
  BY DEF IInv, Mirrored, StackMirrorsLibc
<1> QED
  BY <1>1, Invariant, PTL

(* A program that does not call _cexit neither overruns the stack nor      *)
(* fails the assertion of register_cleanup, however much it registers.     *)
THEOREM NoFailureWithoutCexit == Spec => []FailsOnlyAfterCexit
<1>1. IInv => FailsOnlyAfterCexit
  <2>1. TypeOK /\ NoCexitYet => FailsOnlyAfterCexit
    BY BoundAssumption DEF TypeOK, NoCexitYet, FailsOnlyAfterCexit
  <2> QED
    BY <2>1 DEF IInv
<1> QED
  BY <1>1, Invariant, PTL

(* A function in the slot x above all others is the newest still to be     *)
(* called.                                                                 *)
LEMMA NewestAbove ==
  ASSUME NEW n \in Nat, NEW ran, NEW s, NEW D \in SUBSET Int, NEW x \in D,
         Pending(s, D, n, ran), \A i \in D : i <= x
  PROVE  \A r \in s[x]+1..n : ran[r] = 1
<1> SUFFICES ASSUME NEW r \in s[x]+1..n
             PROVE  ran[r] = 1
  OBVIOUS
<1>1. s[x] \in 1..n
  BY DEF Pending
<1>2. r \in 1..n
  BY <1>1
<1>3. ASSUME NEW i \in D, s[i] = r
      PROVE  FALSE
  <2>1. i < x \/ i = x
    BY <1>3
  <2>2. CASE i < x
    BY <1>1, <1>3, <2>2 DEF Pending
  <2>3. CASE i = x
    BY <1>1, <1>3, <2>3
  <2> QED
    BY <2>1, <2>2, <2>3
<1> QED
  BY <1>2, <1>3 DEF Pending

(* exit, and the first _cexit, call the functions newest first, those      *)
(* registered by functions called back included.                           *)
THEOREM CalledNewestFirst == Spec => NewestFirst
<1> DEFINE Newest == \A r \in 1..count :
             /\ runs'[r] # runs[r]
             /\ cexits = 0 \/ (cexits = 1 /\ frames = <<"cexit">>)
             => \A s \in r+1..count : runs[s] = 1
<1>1. ASSUME IInv, [Next]_vars
      PROVE  Newest
  <2> SUFFICES ASSUME NEW r \in 1..count, runs'[r] # runs[r], cexits = 0 \/ FirstCexit
               PROVE  \A s \in r+1..count : runs[s] = 1
    BY DEF FirstCexit
  <2>1. /\ runs \in [1..MaxRegs -> Nat] /\ count \in 0..MaxRegs /\ MaxRegs \in Nat
        /\ list \in Seq(1..MaxRegs) /\ r \in 1..MaxRegs
    BY <1>1, BoundAssumption DEF IInv, TypeOK
  <2>2. ExitCallsNext \/ CExitCallsNext
    BY <1>1 DEF Next, LoopStep, vars, RegisterAborts, RegisterFull, Register, Exit, ExitAtOnce,
                CExit, HandlerReturns, ExitEnds, CExitLoopEnds, CExitReturns
  <2>3. CASE ExitCallsNext
    <3>1. list # <<>> /\ runs' = [runs EXCEPT ![list[Len(list)]] = @ + 1] /\ InFrame("exit")
      BY <2>3 DEF ExitCallsNext, Call
    <3>2. r = list[Len(list)]
      BY <2>1, <3>1
    <3>3. Pending(list, 1..Len(list), count, runs)
      BY <1>1, <3>1 DEF IInv, ListPending, FirstCexit, InFrame, Innermost
    <3>4. /\ 1..Len(list) \in SUBSET Int /\ Len(list) \in 1..Len(list)
          /\ \A i \in 1..Len(list) : i <= Len(list)
      BY <2>1, <3>1, ButLast
    <3>5. count \in Nat
      BY <2>1
    <3>6. \A s \in list[Len(list)]+1..count : runs[s] = 1
      BY <3>3, <3>4, <3>5, NewestAbove
    <3> QED
      BY <3>2, <3>6
  <2>4. CASE CExitCallsNext
    <3>1. FirstCexit /\ pc = "loop"
      BY <1>1, <2>4, CexitsBegun DEF CExitCallsNext
    <3>2. top' = top - 1 /\ top \in Nat /\ top > 0
      BY <1>1, <2>4, DecrementedType DEF CExitCallsNext, MoreEntries, IInv, TypeOK
    <3>3. runs' = [runs EXCEPT ![stack[top']] = @ + 1]
      BY <2>4 DEF CExitCallsNext, Call
    <3>4. r = stack[top - 1]
      BY <2>1, <3>2, <3>3
    <3>5. Pending(stack, 0..top-1, count, runs)
      BY <1>1, <3>1 DEF IInv, StackPending
    <3>6. /\ 0..top-1 \in SUBSET Int /\ top - 1 \in 0..top-1
          /\ \A i \in 0..top-1 : i <= top - 1
      BY <3>2
    <3>7. count \in Nat
      BY <2>1
    <3>8. \A s \in stack[top-1]+1..count : runs[s] = 1
      BY <3>5, <3>6, <3>7, NewestAbove
    <3> QED
      BY <3>4, <3>8
  <2> QED
    BY <2>2, <2>3, <2>4
<1>2. IInv /\ [Next]_vars => [Newest]_vars
  BY <1>1
<1> QED
  BY <1>2, Invariant, PTL DEF Spec, NewestFirst

(* No registered function is missed or called twice, by exit or by the     *)
(* first _cexit, even if the functions called register others.             *)
THEOREM CalledOnce == Spec => []EachCalledOnce
<1>1. IInv => EachCalledOnce
  <2> SUFFICES ASSUME IInv PROVE EachCalledOnce
    OBVIOUS
  <2>1. ASSUME cexits = 0, list = <<>>, NEW r \in 1..count
        PROVE  runs[r] = 1
    <3>1. Pending(list, 1..Len(list), count, runs) /\ 1..Len(list) = {}
      BY <2>1 DEF IInv, ListPending
    <3> QED
      BY <3>1 DEF Pending
  <2>2. FirstCexit /\ pc = "close" => \A r \in 1..count : runs[r] = 1
    BY DEF IInv, AllCalled
  <2> QED
    BY <2>1, <2>2 DEF EachCalledOnce, FirstCexit
<1> QED
  BY <1>1, Invariant, PTL

=============================================================================
