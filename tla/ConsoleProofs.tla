---------------------------- MODULE ConsoleProofs ----------------------------
(***************************************************************************)
(* Proofs about the console functions (Console), for every set of          *)
(* programs, range of a byte, input, text and bound on the bytes pending.  *)
(***************************************************************************)
EXTENDS Console, TLAPS

Forms == { "putch", "cputs", "cprintf" }
InTerminalCall == { "get", "set", "read", "restore" }
Raw == { "read", "restore" }
AllOnes == Word - 1

(* How far a text is written: the loop has sent every char before i, none  *)
(* of them taken for EOF; after an EOF the char at i was sent and is the   *)
(* byte of all ones, or was not.                                           *)
Along(l) ==
  /\ l.i <= Len(l.text) /\ (l.op = "putch" => Len(l.text) = 1)
  /\ l.put # EOF =>
       /\ l.sent = l.i
       /\ l.i > 0 => IF l.op = "putch" THEN l.put = l.text[l.i] ELSE Byte(l.text[l.i]) # AllOnes
  /\ l.put = EOF =>
       /\ l.i < Len(l.text)
       /\ \/ l.sent = l.i /\ (l.i > 0 => Byte(l.text[l.i]) # AllOnes)
          \/ l.sent = l.i + 1 /\ Byte(l.text[l.i + 1]) = AllOnes

(* What the variables of a call are where it is.                           *)
Consistent(l, place, terminal) ==
  /\ place = "idle" => l = None
  /\ place \in InTerminalCall => l.op = "getch"
  /\ place \in { "get", "set" } => terminal
  /\ place = "put" => l.op \in Forms /\ Along(l)

CallsConsistent == \A p \in Procs : Consistent(local[p], pc[p], ttyp)

(* While nothing gets in the way one program at most is in getch; from     *)
(* tcsetattr on the terminal is in the mode it asked for, and it knows the *)
(* mode to give back from tcgetattr on.                                    *)
GetchAlone ==
  calm /\ ttyp =>
    /\ \A p, q \in Procs : InGetch(p) /\ InGetch(q) => p = q
    /\ \A p \in Procs : pc[p] \in Raw => tty = Curr(p)
    /\ \A p \in Procs : pc[p] \in Raw \cup {"set"} => local[p].prev = wanted
    /\ (\A p \in Procs : pc[p] \notin Raw) => tty = wanted

IInv == TypeOK /\ CallsConsistent /\ GetchAlone

-----------------------------------------------------------------------------
(* Bytes.                                                                  *)

(* A remainder is the only number of its range that a multiple of the      *)
(* divisor away from the dividend.                                         *)
LEMMA SmallMultiple ==
  ASSUME NEW m \in Nat, m > 0, NEW d \in Int, m * d < m, m * d > -m
  PROVE  d = 0
<1>1. CASE d >= 1
  <2>1. PICK e \in Nat : d = e + 1
    BY <1>1
  <2>2. m * d = m * e + m /\ m * e >= 0
    BY <2>1
  <2> QED
    BY <2>2
<1>2. CASE d <= -1
  <2>1. PICK e \in Nat : d = -e - 1
    BY <1>2
  <2>2. m * d = -(m * e) - m /\ m * e >= 0
    BY <2>1
  <2> QED
    BY <2>2
<1> QED
  BY <1>1, <1>2

LEMMA Remainder ==
  ASSUME NEW m \in Nat, m > 0, NEW x \in Int
  PROVE  /\ x % m \in 0..m-1 /\ (x \div m) \in Int
         /\ x = (m * (x \div m)) + (x % m)
  OBVIOUS

LEMMA RemainderUnique ==
  ASSUME NEW m \in Nat, m > 0, NEW x \in Int, NEW q \in Int, NEW r \in 0..m-1, x = m * q + r
  PROVE  x % m = r
<1>1. PICK s \in 0..m-1, k \in Int : s = x % m /\ k = x \div m /\ x = m * k + s
  BY Remainder
<1>2. PICK d \in Int : d = k - q
  OBVIOUS
<1>3. m * d = m * k - m * q
  BY <1>2
<1>4. m * d = r - s
  BY <1>1, <1>3
<1>5. d = 0
  BY <1>4, SmallMultiple
<1> QED
  BY <1>1, <1>4, <1>5

LEMMA Congruent ==
  ASSUME NEW m \in Nat, m > 0, NEW x \in Int, NEW q \in Int
  PROVE  (x + m * q) % m = x % m
<1>1. PICK s \in 0..m-1, k \in Int : s = x % m /\ x = m * k + s
  BY Remainder
<1>2. PICK y \in Int, j \in Int : y = x + m * q /\ j = k + q
  OBVIOUS
<1>3. m * j = m * k + m * q
  BY <1>2
<1>4. y = m * j + s
  BY <1>1, <1>2, <1>3
<1>5. y % m = s
  BY <1>4, RemainderUnique
<1> QED
  BY <1>1, <1>2, <1>5

(* A signed char agrees with what it was made from as a byte, and is EOF   *)
(* if that was the byte of all ones.                                       *)
LEMMA SignedByte ==
  ASSUME NEW v \in Int
  PROVE  /\ Signed(v) \in Chars /\ Byte(Signed(v)) = Byte(v)
         /\ Byte(v) \in 0..Word-1
         /\ Signed(v) = EOF <=> Byte(v) = AllOnes
<1>1. Word \in Nat /\ Word > 0 /\ Word % 2 = 0
  BY WordAssumption
<1>2. PICK h \in Nat : Word = 2 * h /\ Word \div 2 = h /\ h > 0
  BY <1>1
<1>3. PICK x \in Int, r \in 0..Word-1, k \in Int :
        x = v + h /\ r = x % Word /\ x = Word * k + r
  <2>1. PICK x \in Int : x = v + h
    BY <1>2
  <2>2. /\ x % Word \in 0..Word-1 /\ x \div Word \in Int
        /\ x = (Word * (x \div Word)) + (x % Word)
    BY <1>1, Remainder
  <2> QED
    BY <2>1, <2>2
<1>4. Signed(v) = r - h
  BY <1>2, <1>3 DEF Signed
<1>5. Signed(v) \in Chars
  BY <1>2, <1>3, <1>4 DEF Chars
<1>6. v = (r - h) + Word * k
  <2>1. PICK y \in Int : y = Word * k
    BY <1>1
  <2> QED
    BY <1>2, <1>3, <2>1
<1>7. v % Word = (r - h) % Word
  <2>1. PICK s \in Int : s = r - h
    BY <1>2, <1>3
  <2>2. (s + Word * k) % Word = s % Word
    BY <1>1, <2>1, Congruent
  <2> QED
    BY <1>6, <2>1, <2>2
<1>8. Byte(Signed(v)) = Byte(v)
  BY <1>4, <1>7 DEF Byte
<1>9. Byte(v) \in 0..Word-1
  BY <1>1, Remainder DEF Byte
<1>10. ASSUME Signed(v) = EOF PROVE Byte(v) = AllOnes
  <2>1. Byte(v) = (-1) % Word
    BY <1>8, <1>10 DEF Byte, EOF
  <2>2. -1 = Word * (-1) + (Word - 1)
    BY <1>1
  <2>3. (-1) % Word = Word - 1
    BY <1>1, <2>2, RemainderUnique
  <2> QED
    BY <2>1, <2>3 DEF AllOnes
<1>11. ASSUME Byte(v) = AllOnes PROVE Signed(v) = EOF
  <2>1. PICK s \in Int, j \in Int : s = r - h /\ s % Word = Word - 1 /\ s = Word * j + (Word - 1)
    <3>1. (r - h) % Word = Word - 1 /\ r - h \in Int
      BY <1>2, <1>3, <1>7, <1>11 DEF Byte, AllOnes
    <3> QED
      BY <1>1, <3>1, Remainder
  <2>2. PICK d \in Int : d = j + 1
    OBVIOUS
  <2>3. Word * d = Word * j + Word
    BY <1>1, <2>2
  <2>4. Word * d = s + 1
    BY <1>1, <2>1, <2>3
  <2>5. s + 1 < Word /\ s + 1 > -Word
    BY <1>2, <1>3, <2>1
  <2>6. d = 0
    BY <1>1, <2>4, <2>5, SmallMultiple
  <2>7. s = -1
    BY <1>1, <2>4, <2>6
  <2> QED
    BY <1>4, <2>1, <2>7 DEF EOF
<1> QED
  BY <1>5, <1>8, <1>9, <1>10, <1>11

(* A byte is itself, and a char or an int passed is one of the values an   *)
(* answer may have.                                                        *)
LEMMA ByteItself ==
  ASSUME NEW b \in 0..Word-1
  PROVE  Byte(b) = b
<1>1. Word \in Nat /\ Word > 0 /\ b \in Int
  BY WordAssumption
<1>2. b = Word * 0 + b
  BY <1>1
<1> QED
  BY <1>1, <1>2, RemainderUnique DEF Byte

LEMMA CharsAreValues ==
  Chars \subseteq -Word..Word-1 /\ -Word..Word-1 \subseteq Int /\ Promise!Values = -Word..Word-1
<1>1. PICK h \in Nat : Word = 2 * h /\ Word \div 2 = h /\ h > 0
  BY WordAssumption
<1> QED
  BY <1>1 DEF Chars, Promise!Values

-----------------------------------------------------------------------------
(* Calls.                                                                  *)

GetchVariables == [op : {"getch"}, echo : BOOLEAN, prev : Modes, got : 0..Word]
SayVariables ==
  [op : Forms, text : Seq(-Word..Word-1), i : Nat, sent : Nat, put : -Word..Word-1]

LEMMA CallTypes ==
  /\ CallVariables = {None} \cup GetchVariables \cup SayVariables
  /\ \A l \in CallVariables : /\ l.op = "none" => l = None
                              /\ l.op = "getch" => l \in GetchVariables
                              /\ l.op \in Forms => l \in SayVariables
                              /\ l = None => l.op \notin Forms /\ l.op # "getch"
<1>1. CallVariables = {None} \cup GetchVariables \cup SayVariables
  BY DEF CallVariables, GetchVariables, SayVariables, Forms
<1>2. None.op = "none"
  BY DEF None
<1>3. \A l \in GetchVariables : l.op = "getch"
  BY DEF GetchVariables
<1>4. \A l \in SayVariables : l.op \in Forms
  BY DEF SayVariables
<1>5. "none" \notin Forms /\ "getch" \notin Forms /\ "none" # "getch"
  BY DEF Forms
<1> QED
  BY <1>1, <1>2, <1>3, <1>4, <1>5

CallPlaces == { "idle", "get", "set", "read", "restore", "put" }

(* A step of one program leaves the others where they are.                 *)
LEMMA OneProgram ==
  ASSUME TypeOK, CallsConsistent,
         NEW p \in Procs, NEW place \in CallPlaces, NEW l \in CallVariables,
         Goes(p, place), Sets(p, l), UNCHANGED ttyp, Consistent(l, place, ttyp)
  PROVE  /\ pc' \in [Procs -> CallPlaces] /\ local' \in [Procs -> CallVariables]
         /\ pc'[p] = place /\ local'[p] = l
         /\ \A q \in Procs \ {p} : pc'[q] = pc[q] /\ local'[q] = local[q]
         /\ CallsConsistent'
<1>1. pc \in [Procs -> CallPlaces] /\ local \in [Procs -> CallVariables]
  BY DEF TypeOK, CallPlaces
<1>2. /\ pc' \in [Procs -> CallPlaces] /\ local' \in [Procs -> CallVariables]
      /\ pc'[p] = place /\ local'[p] = l
      /\ \A q \in Procs \ {p} : pc'[q] = pc[q] /\ local'[q] = local[q]
  BY <1>1 DEF Goes, Sets
<1>3. ASSUME NEW q \in Procs PROVE Consistent(local'[q], pc'[q], ttyp')
  <2>1. CASE q = p
    BY <1>2, <2>1
  <2>2. CASE q # p
    <3>1. Consistent(local[q], pc[q], ttyp)
      BY DEF CallsConsistent
    <3> QED
      BY <1>2, <2>2, <3>1
  <2> QED
    BY <2>1, <2>2
<1>4. CallsConsistent'
  BY <1>3 DEF CallsConsistent
<1> QED
  BY <1>2, <1>4

(* Where a program is tells which call it is in.                           *)
LEMMA WhereItIs ==
  ASSUME TypeOK, CallsConsistent, NEW p \in Procs
  PROVE  /\ pc[p] \in CallPlaces /\ local[p] \in CallVariables
         /\ pc[p] = "idle" => local[p] = None /\ ~ InGetch(p)
         /\ pc[p] \in InTerminalCall => local[p] \in GetchVariables /\ InGetch(p)
         /\ InGetch(p) => pc[p] \in InTerminalCall
         /\ pc[p] \in { "get", "set" } => ttyp
         /\ pc[p] = "put" => local[p] \in SayVariables /\ Along(local[p])
<1>1. pc[p] \in CallPlaces /\ local[p] \in CallVariables /\ Consistent(local[p], pc[p], ttyp)
  BY DEF TypeOK, CallsConsistent, CallPlaces
<1>2. CASE pc[p] = "idle"
  <2>1. local[p] = None
    BY <1>1, <1>2 DEF Consistent
  <2>2. ~ InGetch(p)
    BY <1>1, <2>1, CallTypes DEF InGetch
  <2> QED
    BY <1>1, <1>2, <2>1, <2>2 DEF InTerminalCall
<1>3. CASE pc[p] \in InTerminalCall
  <2>1. local[p].op = "getch" /\ (pc[p] \in { "get", "set" } => ttyp)
    BY <1>1, <1>3 DEF Consistent
  <2> QED
    BY <1>1, <1>3, <2>1, CallTypes DEF InGetch, InTerminalCall
<1>4. CASE pc[p] = "put"
  <2>1. local[p].op \in Forms /\ Along(local[p])
    BY <1>1, <1>4 DEF Consistent
  <2>2. local[p].op # "getch"
    BY <2>1 DEF Forms
  <2> QED
    BY <1>1, <1>4, <2>1, <2>2, CallTypes DEF InGetch, InTerminalCall
<1> QED
  BY <1>1, <1>2, <1>3, <1>4 DEF CallPlaces, InTerminalCall

LEMMA CallsStarted ==
  /\ None \in CallVariables /\ \A terminal : Consistent(None, "idle", terminal)
  /\ \A echo \in BOOLEAN : Getting(echo) \in GetchVariables
  /\ \A form \in Forms, text \in Seq(-Word..Word-1) : Saying(form, text) \in SayVariables
<1>1. Word \in Nat /\ Word > 0
  BY WordAssumption
<1>2. None \in CallVariables
  BY CallTypes
<1>3. \A terminal : Consistent(None, "idle", terminal)
  BY DEF Consistent, InTerminalCall
<1>4. \A echo \in BOOLEAN : Getting(echo) \in GetchVariables
  BY <1>1 DEF Getting, GetchVariables, Anything, Modes, Ended
<1>5. \A form \in Forms, text \in Seq(-Word..Word-1) : Saying(form, text) \in SayVariables
  BY <1>1 DEF Saying, SayVariables
<1> QED
  BY <1>2, <1>3, <1>4, <1>5

LEMMA WiderTexts ==
  ASSUME NEW s \in Seq(1..Word-1)
  PROVE  s \in Seq(-Word..Word-1)
<1>1. PICK A, B : A = 1..Word-1 /\ B = -Word..Word-1
  OBVIOUS
<1>2. \A v \in A : v \in B
  BY <1>1, WordAssumption
<1>3. PICK n \in Nat : s \in [1..n -> A]
  <2>1. s \in Seq(A)
    BY <1>1
  <2>2. Len(s) \in Nat /\ s \in [1..Len(s) -> A]
    BY <2>1
  <2> QED
    BY <2>2
<1>4. s \in [1..n -> B]
  BY <1>2, <1>3
<1>5. s \in Seq(B)
  BY <1>4
<1> QED
  BY <1>1, <1>5

LEMMA ElementOf ==
  ASSUME NEW A, NEW s \in Seq(A), NEW j \in 1..Len(s)
  PROVE  s[j] \in A
  OBVIOUS

(* A text given to cputs, cprintf or putch.                                *)
LEMMA TextGiven ==
  /\ \A text \in Texts : text \in Seq(-Word..Word-1)
  /\ \A v \in Ints : <<v>> \in Seq(-Word..Word-1) /\ v \in -Word..Word-1
<1>1. \A text \in Seq(1..Word-1) : text \in Seq(-Word..Word-1)
  BY WiderTexts
<1>2. \A v \in Ints : v \in -Word..Word-1
  BY InputAssumption
<1>3. \A v \in Ints : <<v>> \in Seq(-Word..Word-1)
  BY <1>2
<1> QED
  BY <1>1, <1>2, <1>3, TextsAssumption

-----------------------------------------------------------------------------
(* The invariant, initially.                                               *)

LEMMA InitIInv == Init => IInv
<1> SUFFICES ASSUME Init PROVE IInv
  OBVIOUS
<1>1. /\ ttyp \in BOOLEAN /\ tty \in UserModes /\ input = <<>> /\ calm = TRUE /\ wanted = tty
      /\ full = [p \in Procs |-> FALSE] /\ char = [p \in Procs |-> 0]
      /\ pc = [p \in Procs |-> "idle"] /\ local = [p \in Procs |-> None]
      /\ ret = [p \in Procs |-> NoAnswer]
  BY DEF Init
<1>2. 0 \in Chars /\ NoAnswer \in Int
  <2>1. PICK h \in Nat : Word = 2 * h /\ Word \div 2 = h /\ h > 0
    BY WordAssumption
  <2> QED
    BY <2>1 DEF Chars, NoAnswer
<1>3. TypeOK
  <2>1. input \in Seq(Bytes)
    BY <1>1
  <2>2. {tty, wanted} \subseteq Modes
    BY <1>1, ModesAssumption
  <2>3. None \in CallVariables
    BY CallsStarted
  <2>4. /\ full \in [Procs -> BOOLEAN] /\ char \in [Procs -> Chars]
        /\ pc \in [Procs -> { "idle", "get", "set", "read", "restore", "put" }]
        /\ local \in [Procs -> CallVariables] /\ ret \in [Procs -> Int]
    BY <1>1, <1>2, <2>3
  <2> QED
    BY <1>1, <2>1, <2>2, <2>4 DEF TypeOK
<1>4. CallsConsistent
  BY <1>1, CallsStarted DEF CallsConsistent
<1>5. GetchAlone
  <2>1. \A p \in Procs : ~ InGetch(p)
    BY <1>1, CallsStarted, CallTypes DEF InGetch
  <2>2. \A p \in Procs : pc[p] \notin Raw \cup {"set"}
    BY <1>1 DEF Raw
  <2> QED
    BY <1>1, <2>1, <2>2 DEF GetchAlone
<1> QED
  BY <1>3, <1>4, <1>5 DEF IInv

-----------------------------------------------------------------------------
(* Steps outside getch.                                                    *)

(* A program that is in no getch leaves the mode as it is promised.        *)
LEMMA AloneOutside ==
  ASSUME IInv, NEW p \in Procs, NEW place \in { "idle", "put" }, NEW l \in CallVariables,
         l.op # "getch", ~ InGetch(p), Goes(p, place), Sets(p, l), Consistent(l, place, ttyp),
         UNCHANGED <<ttyp, tty, wanted, calm>>
  PROVE  GetchAlone'
<1>1. SUFFICES ASSUME calm, ttyp PROVE GetchAlone'
  BY DEF GetchAlone
<1>2. /\ pc'[p] = place /\ local'[p] = l
      /\ \A q \in Procs \ {p} : pc'[q] = pc[q] /\ local'[q] = local[q]
  <2>1. place \in CallPlaces
    BY DEF CallPlaces
  <2> QED
    BY <2>1, OneProgram DEF IInv
<1>3. pc[p] \notin Raw \cup {"set"} /\ pc'[p] \notin Raw \cup {"set"}
  BY <1>2, WhereItIs DEF IInv, Raw, InTerminalCall
<1>4. /\ \A q, r \in Procs : InGetch(q) /\ InGetch(r) => q = r
      /\ \A q \in Procs : pc[q] \in Raw => tty = Curr(q)
      /\ \A q \in Procs : pc[q] \in Raw \cup {"set"} => local[q].prev = wanted
      /\ (\A q \in Procs : pc[q] \notin Raw) => tty = wanted
  BY <1>1 DEF IInv, GetchAlone
<1>5. \A q \in Procs : local'[q].op = "getch" => q # p /\ InGetch(q)
  BY <1>2 DEF InGetch
<1>6. \A q, r \in Procs : InGetch(q)' /\ InGetch(r)' => q = r
  BY <1>4, <1>5 DEF InGetch
<1>7. \A q \in Procs : pc'[q] \in Raw => tty' = Curr(q)'
  BY <1>2, <1>3, <1>4 DEF Curr
<1>8. \A q \in Procs : pc'[q] \in Raw \cup {"set"} => local'[q].prev = wanted'
  BY <1>2, <1>3, <1>4
<1>9. (\A q \in Procs : pc'[q] \notin Raw) => tty' = wanted'
  BY <1>2, <1>3, <1>4
<1> QED
  BY <1>6, <1>7, <1>8, <1>9 DEF GetchAlone

(* A call returns without having been in getch, or one starts to write.    *)
LEMMA StepOutside ==
  ASSUME IInv, NEW p \in Procs, NEW place \in { "idle", "put" }, NEW l \in CallVariables,
         l.op # "getch", ~ InGetch(p), Goes(p, place), Sets(p, l), Consistent(l, place, ttyp),
         full' \in [Procs -> BOOLEAN], char' \in [Procs -> Chars], ret' \in [Procs -> Int],
         UNCHANGED <<ttyp, tty, input, wanted, calm>>
  PROVE  IInv'
<1>1. /\ pc' \in [Procs -> CallPlaces] /\ local' \in [Procs -> CallVariables] /\ CallsConsistent'
  <2>1. place \in CallPlaces
    BY DEF CallPlaces
  <2> QED
    BY <2>1, OneProgram DEF IInv
<1>2. TypeOK'
  BY <1>1 DEF IInv, TypeOK, CallPlaces
<1>3. GetchAlone'
  BY AloneOutside
<1> QED
  BY <1>1, <1>2, <1>3 DEF IInv

LEMMA ReturnsType ==
  ASSUME IInv, NEW p \in Procs, NEW v \in Int, Returns(p, v)
  PROVE  /\ ret' \in [Procs -> Int] /\ Goes(p, "idle") /\ Sets(p, None)
         /\ None \in CallVariables /\ None.op # "getch" /\ Consistent(None, "idle", ttyp)
<1>1. None \in CallVariables /\ None.op # "getch" /\ Consistent(None, "idle", ttyp)
  BY CallsStarted, CallTypes
<1>2. ret' \in [Procs -> Int]
  BY DEF IInv, TypeOK, Returns
<1> QED
  BY <1>1, <1>2 DEF Returns

LEMMA CallReturns ==
  ASSUME IInv, NEW p \in Procs, NEW v \in Int, Returns(p, v), ~ InGetch(p),
         full' \in [Procs -> BOOLEAN], char' \in [Procs -> Chars],
         UNCHANGED <<ttyp, tty, input, wanted, calm>>
  PROVE  IInv'
  BY ReturnsType, StepOutside

LEMMA IntConstants == EOF \in Int /\ NoAnswer \in Int /\ Ended \in Int /\ Chars \subseteq Int
<1>1. Word \in Int
  BY WordAssumption
<1>2. Chars \subseteq Int
  BY CharsAreValues
<1> QED
  BY <1>1, <1>2 DEF EOF, NoAnswer, Ended

LEMMA GetPushedStep ==
  ASSUME IInv, NEW p \in Procs, GetPushed(p)
  PROVE  IInv'
<1>1. /\ pc[p] = "idle" /\ full' = [full EXCEPT ![p] = FALSE] /\ Returns(p, char[p])
      /\ UNCHANGED <<ttyp, tty, input, char, wanted, calm>>
  BY DEF GetPushed, At
<1>2. ~ InGetch(p)
  BY <1>1, WhereItIs DEF IInv
<1>3. full' \in [Procs -> BOOLEAN] /\ char' \in [Procs -> Chars] /\ char[p] \in Int
  BY <1>1, IntConstants DEF IInv, TypeOK
<1> QED
  BY <1>1, <1>2, <1>3, CallReturns

LEMMA UngetchStep ==
  ASSUME IInv, NEW p \in Procs, NEW v \in Ints, Ungetch(p, v)
  PROVE  IInv'
<1>1. pc[p] = "idle" /\ UNCHANGED <<ttyp, tty, input, wanted, calm>>
  BY DEF Ungetch, At
<1>2. ~ InGetch(p)
  BY <1>1, WhereItIs DEF IInv
<1>3. v \in Int /\ Signed(v) \in Chars
  <2>1. v \in Int
    BY TextGiven, CharsAreValues
  <2> QED
    BY <2>1, SignedByte
<1>4. CASE full[p]
  <2>1. Returns(p, EOF) /\ UNCHANGED <<full, char>>
    BY <1>4 DEF Ungetch
  <2>2. full' \in [Procs -> BOOLEAN] /\ char' \in [Procs -> Chars]
    BY <2>1 DEF IInv, TypeOK
  <2> QED
    BY <1>1, <1>2, <2>1, <2>2, IntConstants, CallReturns
<1>5. CASE ~ full[p]
  <2>1. /\ Returns(p, v) /\ full' = [full EXCEPT ![p] = TRUE]
        /\ char' = [char EXCEPT ![p] = Signed(v)]
    BY <1>5 DEF Ungetch
  <2>2. full' \in [Procs -> BOOLEAN] /\ char' \in [Procs -> Chars]
    BY <1>3, <2>1 DEF IInv, TypeOK
  <2> QED
    BY <1>1, <1>2, <1>3, <2>1, <2>2, CallReturns
<1> QED
  BY <1>4, <1>5

LEMMA CprintfFailsStep ==
  ASSUME IInv, NEW p \in Procs, CprintfFails(p)
  PROVE  IInv'
<1>1. /\ pc[p] = "idle" /\ Returns(p, 0)
      /\ UNCHANGED <<ttyp, tty, input, full, char, wanted, calm>>
  BY DEF CprintfFails, At
<1>2. ~ InGetch(p)
  BY <1>1, WhereItIs DEF IInv
<1>3. full' \in [Procs -> BOOLEAN] /\ char' \in [Procs -> Chars]
  BY <1>1 DEF IInv, TypeOK
<1> QED
  BY <1>1, <1>2, <1>3, CallReturns

(* A text to be written begins at its first char.                          *)
LEMMA SayBegins ==
  ASSUME NEW form \in Forms, NEW text \in Seq(-Word..Word-1), form = "putch" => Len(text) = 1
  PROVE  /\ Saying(form, text) \in CallVariables /\ Saying(form, text).op # "getch"
         /\ \A terminal : Consistent(Saying(form, text), "put", terminal)
<1>1. PICK l : l = Saying(form, text)
  OBVIOUS
<1>2. l \in SayVariables
  BY <1>1, CallsStarted
<1>3. l.op = form /\ l.text = text /\ l.i = 0 /\ l.sent = 0 /\ l.put = 0
  BY <1>1 DEF Saying
<1>4. Len(text) \in Nat /\ l.put # EOF
  BY <1>3 DEF EOF
<1>5. Along(l)
  BY <1>3, <1>4 DEF Along
<1>6. l \in CallVariables /\ l.op \in Forms
  BY <1>2, <1>3, CallTypes
<1>7. \A terminal : Consistent(l, "put", terminal)
  BY <1>5, <1>6 DEF Consistent, InTerminalCall
<1>8. l.op # "getch"
  BY <1>6 DEF Forms
<1> QED
  BY <1>1, <1>6, <1>7, <1>8

LEMMA SayStep ==
  ASSUME IInv, NEW p \in Procs, NEW form \in Forms, NEW text \in Seq(-Word..Word-1),
         form = "putch" => Len(text) = 1, Say(p, form, text)
  PROVE  IInv'
<1>1. PICK l : l = Saying(form, text)
  OBVIOUS
<1>2. /\ pc[p] = "idle" /\ Goes(p, "put") /\ Sets(p, l) /\ ret' = [ret EXCEPT ![p] = NoAnswer]
      /\ UNCHANGED <<ttyp, tty, input, full, char, wanted, calm>>
  BY <1>1 DEF Say, Starts, At
<1>3. ~ InGetch(p)
  BY <1>2, WhereItIs DEF IInv
<1>4. l \in CallVariables /\ l.op # "getch" /\ Consistent(l, "put", ttyp)
  BY <1>1, SayBegins
<1>5. /\ full' \in [Procs -> BOOLEAN] /\ char' \in [Procs -> Chars] /\ ret' \in [Procs -> Int]
  BY <1>2, IntConstants DEF IInv, TypeOK
<1> QED
  BY <1>2, <1>3, <1>4, <1>5, StepOutside

(* What putch returns for the char it has written, and the next char.      *)
PutAt(l, value, written) ==
  [l EXCEPT !.put = value, !.sent = IF written THEN @ + 1 ELSE @,
            !.i = IF value = EOF THEN @ ELSE @ + 1]
PutValue(l) == IF l.op = "putch" THEN l.text[l.i + 1] ELSE Signed(l.text[l.i + 1])

LEMMA PutAlong ==
  ASSUME NEW l \in SayVariables, Along(l), l.i < Len(l.text), l.put # EOF,
         NEW value, NEW written \in BOOLEAN,
         IF written THEN value = PutValue(l) ELSE value = EOF
  PROVE  /\ PutAt(l, value, written) \in SayVariables /\ Along(PutAt(l, value, written))
         /\ value \in -Word..Word-1 /\ (value = EOF /\ written => Byte(l.text[l.i + 1]) = AllOnes)
<1>1. /\ l.i \in Nat /\ l.text \in Seq(-Word..Word-1) /\ Len(l.text) \in Nat /\ l.sent = l.i
      /\ l.op \in Forms
  BY DEF SayVariables, Along
<1>2. PICK c \in -Word..Word-1 : c = l.text[l.i + 1]
  <2>1. PICK A, text, j : /\ A = -Word..Word-1 /\ text = l.text /\ j = l.i + 1
                          /\ text \in Seq(A)
    BY <1>1
  <2>2. j \in 1..Len(text)
    BY <1>1, <2>1
  <2>3. text[j] \in A
    BY <2>1, <2>2, ElementOf
  <2> QED
    BY <2>1, <2>3
<1>3. c \in Int /\ Signed(c) \in -Word..Word-1 /\ EOF \in -Word..Word-1 /\ (-1) \in Int
  <2>1. c \in Int /\ Word \in Nat /\ Word > 0
    BY <1>2, WordAssumption
  <2>2. Signed(c) \in -Word..Word-1
    BY <2>1, SignedByte, CharsAreValues
  <2> QED
    BY <2>1, <2>2 DEF EOF
<1>4. /\ value \in -Word..Word-1
      /\ written => value = IF l.op = "putch" THEN c ELSE Signed(c)
  BY <1>2, <1>3 DEF PutValue
<1>5. Byte(EOF) = AllOnes
  <2>1. Word \in Nat /\ Word > 0 /\ -1 = Word * (-1) + (Word - 1)
    BY WordAssumption
  <2>2. (-1) % Word = Word - 1
    BY <2>1, RemainderUnique
  <2> QED
    BY <2>2 DEF Byte, EOF, AllOnes
<1>6. value = EOF /\ written => Byte(c) = AllOnes
  BY <1>3, <1>4, <1>5, SignedByte
<1>7. value # EOF => written /\ (l.op # "putch" => Byte(c) # AllOnes)
  BY <1>3, <1>4, SignedByte
<1>8. PICK m : m = PutAt(l, value, written)
  OBVIOUS
<1>9. /\ m \in SayVariables /\ m.op = l.op /\ m.text = l.text /\ m.put = value
      /\ m.sent = IF written THEN l.i + 1 ELSE l.i
      /\ m.i = IF value = EOF THEN l.i ELSE l.i + 1
  <2>1. PICK i \in Nat, sent \in Nat : /\ i = IF value = EOF THEN l.i ELSE l.i + 1
                                      /\ sent = IF written THEN l.sent + 1 ELSE l.sent
    BY <1>1
  <2>2. m = [l EXCEPT !.put = value, !.sent = sent, !.i = i]
    BY <1>8, <2>1 DEF PutAt
  <2>3. m \in SayVariables
    BY <1>4, <2>2 DEF SayVariables
  <2>4. m.op = l.op /\ m.text = l.text /\ m.put = value /\ m.sent = sent /\ m.i = i
    BY <2>2 DEF SayVariables
  <2> QED
    BY <1>1, <2>1, <2>3, <2>4
<1>10. CASE value = EOF
  <2>1. m.i = l.i /\ m.i < Len(m.text) /\ Byte(m.text[m.i + 1]) = Byte(c) /\ m.put = EOF
    BY <1>2, <1>9, <1>10
  <2>2. m.i > 0 => Byte(m.text[m.i]) # AllOnes
    <3>1. PICK n \in Nat, i \in Nat : n = Len(l.text) /\ i = l.i /\ i < n
      BY <1>1
    <3>2. l.op = "putch" => n = 1
      BY <3>1 DEF Along
    <3>3. l.op = "putch" => l.i = 0
      <4>1. n = 1 => i = 0
        BY <3>1
      <4> QED
        BY <3>1, <3>2, <4>1
    <3> QED
      BY <1>1, <1>9, <2>1, <3>3 DEF Along
  <2>3. m.sent = m.i \/ (m.sent = m.i + 1 /\ Byte(c) = AllOnes)
    BY <1>6, <1>9, <1>10
  <2>4. m.i <= Len(m.text) /\ (m.op = "putch" => Len(m.text) = 1)
    BY <1>1, <1>9, <2>1 DEF Along
  <2> QED
    BY <1>2, <1>4, <1>6, <1>8, <1>9, <2>1, <2>2, <2>3, <2>4 DEF Along
<1>11. CASE value # EOF
  <2>1. written /\ m.i = l.i + 1 /\ m.sent = m.i /\ m.put # EOF
    BY <1>7, <1>9, <1>11
  <2>2. m.text[m.i] = c
    BY <1>2, <1>9, <2>1
  <2>3. IF m.op = "putch" THEN m.put = m.text[m.i] ELSE Byte(m.text[m.i]) # AllOnes
    BY <1>4, <1>7, <1>9, <1>11, <2>1, <2>2
  <2>4. m.i <= Len(m.text) /\ (m.op = "putch" => Len(m.text) = 1)
    BY <1>1, <1>9, <2>1 DEF Along
  <2>5. Along(m)
    BY <2>1, <2>3, <2>4 DEF Along
  <2> QED
    BY <1>4, <1>8, <1>9, <1>11, <2>5
<1> QED
  BY <1>10, <1>11

LEMMA PutStep ==
  ASSUME IInv, NEW p \in Procs, NEW value, NEW written \in BOOLEAN, Put(p, value, written),
         IF written THEN value = PutValue(local[p]) ELSE value = EOF
  PROVE  IInv'
<1>1. /\ pc[p] = "put" /\ local[p].i < Len(local[p].text) /\ local[p].put # EOF
      /\ UNCHANGED <<ttyp, tty, input, full, char, pc, ret, wanted, calm>>
  BY DEF Put, At
<1>2. local[p] \in SayVariables /\ Along(local[p]) /\ ~ InGetch(p)
  BY <1>1, WhereItIs DEF IInv, InTerminalCall
<1>3. PICK l : l = PutAt(local[p], value, written)
  OBVIOUS
<1>4. Sets(p, l)
  BY <1>3 DEF Put, PutAt
<1>5. l \in SayVariables /\ Along(l)
  BY <1>1, <1>2, <1>3, PutAlong
<1>6. l \in CallVariables /\ l.op \in Forms /\ l.op # "getch"
  BY <1>5, CallTypes DEF SayVariables, Forms
<1>7. Consistent(l, "put", ttyp)
  BY <1>5, <1>6 DEF Consistent, InTerminalCall
<1>8. Goes(p, "put")
  <2>1. pc \in [Procs -> { "idle", "get", "set", "read", "restore", "put" }]
    BY DEF IInv, TypeOK
  <2> QED
    BY <1>1, <2>1 DEF Goes
<1>9. full' \in [Procs -> BOOLEAN] /\ char' \in [Procs -> Chars] /\ ret' \in [Procs -> Int]
  BY <1>1 DEF IInv, TypeOK
<1> QED
  BY <1>1, <1>2, <1>4, <1>6, <1>7, <1>8, <1>9, StepOutside

LEMMA WriteStep ==
  ASSUME IInv, NEW p \in Procs, Write(p) \/ WriteFails(p)
  PROVE  IInv'
<1>1. CASE Write(p)
  <2>1. PICK value : value = PutValue(local[p])
    OBVIOUS
  <2>2. Put(p, value, TRUE)
    BY <1>1, <2>1 DEF Write, PutValue
  <2> QED
    BY <2>1, <2>2, PutStep
<1>2. CASE WriteFails(p)
  <2>1. Put(p, EOF, FALSE)
    BY <1>2 DEF WriteFails
  <2> QED
    BY <2>1, PutStep
<1> QED
  BY <1>1, <1>2

(* What the functions that write return.                                   *)
SaidValue(l) ==
  CASE l.op = "putch" -> l.put
    [] l.op = "cputs" -> IF l.put = EOF THEN -1 ELSE 0
    [] l.op = "cprintf" -> l.i

LEMMA SaidInt ==
  ASSUME NEW l \in SayVariables
  PROVE  SaidValue(l) \in Int
<1>1. l.put \in Int /\ l.i \in Int /\ l.op \in Forms
  BY CharsAreValues DEF SayVariables
<1> QED
  BY <1>1 DEF SaidValue, Forms

LEMMA SaidStep ==
  ASSUME IInv, NEW p \in Procs, Said(p)
  PROVE  IInv'
<1>1. pc[p] = "put" /\ UNCHANGED <<ttyp, tty, input, full, char, wanted, calm>>
  BY DEF Said, At
<1>2. local[p] \in SayVariables /\ ~ InGetch(p)
  BY <1>1, WhereItIs DEF IInv, InTerminalCall
<1>3. PICK v \in Int : v = SaidValue(local[p])
  BY <1>2, SaidInt
<1>4. Returns(p, v)
  BY <1>3 DEF Said, SaidValue
<1>5. full' \in [Procs -> BOOLEAN] /\ char' \in [Procs -> Chars]
  BY <1>1 DEF IInv, TypeOK
<1> QED
  BY <1>1, <1>2, <1>4, <1>5, CallReturns

-----------------------------------------------------------------------------
(* Steps of getch.                                                         *)

(* A step within getch: where it leaves the program, and the types.        *)
LEMMA GetchTyped ==
  ASSUME IInv, NEW p \in Procs, NEW place \in InTerminalCall, NEW l \in GetchVariables,
         Goes(p, place), Sets(p, l), place \in { "get", "set" } => ttyp,
         tty' \in Modes, calm' \in BOOLEAN, input' \in Seq(Bytes), ret' \in [Procs -> Int],
         UNCHANGED <<ttyp, full, char, wanted>>
  PROVE  /\ TypeOK' /\ CallsConsistent' /\ pc'[p] = place /\ local'[p] = l
         /\ \A q \in Procs \ {p} : pc'[q] = pc[q] /\ local'[q] = local[q]
<1>1. l \in CallVariables /\ l.op = "getch"
  BY CallTypes DEF GetchVariables
<1>2. Consistent(l, place, ttyp) /\ place \in CallPlaces
  BY <1>1 DEF Consistent, InTerminalCall, CallPlaces
<1>3. /\ pc' \in [Procs -> CallPlaces] /\ local' \in [Procs -> CallVariables]
      /\ pc'[p] = place /\ local'[p] = l
      /\ \A q \in Procs \ {p} : pc'[q] = pc[q] /\ local'[q] = local[q]
      /\ CallsConsistent'
  BY <1>1, <1>2, OneProgram DEF IInv
<1>4. TypeOK'
  BY <1>3 DEF IInv, TypeOK, CallPlaces
<1> QED
  BY <1>3, <1>4

(* What keeps the promise over a step of getch, to be shown of the program *)
(* that takes it: no other one is in getch.                                *)
LEMMA AloneWithin ==
  ASSUME IInv, NEW p \in Procs, NEW place \in InTerminalCall, NEW l \in GetchVariables,
         pc'[p] = place, local'[p] = l,
         \A q \in Procs \ {p} : pc'[q] = pc[q] /\ local'[q] = local[q],
         UNCHANGED <<ttyp, wanted>>,
         calm' /\ ttyp => /\ \A q \in Procs \ {p} : ~ InGetch(q)
                          /\ place \in Raw => tty' = [canon |-> FALSE, echo |-> l.echo]
                          /\ place \in Raw \cup {"set"} => l.prev = wanted
                          /\ place \notin Raw => tty' = wanted
  PROVE  GetchAlone'
<1>1. SUFFICES ASSUME calm', ttyp' PROVE GetchAlone'
  BY DEF GetchAlone
<1>2. \A q \in Procs \ {p} : local'[q].op # "getch" /\ pc'[q] \notin InTerminalCall
  <2>1. ASSUME NEW q \in Procs \ {p} PROVE local[q].op # "getch" /\ pc[q] \notin InTerminalCall
    <3>1. ~ InGetch(q)
      BY <1>1
    <3> QED
      BY <3>1, WhereItIs DEF IInv, InGetch
  <2> QED
    BY <2>1
<1>3. \A q, r \in Procs : InGetch(q)' /\ InGetch(r)' => q = r
  BY <1>2 DEF InGetch
<1>4. \A q \in Procs \ {p} : pc'[q] \notin Raw \cup {"set"}
  BY <1>2 DEF InTerminalCall, Raw
<1>5. \A q \in Procs : pc'[q] \in Raw => tty' = Curr(q)'
  <2>1. pc'[p] \in Raw => tty' = [canon |-> FALSE, echo |-> local'[p].echo]
    BY <1>1
  <2> QED
    BY <1>4, <2>1 DEF Curr
<1>6. \A q \in Procs : pc'[q] \in Raw \cup {"set"} => local'[q].prev = wanted'
  BY <1>1, <1>4
<1>7. (\A q \in Procs : pc'[q] \notin Raw) => tty' = wanted'
  BY <1>1
<1> QED
  BY <1>3, <1>5, <1>6, <1>7 DEF GetchAlone

(* What the promise says while one program is in getch.                    *)
LEMMA Undisturbed ==
  ASSUME IInv, NEW p \in Procs, InGetch(p), calm, ttyp
  PROVE  /\ \A q \in Procs \ {p} : ~ InGetch(q) /\ pc[q] \notin Raw
         /\ pc[p] \in Raw => tty = [canon |-> FALSE, echo |-> local[p].echo]
         /\ pc[p] \in Raw \cup {"set"} => local[p].prev = wanted
         /\ pc[p] \notin Raw => tty = wanted
<1>1. \A q \in Procs \ {p} : ~ InGetch(q)
  BY DEF IInv, GetchAlone
<1>2. \A q \in Procs \ {p} : pc[q] \notin Raw
  BY <1>1, WhereItIs DEF IInv, Raw, InTerminalCall
<1>3. pc[p] \in Raw => tty = [canon |-> FALSE, echo |-> local[p].echo]
  BY DEF IInv, GetchAlone, Curr
<1>4. pc[p] \in Raw \cup {"set"} => local[p].prev = wanted
  BY DEF IInv, GetchAlone
<1>5. pc[p] \notin Raw => tty = wanted
  BY <1>2 DEF IInv, GetchAlone
<1> QED
  BY <1>1, <1>2, <1>3, <1>4, <1>5

LEMMA GetchStep ==
  ASSUME IInv, NEW p \in Procs, NEW echo \in BOOLEAN, Getch(p, echo)
  PROVE  IInv'
<1>1. PICK l, place : l = Getting(echo) /\ place = IF ttyp THEN "get" ELSE "read"
  OBVIOUS
<1>2. /\ pc[p] = "idle" /\ Goes(p, place) /\ Sets(p, l) /\ ret' = [ret EXCEPT ![p] = NoAnswer]
      /\ calm' = (calm /\ ~ \E q \in Procs : InGetch(q))
      /\ UNCHANGED <<ttyp, tty, input, full, char, wanted>>
  BY <1>1 DEF Getch, Starts, At
<1>3. l \in GetchVariables /\ place \in InTerminalCall /\ (place \in { "get", "set" } => ttyp)
  BY <1>1, CallsStarted DEF InTerminalCall
<1>4. tty' \in Modes /\ calm' \in BOOLEAN /\ input' \in Seq(Bytes) /\ ret' \in [Procs -> Int]
  BY <1>2, IntConstants DEF IInv, TypeOK
<1>5. /\ TypeOK' /\ CallsConsistent' /\ pc'[p] = place /\ local'[p] = l
      /\ \A q \in Procs \ {p} : pc'[q] = pc[q] /\ local'[q] = local[q]
  BY <1>2, <1>3, <1>4, GetchTyped
<1>6. ASSUME calm', ttyp
      PROVE  (\A q \in Procs \ {p} : ~ InGetch(q)) /\ place = "get" /\ tty' = wanted
  <2>1. calm /\ \A q \in Procs : ~ InGetch(q)
    BY <1>2, <1>6
  <2>2. \A q \in Procs : pc[q] \notin Raw
    BY <2>1, WhereItIs DEF IInv, Raw, InTerminalCall
  <2>3. tty = wanted
    BY <1>6, <2>1, <2>2 DEF IInv, GetchAlone
  <2> QED
    BY <1>1, <1>2, <1>6, <2>1, <2>3
<1>7. "get" \notin Raw \cup {"set"}
  BY DEF Raw
<1>8. GetchAlone'
  BY <1>2, <1>3, <1>5, <1>6, <1>7, AloneWithin
<1> QED
  BY <1>5, <1>8 DEF IInv

LEMMA GetAttrStep ==
  ASSUME IInv, NEW p \in Procs, GetAttr(p) \/ GetAttrFails(p)
  PROVE  IInv'
<1>1. PICK mode \in Modes : /\ Sets(p, [local[p] EXCEPT !.prev = mode])
                            /\ calm' => calm /\ mode = tty
                            /\ calm' \in BOOLEAN
  <2>1. tty \in Modes /\ calm \in BOOLEAN
    BY DEF IInv, TypeOK
  <2>2. CASE GetAttr(p)
    <3>1. Sets(p, [local[p] EXCEPT !.prev = tty]) /\ calm' = calm
      BY <2>2 DEF GetAttr
    <3> QED
      BY <2>1, <3>1
  <2>3. CASE GetAttrFails(p)
    <3>1. calm' = FALSE /\ \E junk \in Modes : Sets(p, [local[p] EXCEPT !.prev = junk])
      BY <2>3 DEF GetAttrFails
    <3> QED
      BY <3>1
  <2> QED
    BY <2>2, <2>3
<1>2. pc[p] = "get" /\ Goes(p, "set") /\ UNCHANGED <<ttyp, tty, input, full, char, ret, wanted>>
  BY DEF GetAttr, GetAttrFails, At
<1>3. local[p] \in GetchVariables /\ InGetch(p) /\ ttyp
  BY <1>2, WhereItIs DEF IInv, InTerminalCall
<1>4. PICK l \in GetchVariables : /\ l = [local[p] EXCEPT !.prev = mode]
                                  /\ l.prev = mode /\ Sets(p, l)
  <2>1. PICK l : l = [local[p] EXCEPT !.prev = mode]
    OBVIOUS
  <2>2. l \in GetchVariables /\ l.prev = mode
    BY <1>3, <2>1 DEF GetchVariables
  <2> QED
    BY <1>1, <2>1, <2>2
<1>5. "set" \in InTerminalCall /\ "set" \notin Raw
  BY DEF InTerminalCall, Raw
<1>6. tty' \in Modes /\ calm' \in BOOLEAN /\ input' \in Seq(Bytes) /\ ret' \in [Procs -> Int]
  BY <1>1, <1>2 DEF IInv, TypeOK
<1>7. /\ TypeOK' /\ CallsConsistent' /\ pc'[p] = "set" /\ local'[p] = l
      /\ \A q \in Procs \ {p} : pc'[q] = pc[q] /\ local'[q] = local[q]
  BY <1>2, <1>3, <1>4, <1>5, <1>6, GetchTyped
<1>8. ASSUME calm', ttyp
      PROVE  (\A q \in Procs \ {p} : ~ InGetch(q)) /\ l.prev = wanted /\ tty' = wanted
  <2>1. calm /\ mode = tty /\ pc[p] \notin Raw
    BY <1>1, <1>2, <1>8 DEF Raw
  <2>2. (\A q \in Procs \ {p} : ~ InGetch(q)) /\ tty = wanted
    BY <1>3, <2>1, Undisturbed
  <2> QED
    BY <1>2, <1>4, <2>1, <2>2
<1>9. GetchAlone'
  BY <1>2, <1>5, <1>7, <1>8, AloneWithin
<1> QED
  BY <1>7, <1>9 DEF IInv

LEMMA SetAttrStep ==
  ASSUME IInv, NEW p \in Procs, SetAttr(p) \/ SetAttrFails(p)
  PROVE  IInv'
<1>1. /\ pc[p] = "set" /\ Goes(p, "read")
      /\ UNCHANGED <<ttyp, input, full, char, local, ret, wanted>>
  BY DEF SetAttr, SetAttrFails, At
<1>2. PICK l : l = local[p]
  OBVIOUS
<1>3. l \in GetchVariables /\ InGetch(p) /\ ttyp
  BY <1>1, <1>2, WhereItIs DEF IInv, InTerminalCall
<1>4. Curr(p) = [canon |-> FALSE, echo |-> l.echo] /\ Curr(p) \in Modes
  BY <1>2, <1>3 DEF Curr, Modes, GetchVariables
<1>5. /\ tty' \in Modes /\ calm' \in BOOLEAN
      /\ calm' => calm /\ tty' = [canon |-> FALSE, echo |-> l.echo]
  <2>1. CASE SetAttr(p)
    <3>1. tty' = Curr(p) /\ calm' = calm
      BY <2>1 DEF SetAttr
    <3> QED
      BY <1>4, <3>1 DEF IInv, TypeOK
  <2>2. CASE SetAttrFails(p)
    <3>1. tty' = tty /\ calm' = FALSE
      BY <2>2 DEF SetAttrFails
    <3> QED
      BY <3>1 DEF IInv, TypeOK
  <2> QED
    BY <2>1, <2>2
<1>6. Sets(p, l)
  <2>1. local \in [Procs -> CallVariables]
    BY DEF IInv, TypeOK
  <2> QED
    BY <1>1, <1>2, <2>1 DEF Sets
<1>7. "read" \in InTerminalCall /\ "read" \notin { "get", "set" }
  BY DEF InTerminalCall
<1>8. input' \in Seq(Bytes) /\ ret' \in [Procs -> Int]
  BY <1>1 DEF IInv, TypeOK
<1>9. /\ TypeOK' /\ CallsConsistent' /\ pc'[p] = "read" /\ local'[p] = l
      /\ \A q \in Procs \ {p} : pc'[q] = pc[q] /\ local'[q] = local[q]
  BY <1>1, <1>3, <1>5, <1>6, <1>7, <1>8, GetchTyped
<1>10. ASSUME calm', ttyp
       PROVE  /\ \A q \in Procs \ {p} : ~ InGetch(q)
              /\ l.prev = wanted /\ tty' = [canon |-> FALSE, echo |-> l.echo]
  BY <1>1, <1>2, <1>3, <1>5, <1>10, Undisturbed
<1>11. "read" \in Raw
  BY DEF Raw
<1>12. GetchAlone'
  BY <1>1, <1>3, <1>7, <1>9, <1>10, <1>11, AloneWithin
<1> QED
  BY <1>9, <1>12 DEF IInv

(* The terminal's input is left without its first byte, or as it is.       *)
LEMMA TailOfInput ==
  ASSUME TypeOK, input # <<>>
  PROVE  Tail(input) \in Seq(Bytes) /\ Head(input) \in 0..Word-1 /\ Head(input) \in Int
<1>1. input \in Seq(Bytes)
  BY DEF TypeOK
<1>2. Tail(input) \in Seq(Bytes) /\ Head(input) \in Bytes
  BY <1>1
<1>3. \A b \in Bytes : b \in 0..Word-1 /\ b \in Int
  BY InputAssumption, WordAssumption
<1> QED
  BY <1>2, <1>3

LEMMA ReadStep ==
  ASSUME IInv, NEW p \in Procs, Read(p) \/ ReadFails(p)
  PROVE  IInv'
<1>1. /\ pc[p] = "read" /\ Goes(p, "restore")
      /\ UNCHANGED <<ttyp, tty, full, char, ret, wanted, calm>>
  BY DEF Read, ReadFails, At
<1>2. local[p] \in GetchVariables /\ InGetch(p)
  BY <1>1, WhereItIs DEF IInv, InTerminalCall
<1>3. PICK got \in 0..Word : Sets(p, [local[p] EXCEPT !.got = got]) /\ input' \in Seq(Bytes)
  <2>1. CASE Read(p)
    <3>1. /\ input # <<>> /\ input' = Tail(input)
          /\ Sets(p, [local[p] EXCEPT !.got = Head(input)])
      BY <2>1 DEF Read, Readable
    <3>2. PICK got \in 0..Word-1 : got = Head(input)
      BY <3>1, TailOfInput DEF IInv
    <3>3. got \in 0..Word
      BY <3>2, WordAssumption
    <3> QED
      BY <3>1, <3>2, <3>3, TailOfInput DEF IInv
  <2>2. CASE ReadFails(p)
    <3>1. Sets(p, [local[p] EXCEPT !.got = Ended]) /\ input' = input
      BY <2>2 DEF ReadFails
    <3>2. Ended \in 0..Word
      BY WordAssumption DEF Ended
    <3> QED
      BY <3>1, <3>2 DEF IInv, TypeOK
  <2> QED
    BY <2>1, <2>2
<1>4. PICK l \in GetchVariables : Sets(p, l) /\ l.prev = local[p].prev /\ l.echo = local[p].echo
  <2>1. PICK l : l = [local[p] EXCEPT !.got = got]
    OBVIOUS
  <2>2. l \in GetchVariables /\ l.prev = local[p].prev /\ l.echo = local[p].echo
    BY <1>2, <2>1 DEF GetchVariables
  <2> QED
    BY <1>3, <2>1, <2>2
<1>5. /\ "restore" \in InTerminalCall /\ "restore" \notin { "get", "set" }
      /\ {"restore", "read"} \subseteq Raw
  BY DEF InTerminalCall, Raw
<1>6. tty' \in Modes /\ calm' \in BOOLEAN /\ input' \in Seq(Bytes) /\ ret' \in [Procs -> Int]
  BY <1>1, <1>3 DEF IInv, TypeOK
<1>7. /\ TypeOK' /\ CallsConsistent' /\ pc'[p] = "restore" /\ local'[p] = l
      /\ \A q \in Procs \ {p} : pc'[q] = pc[q] /\ local'[q] = local[q]
  BY <1>1, <1>4, <1>5, <1>6, GetchTyped
<1>8. ASSUME calm', ttyp
      PROVE  /\ \A q \in Procs \ {p} : ~ InGetch(q)
             /\ l.prev = wanted /\ tty' = [canon |-> FALSE, echo |-> l.echo]
  <2>1. calm /\ pc[p] \in Raw
    BY <1>1, <1>5, <1>8
  <2> QED
    BY <1>1, <1>2, <1>4, <1>8, <2>1, Undisturbed
<1>9. GetchAlone'
  BY <1>1, <1>5, <1>7, <1>8, AloneWithin
<1> QED
  BY <1>7, <1>9 DEF IInv

(* A program that has left getch, or was killed, with the mode given back. *)
LEMMA AloneAfter ==
  ASSUME IInv, NEW p \in Procs, pc'[p] = "idle", local'[p] = None,
         \A q \in Procs \ {p} : pc'[q] = pc[q] /\ local'[q] = local[q],
         UNCHANGED <<ttyp, wanted>>,
         calm' /\ ttyp => \/ (\A q \in Procs \ {p} : ~ InGetch(q)) /\ tty' = wanted
                          \/ calm /\ pc[p] \notin Raw /\ tty' = tty
  PROVE  GetchAlone'
<1>1. SUFFICES ASSUME calm', ttyp' PROVE GetchAlone'
  BY DEF GetchAlone
<1>2. local'[p].op # "getch" /\ "idle" \notin Raw \cup {"set"}
  BY CallTypes, CallsStarted DEF Raw
<1>3. CASE (\A q \in Procs \ {p} : ~ InGetch(q)) /\ tty' = wanted
  <2>1. \A q \in Procs \ {p} : local'[q].op # "getch" /\ pc'[q] \notin InTerminalCall
    <3>1. \A q \in Procs \ {p} : local[q].op # "getch" /\ pc[q] \notin InTerminalCall
      BY <1>3, WhereItIs DEF IInv, InGetch
    <3> QED
      BY <3>1
  <2>2. \A q \in Procs : ~ InGetch(q)'
    BY <1>2, <2>1 DEF InGetch
  <2>3. \A q \in Procs : pc'[q] \notin Raw \cup {"set"}
    BY <1>2, <2>1 DEF Raw, InTerminalCall
  <2> QED
    BY <1>3, <2>2, <2>3 DEF GetchAlone
<1>4. CASE calm /\ pc[p] \notin Raw /\ tty' = tty
  <2>1. /\ \A q, r \in Procs : InGetch(q) /\ InGetch(r) => q = r
        /\ \A q \in Procs : pc[q] \in Raw => tty = Curr(q)
        /\ \A q \in Procs : pc[q] \in Raw \cup {"set"} => local[q].prev = wanted
        /\ (\A q \in Procs : pc[q] \notin Raw) => tty = wanted
    BY <1>1, <1>4 DEF IInv, GetchAlone
  <2>2. \A q \in Procs : local'[q].op = "getch" => InGetch(q)
    BY <1>2 DEF InGetch
  <2>3. \A q, r \in Procs : InGetch(q)' /\ InGetch(r)' => q = r
    BY <2>1, <2>2 DEF InGetch
  <2>4. \A q \in Procs : pc'[q] \in Raw => tty' = Curr(q)'
    BY <1>2, <1>4, <2>1 DEF Curr
  <2>5. \A q \in Procs : pc'[q] \in Raw \cup {"set"} => local'[q].prev = wanted'
    BY <1>2, <2>1
  <2>6. (\A q \in Procs : pc'[q] \notin Raw) => tty' = wanted'
    BY <1>4, <2>1
  <2> QED
    BY <2>3, <2>4, <2>5, <2>6 DEF GetchAlone
<1> QED
  BY <1>1, <1>3, <1>4

(* A program's call is over, or the program is killed.                     *)
LEMMA LeavesTyped ==
  ASSUME IInv, NEW p \in Procs, Goes(p, "idle"), Sets(p, None),
         tty' \in Modes, calm' \in BOOLEAN, ret' \in [Procs -> Int],
         full' \in [Procs -> BOOLEAN], char' \in [Procs -> Chars],
         UNCHANGED <<ttyp, input, wanted>>
  PROVE  /\ TypeOK' /\ CallsConsistent' /\ pc'[p] = "idle" /\ local'[p] = None
         /\ \A q \in Procs \ {p} : pc'[q] = pc[q] /\ local'[q] = local[q]
<1>1. "idle" \in CallPlaces /\ None \in CallVariables /\ Consistent(None, "idle", ttyp)
  BY CallsStarted DEF CallPlaces
<1>2. /\ pc' \in [Procs -> CallPlaces] /\ local' \in [Procs -> CallVariables]
      /\ pc'[p] = "idle" /\ local'[p] = None
      /\ \A q \in Procs \ {p} : pc'[q] = pc[q] /\ local'[q] = local[q]
      /\ CallsConsistent'
  BY <1>1, OneProgram DEF IInv
<1>3. TypeOK'
  BY <1>2 DEF IInv, TypeOK, CallPlaces
<1> QED
  BY <1>2, <1>3

LEMMA ResultInt ==
  ASSUME IInv, NEW p \in Procs, local[p] \in GetchVariables
  PROVE  Result(p) \in Int
<1>1. local[p].got \in Int
  BY WordAssumption DEF GetchVariables
<1>2. Signed(local[p].got) \in Int
  BY <1>1, SignedByte, IntConstants
<1> QED
  BY <1>2, IntConstants DEF Result

LEMMA RestoreStep ==
  ASSUME IInv, NEW p \in Procs, Restore(p) \/ RestoreFails(p)
  PROVE  IInv'
<1>1. /\ pc[p] = "restore" /\ Returns(p, Result(p))
      /\ UNCHANGED <<ttyp, input, full, char, wanted>>
  BY DEF Restore, RestoreFails, At
<1>2. local[p] \in GetchVariables /\ InGetch(p)
  BY <1>1, WhereItIs DEF IInv, InTerminalCall
<1>3. /\ tty' \in Modes /\ calm' \in BOOLEAN
      /\ calm' => calm /\ (ttyp => tty' = local[p].prev)
  <2>1. tty \in Modes /\ calm \in BOOLEAN /\ local[p].prev \in Modes
    BY <1>2 DEF IInv, TypeOK, GetchVariables
  <2>2. CASE Restore(p)
    <3>1. tty' = (IF ttyp THEN local[p].prev ELSE tty) /\ calm' = calm
      BY <2>2 DEF Restore, Restored
    <3> QED
      BY <2>1, <3>1
  <2>3. CASE RestoreFails(p)
    <3>1. tty' = tty /\ calm' = FALSE
      BY <2>3 DEF RestoreFails
    <3> QED
      BY <2>1, <3>1
  <2> QED
    BY <2>2, <2>3
<1>4. PICK v \in Int : Returns(p, v)
  BY <1>1, <1>2, ResultInt
<1>5. Goes(p, "idle") /\ Sets(p, None) /\ ret' \in [Procs -> Int]
  BY <1>4, ReturnsType
<1>6. full' \in [Procs -> BOOLEAN] /\ char' \in [Procs -> Chars]
  BY <1>1 DEF IInv, TypeOK
<1>7. /\ TypeOK' /\ CallsConsistent' /\ pc'[p] = "idle" /\ local'[p] = None
      /\ \A q \in Procs \ {p} : pc'[q] = pc[q] /\ local'[q] = local[q]
  BY <1>1, <1>3, <1>5, <1>6, LeavesTyped
<1>8. ASSUME calm', ttyp PROVE (\A q \in Procs \ {p} : ~ InGetch(q)) /\ tty' = wanted
  <2>1. calm /\ tty' = local[p].prev /\ pc[p] \in Raw
    BY <1>1, <1>3, <1>8 DEF Raw
  <2> QED
    BY <1>2, <1>8, <2>1, Undisturbed
<1>9. GetchAlone'
  BY <1>1, <1>7, <1>8, AloneAfter
<1> QED
  BY <1>7, <1>9 DEF IInv

LEMMA RestartStep ==
  ASSUME IInv, NEW p \in Procs, Restart(p)
  PROVE  IInv'
<1>1. /\ Goes(p, "idle") /\ Sets(p, None) /\ ret' = [ret EXCEPT ![p] = NoAnswer]
      /\ full' = [full EXCEPT ![p] = FALSE] /\ char' = [char EXCEPT ![p] = 0]
      /\ calm' = (calm /\ ~ (ttyp /\ pc[p] \in { "read", "restore" }))
      /\ UNCHANGED <<ttyp, tty, input, wanted>>
  BY DEF Restart, Sets
<1>2. 0 \in Chars
  <2>1. PICK h \in Nat : Word = 2 * h /\ Word \div 2 = h /\ h > 0
    BY WordAssumption
  <2> QED
    BY <2>1 DEF Chars
<1>3. /\ tty' \in Modes /\ calm' \in BOOLEAN /\ ret' \in [Procs -> Int]
      /\ full' \in [Procs -> BOOLEAN] /\ char' \in [Procs -> Chars]
  BY <1>1, <1>2, IntConstants DEF IInv, TypeOK
<1>4. /\ TypeOK' /\ CallsConsistent' /\ pc'[p] = "idle" /\ local'[p] = None
      /\ \A q \in Procs \ {p} : pc'[q] = pc[q] /\ local'[q] = local[q]
  BY <1>1, <1>3, LeavesTyped
<1>5. calm' /\ ttyp => calm /\ pc[p] \notin Raw /\ tty' = tty
  BY <1>1 DEF Raw
<1>6. GetchAlone'
  BY <1>1, <1>4, <1>5, AloneAfter
<1> QED
  BY <1>4, <1>6 DEF IInv

-----------------------------------------------------------------------------
(* Steps of the surroundings.                                              *)

LEMMA TypeStep ==
  ASSUME IInv, NEW b \in Bytes, Type(b)
  PROVE  IInv'
<1>1. /\ input' = Append(input, b)
      /\ UNCHANGED <<ttyp, tty, full, char, pc, local, ret, wanted, calm>>
  BY DEF Type
<1>2. input' \in Seq(Bytes)
  BY <1>1 DEF IInv, TypeOK
<1>3. TypeOK'
  BY <1>1, <1>2 DEF IInv, TypeOK
<1>4. CallsConsistent' /\ GetchAlone'
  BY <1>1 DEF IInv, CallsConsistent, GetchAlone, InGetch, Curr
<1> QED
  BY <1>3, <1>4 DEF IInv

LEMMA SetModeStep ==
  ASSUME IInv, NEW mode \in UserModes, SetMode(mode)
  PROVE  IInv'
<1>1. /\ tty' = mode /\ wanted' = mode /\ calm' = (~ \E p \in Procs : InGetch(p))
      /\ UNCHANGED <<ttyp, input, full, char, pc, local, ret>>
  BY DEF SetMode
<1>2. mode \in Modes /\ calm' \in BOOLEAN
  BY <1>1, ModesAssumption
<1>3. TypeOK'
  BY <1>1, <1>2 DEF IInv, TypeOK
<1>4. CallsConsistent'
  BY <1>1 DEF IInv, CallsConsistent
<1>5. GetchAlone'
  <2>1. SUFFICES ASSUME calm' PROVE GetchAlone'
    BY DEF GetchAlone
  <2>2. \A p \in Procs : ~ InGetch(p)
    BY <1>1, <2>1
  <2>3. \A p \in Procs : pc[p] \notin Raw \cup {"set"}
    BY <2>2, WhereItIs DEF IInv, Raw, InTerminalCall
  <2>4. \A p \in Procs : ~ InGetch(p)' /\ pc'[p] \notin Raw \cup {"set"}
    BY <1>1, <2>2, <2>3 DEF InGetch
  <2> QED
    BY <1>1, <2>4 DEF GetchAlone
<1> QED
  BY <1>3, <1>4, <1>5 DEF IInv

LEMMA QuietStep ==
  ASSUME IInv, UNCHANGED vars
  PROVE  IInv'
<1>1. UNCHANGED <<ttyp, tty, input, full, char, pc, local, ret, wanted, calm>>
  BY DEF vars
<1>2. TypeOK'
  BY <1>1 DEF IInv, TypeOK
<1>3. CallsConsistent' /\ GetchAlone'
  BY <1>1 DEF IInv, CallsConsistent, GetchAlone, InGetch, Curr
<1> QED
  BY <1>2, <1>3 DEF IInv

LEMMA NextIInv == IInv /\ [Next]_vars => IInv'
<1> SUFFICES ASSUME IInv, [Next]_vars PROVE IInv'
  OBVIOUS
<1>1. CASE UNCHANGED vars
  BY <1>1, QuietStep
<1>2. ASSUME NEW p \in Procs, GetPushed(p) PROVE IInv'
  BY <1>2, GetPushedStep
<1>3. ASSUME NEW p \in Procs, NEW echo \in BOOLEAN, Getch(p, echo) PROVE IInv'
  BY <1>3, GetchStep
<1>4. ASSUME NEW p \in Procs, GetAttr(p) \/ GetAttrFails(p) PROVE IInv'
  BY <1>4, GetAttrStep
<1>5. ASSUME NEW p \in Procs, SetAttr(p) \/ SetAttrFails(p) PROVE IInv'
  BY <1>5, SetAttrStep
<1>6. ASSUME NEW p \in Procs, Read(p) \/ ReadFails(p) PROVE IInv'
  BY <1>6, ReadStep
<1>7. ASSUME NEW p \in Procs, Restore(p) \/ RestoreFails(p) PROVE IInv'
  BY <1>7, RestoreStep
<1>8. ASSUME NEW p \in Procs, NEW v \in Ints, Ungetch(p, v) PROVE IInv'
  BY <1>8, UngetchStep
<1>9. ASSUME NEW p \in Procs, NEW v \in Ints, Say(p, "putch", <<v>>) PROVE IInv'
  <2>1. PICK form, text : form = "putch" /\ text = <<v>>
    OBVIOUS
  <2>2. form \in Forms /\ text \in Seq(-Word..Word-1) /\ Len(text) = 1
    BY <2>1, TextGiven DEF Forms
  <2> QED
    BY <1>9, <2>1, <2>2, SayStep
<1>10. ASSUME NEW p \in Procs, NEW form \in { "cputs", "cprintf" }, NEW text \in Texts,
              Say(p, form, text)
       PROVE  IInv'
  <2>1. form \in Forms /\ form # "putch" /\ text \in Seq(-Word..Word-1)
    BY TextGiven DEF Forms
  <2> QED
    BY <1>10, <2>1, SayStep
<1>11. ASSUME NEW p \in Procs, CprintfFails(p) PROVE IInv'
  BY <1>11, CprintfFailsStep
<1>12. ASSUME NEW p \in Procs, Write(p) \/ WriteFails(p) PROVE IInv'
  BY <1>12, WriteStep
<1>13. ASSUME NEW p \in Procs, Said(p) PROVE IInv'
  BY <1>13, SaidStep
<1>14. ASSUME NEW p \in Procs, Restart(p) PROVE IInv'
  BY <1>14, RestartStep
<1>15. ASSUME NEW b \in Bytes, Type(b) PROVE IInv'
  BY <1>15, TypeStep
<1>16. ASSUME NEW mode \in UserModes, SetMode(mode) PROVE IInv'
  BY <1>16, SetModeStep
<1> QED
  BY <1>1, <1>2, <1>3, <1>4, <1>5, <1>6, <1>7, <1>8, <1>9, <1>10, <1>11, <1>12, <1>13, <1>14,
     <1>15, <1>16 DEF Next

-----------------------------------------------------------------------------
(* The theorems.                                                           *)

(* The inductive invariant holds of the console functions.                 *)
THEOREM Invariant == Spec => []IInv
  BY InitIInv, NextIInv, PTL DEF Spec

(* Every step leaves the programs, the terminal and the input in states of *)
(* the declared types.                                                     *)
THEOREM TypeCorrect == Spec => []TypeOK
<1>1. IInv => TypeOK
  BY DEF IInv
<1> QED
  BY <1>1, Invariant, PTL

(* However many programs share the terminal: while no two calls of getch   *)
(* overlap and nothing fails or is killed in one, getch reads in the mode  *)
(* it asked for, and outside of it the mode is the one set by a program.   *)
THEOREM ModeIsGivenBack == Spec => []ModeAsPromised
<1>1. IInv => ModeAsPromised
  BY DEF IInv, GetchAlone, ModeAsPromised, At, Raw
<1> QED
  BY <1>1, Invariant, PTL

-----------------------------------------------------------------------------
(* Refinement: the state of ConsoleSpec that a state of Console stands for.*)

Pushed == [p \in Procs |-> PushedBack(full[p], char[p])]
Calls == [p \in Procs |-> CallOf(local[p], pc[p])]

Text(l) == [i \in DOMAIN l.text |-> Byte(l.text[i])]

LEMMA AbstractCalls ==
  /\ \A place : CallOf(None, place) = Promise!NoCall
  /\ \A l \in GetchVariables : \A place :
       CallOf(l, place) = Promise!Reading(IF place = "restore" THEN <<l.got>> ELSE <<>>)
  /\ \A l \in SayVariables : \A place :
       CallOf(l, place) = Promise!Writing(l.op, Text(l), l.sent)
<1>1. None.op = "none"
  BY DEF None
<1>2. ASSUME NEW place PROVE CallOf(None, place) = Promise!NoCall
  BY <1>1 DEF CallOf, Promise!NoCall, None
<1>3. ASSUME NEW l \in GetchVariables, NEW place
      PROVE  CallOf(l, place) =
               Promise!Reading(IF place = "restore" THEN <<l.got>> ELSE <<>>)
  <2>1. l.op = "getch"
    BY DEF GetchVariables
  <2> QED
    BY <2>1 DEF CallOf, Promise!Reading
<1>4. ASSUME NEW l \in SayVariables, NEW place
      PROVE  CallOf(l, place) = Promise!Writing(l.op, Text(l), l.sent)
  <2>1. l.op \in Forms
    BY DEF SayVariables
  <2>2. l.op # "none" /\ l.op # "getch"
    BY <2>1 DEF Forms
  <2> QED
    BY <2>2 DEF CallOf, Promise!Writing, Text
<1> QED
  BY <1>2, <1>3, <1>4

LEMMA CallsStep ==
  ASSUME TypeOK, NEW p \in Procs, NEW place, NEW l, Goes(p, place), Sets(p, l)
  PROVE  /\ Calls' = [Calls EXCEPT ![p] = CallOf(l, place)]
         /\ CallOf(l, place) = Calls[p] => Calls' = Calls
<1>1. DOMAIN pc = Procs /\ DOMAIN local = Procs
  BY DEF TypeOK
<1>2. pc' = [pc EXCEPT ![p] = place] /\ local' = [local EXCEPT ![p] = l]
  BY DEF Goes, Sets
<1>3. Calls' = [q \in Procs |-> CallOf(local'[q], pc'[q])]
  BY DEF Calls
<1>4. PICK c : c = [q \in Procs |-> CallOf(local'[q], pc'[q])]
  OBVIOUS
<1>5. PICK d : d = [Calls EXCEPT ![p] = CallOf(l, place)]
  OBVIOUS
<1>6. \A q \in Procs : c[q] = d[q]
  <2>1. SUFFICES ASSUME NEW q \in Procs PROVE c[q] = d[q]
    OBVIOUS
  <2>2. CASE q = p
    <3>1. local'[q] = l /\ pc'[q] = place
      BY <1>1, <1>2, <2>2
    <3>2. c[q] = CallOf(l, place)
      BY <1>4, <3>1
    <3>3. d[q] = CallOf(l, place)
      BY <1>5, <2>2 DEF Calls
    <3> QED
      BY <3>2, <3>3
  <2>3. CASE q # p
    <3>1. local'[q] = local[q] /\ pc'[q] = pc[q]
      BY <1>1, <1>2, <2>3
    <3>2. c[q] = CallOf(local[q], pc[q])
      BY <1>4, <3>1
    <3>3. d[q] = CallOf(local[q], pc[q])
      BY <1>5, <2>3 DEF Calls
    <3> QED
      BY <3>2, <3>3
  <2> QED
    BY <2>2, <2>3
<1>7. c = d
  <2>1. c = [q \in Procs |-> c[q]] /\ d = [q \in Procs |-> d[q]]
    BY <1>4, <1>5 DEF Calls
  <2> QED
    BY <1>6, <2>1
<1>8. Calls' = d
  BY <1>3, <1>4, <1>7
<1>9. CallOf(l, place) = Calls[p] => d = Calls
  BY <1>5 DEF Calls
<1> QED
  BY <1>5, <1>8, <1>9

LEMMA PushedStep ==
  ASSUME NEW p \in Procs, NEW back, PushedBack(full'[p], char'[p]) = back,
         \A q \in Procs \ {p} : full'[q] = full[q] /\ char'[q] = char[q]
  PROVE  Pushed' = [Pushed EXCEPT ![p] = back]
<1>1. Pushed' = [q \in Procs |-> PushedBack(full'[q], char'[q])]
  BY DEF Pushed
<1>2. PICK a : a = [q \in Procs |-> PushedBack(full'[q], char'[q])]
  OBVIOUS
<1>3. PICK d : d = [Pushed EXCEPT ![p] = back]
  OBVIOUS
<1>4. \A q \in Procs : a[q] = d[q]
  <2>1. SUFFICES ASSUME NEW q \in Procs PROVE a[q] = d[q]
    OBVIOUS
  <2>2. CASE q = p
    <3>1. a[q] = back
      BY <1>2, <2>2
    <3>2. d[q] = back
      BY <1>3, <2>2 DEF Pushed
    <3> QED
      BY <3>1, <3>2
  <2>3. CASE q # p
    <3>1. full'[q] = full[q] /\ char'[q] = char[q]
      BY <2>3
    <3>2. a[q] = PushedBack(full[q], char[q])
      BY <1>2, <3>1
    <3>3. d[q] = PushedBack(full[q], char[q])
      BY <1>3, <2>3 DEF Pushed
    <3> QED
      BY <3>2, <3>3
  <2> QED
    BY <2>2, <2>3
<1>5. a = d
  <2>1. a = [q \in Procs |-> a[q]]
    BY <1>2
  <2>2. d = [q \in Procs |-> d[q]]
    BY <1>3 DEF Pushed
  <2> QED
    BY <1>4, <2>1, <2>2
<1> QED
  BY <1>1, <1>2, <1>3, <1>5

LEMMA PushedSame ==
  ASSUME UNCHANGED <<full, char>>
  PROVE  Pushed' = Pushed
  BY DEF Pushed

LEMMA CallsSame ==
  ASSUME UNCHANGED <<local, pc>>
  PROVE  Calls' = Calls
  BY DEF Calls

(* The call a program is in, and the byte it has pushed back.              *)
LEMMA AbstractState ==
  ASSUME IInv, NEW p \in Procs
  PROVE  /\ Calls[p] = CallOf(local[p], pc[p])
         /\ pc[p] = "idle" => Calls[p] = Promise!NoCall
         /\ pc[p] \in { "get", "set", "read" } => Calls[p] = Promise!Reading(<<>>)
         /\ pc[p] = "restore" => Calls[p] = Promise!Reading(<<local[p].got>>)
         /\ pc[p] = "put" =>
              Calls[p] = Promise!Writing(local[p].op, Text(local[p]), local[p].sent)
         /\ full[p] => Pushed[p] = <<Byte(char[p])>> /\ Pushed[p] # <<>>
         /\ ~ full[p] => Pushed[p] = <<>>
<1>1. Calls[p] = CallOf(local[p], pc[p]) /\ Pushed[p] = PushedBack(full[p], char[p])
  BY DEF Calls, Pushed
<1>2. pc[p] = "idle" => Calls[p] = Promise!NoCall
  BY <1>1, WhereItIs, AbstractCalls DEF IInv
<1>3. ASSUME pc[p] \in InTerminalCall
      PROVE  Calls[p] = Promise!Reading(IF pc[p] = "restore" THEN <<local[p].got>> ELSE <<>>)
  <2>1. local[p] \in GetchVariables
    BY <1>3, WhereItIs DEF IInv
  <2> QED
    BY <1>1, <2>1, AbstractCalls
<1>4. pc[p] = "put" =>
        Calls[p] = Promise!Writing(local[p].op, Text(local[p]), local[p].sent)
  BY <1>1, WhereItIs, AbstractCalls DEF IInv
<1>5. pc[p] \in { "get", "set", "read" } => Calls[p] = Promise!Reading(<<>>)
  <2>1. ASSUME pc[p] \in { "get", "set", "read" } PROVE Calls[p] = Promise!Reading(<<>>)
    <3>1. pc[p] \in InTerminalCall /\ pc[p] # "restore"
      BY <2>1 DEF InTerminalCall
    <3>2. Calls[p] = Promise!Reading(IF pc[p] = "restore" THEN <<local[p].got>> ELSE <<>>)
      BY <1>3, <3>1
    <3> QED
      BY <3>1, <3>2
  <2> QED
    BY <2>1
<1>6. pc[p] = "restore" => Calls[p] = Promise!Reading(<<local[p].got>>)
  <2>1. ASSUME pc[p] = "restore" PROVE Calls[p] = Promise!Reading(<<local[p].got>>)
    <3>1. pc[p] \in InTerminalCall
      BY <2>1 DEF InTerminalCall
    <3>2. Calls[p] = Promise!Reading(IF pc[p] = "restore" THEN <<local[p].got>> ELSE <<>>)
      BY <1>3, <3>1
    <3> QED
      BY <2>1, <3>2
  <2> QED
    BY <2>1
<1>7. /\ full[p] => Pushed[p] = <<Byte(char[p])>> /\ Pushed[p] # <<>>
      /\ ~ full[p] => Pushed[p] = <<>>
  BY <1>1 DEF PushedBack
<1> QED
  BY <1>1, <1>2, <1>4, <1>5, <1>6, <1>7

LEMMA AnswersOf ==
  ASSUME NEW v \in -Word..Word-1
  PROVE  v \in Promise!AnswersFor(Byte(v))
  BY CharsAreValues DEF Promise!AnswersFor, Promise!Values, Byte

LEMMA InitAbstract == Init => Promise!Init
<1> SUFFICES ASSUME Init PROVE Promise!Init
  OBVIOUS
<1>1. Pushed = [p \in Procs |-> <<>>]
  BY DEF Pushed, Init, PushedBack
<1>2. Calls = [p \in Procs |-> Promise!NoCall]
  <2>1. \A p \in Procs : local[p] = None
    BY DEF Init
  <2>2. \A p \in Procs : CallOf(local[p], pc[p]) = Promise!NoCall
    BY <2>1, AbstractCalls
  <2> QED
    BY <2>2 DEF Calls
<1>3. input = <<>> /\ ret = [p \in Procs |-> Promise!NoAnswer]
  BY DEF Init, NoAnswer, Promise!NoAnswer
<1> QED
  BY <1>1, <1>2, <1>3 DEF Promise!Init, Pushed, Calls

(* A step that ConsoleSpec does not see.                                   *)
LEMMA Stutters ==
  ASSUME Calls' = Calls, Pushed' = Pushed, UNCHANGED <<input, ret>>
  PROVE  UNCHANGED Promise!vars
  BY DEF Promise!vars, Calls, Pushed

-----------------------------------------------------------------------------
(* Every step is one of ConsoleSpec, or one it does not see.               *)

LEMMA GetPushedAbstract ==
  ASSUME IInv, NEW p \in Procs, GetPushed(p)
  PROVE  Promise!GetPushed(p)
<1>1. /\ pc[p] = "idle" /\ full[p] /\ full' = [full EXCEPT ![p] = FALSE] /\ char' = char
      /\ Goes(p, "idle") /\ Sets(p, None) /\ ret' = [ret EXCEPT ![p] = char[p]]
      /\ input' = input
  BY DEF GetPushed, HasPushed, Returns, At
<1>2. Calls[p] = Promise!NoCall /\ Pushed[p] = <<Byte(char[p])>> /\ Pushed[p] # <<>>
  BY <1>1, AbstractState
<1>3. Calls' = Calls
  <2>1. CallOf(None, "idle") = Calls[p]
    BY <1>2, AbstractCalls
  <2> QED
    BY <1>1, <2>1, CallsStep DEF IInv
<1>4. Pushed' = [Pushed EXCEPT ![p] = <<>>]
  <2>1. full'[p] = FALSE /\ \A q \in Procs \ {p} : full'[q] = full[q] /\ char'[q] = char[q]
    BY <1>1 DEF IInv, TypeOK
  <2>2. PushedBack(full'[p], char'[p]) = <<>>
    BY <2>1 DEF PushedBack
  <2> QED
    BY <2>1, <2>2, PushedStep
<1>5. \E v \in Promise!AnswersFor(Pushed[p][1]) : ret' = [ret EXCEPT ![p] = v]
  <2>1. char[p] \in -Word..Word-1
    BY CharsAreValues DEF IInv, TypeOK
  <2>2. char[p] \in Promise!AnswersFor(Byte(char[p])) /\ Pushed[p][1] = Byte(char[p])
    BY <1>2, <2>1, AnswersOf
  <2> QED
    BY <1>1, <2>2
<1> QED
  BY <1>1, <1>2, <1>3, <1>4, <1>5 DEF Promise!GetPushed, Promise!Answers, Calls, Pushed

LEMMA GetchAbstract ==
  ASSUME IInv, NEW p \in Procs, NEW echo \in BOOLEAN, Getch(p, echo)
  PROVE  Promise!Ask(p)
<1>1. PICK l, place : l = Getting(echo) /\ place = IF ttyp THEN "get" ELSE "read"
  OBVIOUS
<1>2. /\ pc[p] = "idle" /\ ~ full[p] /\ Goes(p, place) /\ Sets(p, l)
      /\ ret' = [ret EXCEPT ![p] = NoAnswer] /\ UNCHANGED <<input, full, char>>
  BY <1>1 DEF Getch, HasPushed, Starts, At
<1>3. Calls[p] = Promise!NoCall /\ Pushed[p] = <<>> /\ Pushed' = Pushed
  BY <1>2, AbstractState, PushedSame
<1>4. CallOf(l, place) = Promise!Reading(<<>>)
  <2>1. l \in GetchVariables /\ place # "restore"
    BY <1>1, CallsStarted
  <2>2. CallOf(l, place) = Promise!Reading(IF place = "restore" THEN <<l.got>> ELSE <<>>)
    BY <2>1, AbstractCalls
  <2> QED
    BY <2>1, <2>2
<1>5. Calls' = [Calls EXCEPT ![p] = Promise!Reading(<<>>)]
  BY <1>2, <1>4, CallsStep DEF IInv
<1>6. ret' = [ret EXCEPT ![p] = Promise!NoAnswer]
  BY <1>2 DEF NoAnswer, Promise!NoAnswer
<1> QED
  BY <1>2, <1>3, <1>5, <1>6 DEF Promise!Ask, Calls, Pushed

(* tcgetattr and tcsetattr.                                                *)
LEMMA NotDelivered ==
  ASSUME IInv, NEW p \in Procs, NEW place, NEW l \in GetchVariables,
         pc[p] \in { "get", "set" }, place # "restore", Goes(p, place), Sets(p, l),
         UNCHANGED <<input, full, char, ret>>
  PROVE  UNCHANGED Promise!vars
<1>1. CallOf(l, place) = Promise!Reading(<<>>)
  <2>1. CallOf(l, place) = Promise!Reading(IF place = "restore" THEN <<l.got>> ELSE <<>>)
    BY AbstractCalls
  <2> QED
    BY <2>1
<1>2. Calls[p] = Promise!Reading(<<>>)
  BY AbstractState
<1>3. Calls' = Calls
  BY <1>1, <1>2, CallsStep DEF IInv
<1> QED
  BY <1>3, PushedSame, Stutters

LEMMA ModeStepsAbstract ==
  ASSUME IInv, NEW p \in Procs,
         GetAttr(p) \/ GetAttrFails(p) \/ SetAttr(p) \/ SetAttrFails(p)
  PROVE  UNCHANGED Promise!vars
<1>1. UNCHANGED <<input, full, char, ret>>
  BY DEF GetAttr, GetAttrFails, SetAttr, SetAttrFails
<1>2. CASE GetAttr(p) \/ GetAttrFails(p)
  <2>1. pc[p] = "get" /\ Goes(p, "set")
    BY <1>2 DEF GetAttr, GetAttrFails, At
  <2>2. PICK mode \in Modes : Sets(p, [local[p] EXCEPT !.prev = mode])
    <3>1. CASE GetAttr(p)
      BY <3>1 DEF GetAttr, IInv, TypeOK
    <3>2. CASE GetAttrFails(p)
      BY <3>2 DEF GetAttrFails
    <3> QED
      BY <1>2, <3>1, <3>2
  <2>3. PICK l : l = [local[p] EXCEPT !.prev = mode]
    OBVIOUS
  <2>4. local[p] \in GetchVariables
    BY <2>1, WhereItIs DEF IInv, InTerminalCall
  <2>5. l \in GetchVariables
    BY <2>3, <2>4 DEF GetchVariables
  <2>6. Sets(p, l)
    BY <2>2, <2>3
  <2> QED
    BY <1>1, <2>1, <2>5, <2>6, NotDelivered
<1>3. CASE SetAttr(p) \/ SetAttrFails(p)
  <2>1. pc[p] = "set" /\ Goes(p, "read") /\ local' = local
    BY <1>3 DEF SetAttr, SetAttrFails, At
  <2>2. PICK l \in GetchVariables : l = local[p]
    BY <2>1, WhereItIs DEF IInv, InTerminalCall
  <2>3. Sets(p, l)
    <3>1. local \in [Procs -> CallVariables]
      BY DEF IInv, TypeOK
    <3> QED
      BY <2>1, <2>2, <3>1 DEF Sets
  <2> QED
    BY <1>1, <2>1, <2>3, NotDelivered
<1> QED
  BY <1>2, <1>3

LEMMA ReadAbstract ==
  ASSUME IInv, NEW p \in Procs, Read(p) \/ ReadFails(p)
  PROVE  Promise!Deliver(p) \/ Promise!End(p)
<1>1. pc[p] = "read" /\ Goes(p, "restore") /\ UNCHANGED <<full, char, ret>>
  BY DEF Read, ReadFails, At
<1>2. local[p] \in GetchVariables /\ Calls[p] = Promise!Reading(<<>>) /\ Pushed' = Pushed
  BY <1>1, WhereItIs, AbstractState, PushedSame DEF IInv, InTerminalCall
<1>3. ASSUME NEW got \in 0..Word, Sets(p, [local[p] EXCEPT !.got = got])
      PROVE  Calls' = [Calls EXCEPT ![p] = Promise!Reading(<<got>>)]
  <2>1. PICK l : l = [local[p] EXCEPT !.got = got]
    OBVIOUS
  <2>2. l \in GetchVariables /\ l.got = got
    BY <1>2, <2>1 DEF GetchVariables
  <2>3. CallOf(l, "restore") = Promise!Reading(<<got>>)
    BY <2>2, AbstractCalls
  <2>4. Sets(p, l)
    BY <1>3, <2>1
  <2>5. Calls' = [Calls EXCEPT ![p] = CallOf(l, "restore")]
    BY <1>1, <2>4, CallsStep DEF IInv
  <2> QED
    BY <2>3, <2>5
<1>4. CASE Read(p)
  <2>1. /\ input # <<>> /\ input' = Tail(input)
        /\ Sets(p, [local[p] EXCEPT !.got = Head(input)])
    BY <1>4 DEF Read, Readable
  <2>2. PICK got \in 0..Word-1 : got = Head(input)
    BY <2>1, TailOfInput DEF IInv
  <2>3. got \in 0..Word
    BY <2>2, WordAssumption
  <2>4. Calls' = [Calls EXCEPT ![p] = Promise!Reading(<<Head(input)>>)]
    BY <1>3, <2>1, <2>2, <2>3
  <2> QED
    BY <1>1, <1>2, <2>1, <2>4 DEF Promise!Deliver, Calls, Pushed
<1>5. CASE ReadFails(p)
  <2>1. Sets(p, [local[p] EXCEPT !.got = Ended]) /\ input' = input
    BY <1>5 DEF ReadFails
  <2>2. Ended \in 0..Word
    BY WordAssumption DEF Ended
  <2>3. Calls' = [Calls EXCEPT ![p] = Promise!Reading(<<Promise!Ended>>)]
    BY <1>3, <2>1, <2>2 DEF Ended, Promise!Ended
  <2> QED
    BY <1>1, <1>2, <2>1, <2>3 DEF Promise!End, Calls, Pushed
<1> QED
  BY <1>4, <1>5

LEMMA RestoreAbstract ==
  ASSUME IInv, NEW p \in Procs, Restore(p) \/ RestoreFails(p)
  PROVE  Promise!Return(p)
<1>1. /\ pc[p] = "restore" /\ Returns(p, Result(p)) /\ UNCHANGED <<input, full, char>>
  BY DEF Restore, RestoreFails, At
<1>2. Goes(p, "idle") /\ Sets(p, None) /\ ret' = [ret EXCEPT ![p] = Result(p)]
  BY <1>1 DEF Returns
<1>3. local[p] \in GetchVariables /\ Pushed' = Pushed
  BY <1>1, WhereItIs, PushedSame DEF IInv, InTerminalCall
<1>4. PICK got \in 0..Word : got = local[p].got
  BY <1>3 DEF GetchVariables
<1>5. Calls[p] = Promise!Reading(<<got>>)
  BY <1>1, <1>4, AbstractState
<1>6. Calls[p].op = "getch" /\ Calls[p].got = <<got>>
  BY <1>5 DEF Promise!Reading
<1>7. Calls' = [Calls EXCEPT ![p] = Promise!NoCall]
  <2>1. CallOf(None, "idle") = Promise!NoCall
    BY AbstractCalls
  <2>2. Calls' = [Calls EXCEPT ![p] = CallOf(None, "idle")]
    BY <1>2, CallsStep DEF IInv
  <2> QED
    BY <2>1, <2>2
<1>8. Result(p) \in IF <<got>> = <<Promise!Ended>> THEN {Promise!EOF}
                    ELSE Promise!AnswersFor(got)
  <2>1. CASE got = Word
    <3>1. Result(p) = Promise!EOF
      BY <1>4, <2>1 DEF Result, Ended, EOF, Promise!EOF
    <3> QED
      BY <2>1, <3>1 DEF Promise!Ended
  <2>2. CASE got # Word
    <3>1. got \in 0..Word-1 /\ got \in Int
      BY <2>2, WordAssumption
    <3>2. Result(p) = Signed(got)
      BY <1>4, <2>2 DEF Result, Ended
    <3>3. PICK v \in -Word..Word-1 : v = Signed(got)
      BY <3>1, SignedByte, CharsAreValues
    <3>4. Byte(v) = got
      BY <3>1, <3>3, SignedByte, ByteItself
    <3>5. v \in Promise!AnswersFor(got)
      BY <3>4, AnswersOf
    <3>6. <<got>> # <<Promise!Ended>>
      BY <2>2 DEF Promise!Ended
    <3> QED
      BY <3>2, <3>3, <3>5, <3>6
  <2> QED
    BY <2>1, <2>2
<1>9. \E v \in IF Calls[p].got = <<Promise!Ended>> THEN {Promise!EOF}
               ELSE Promise!AnswersFor(Calls[p].got[1]) : ret' = [ret EXCEPT ![p] = v]
  <2>1. Calls[p].got[1] = got
    BY <1>6
  <2> QED
    BY <1>2, <1>6, <1>8, <2>1
<1>10. Promise!Answers(p, IF Calls[p].got = <<Promise!Ended>> THEN {Promise!EOF}
                         ELSE Promise!AnswersFor(Calls[p].got[1]))
  BY <1>9 DEF Promise!Answers
<1>11. Calls[p].got # <<>> /\ input' = input
  BY <1>1, <1>6
<1> QED
  BY <1>3, <1>6, <1>7, <1>10, <1>11 DEF Promise!Return, Calls, Pushed

(* A call that begins where the program is in none, and returns at once.   *)
LEMMA ReturnsAtOnce ==
  ASSUME IInv, NEW p \in Procs, pc[p] = "idle", NEW v, Returns(p, v)
  PROVE  Calls[p] = Promise!NoCall /\ Calls' = Calls /\ ret' = [ret EXCEPT ![p] = v]
<1>1. Goes(p, "idle") /\ Sets(p, None) /\ ret' = [ret EXCEPT ![p] = v]
  BY DEF Returns
<1>2. Calls[p] = Promise!NoCall
  BY AbstractState
<1>3. CallOf(None, "idle") = Calls[p]
  BY <1>2, AbstractCalls
<1>4. Calls' = Calls
  BY <1>1, <1>3, CallsStep DEF IInv
<1> QED
  BY <1>1, <1>2, <1>4

LEMMA UngetchAbstract ==
  ASSUME IInv, NEW p \in Procs, NEW v \in Ints, Ungetch(p, v)
  PROVE  Promise!PushBack(p, v)
<1>1. pc[p] = "idle" /\ input' = input
  BY DEF Ungetch, At
<1>2. v \in -Word..Word-1 /\ v \in Int
  BY TextGiven, CharsAreValues
<1>3. CASE full[p]
  <2>1. Returns(p, EOF) /\ UNCHANGED <<full, char>>
    BY <1>3 DEF Ungetch
  <2>2. Pushed[p] # <<>> /\ Pushed' = Pushed
    BY <1>3, <2>1, AbstractState, PushedSame
  <2>3. Calls[p] = Promise!NoCall /\ Calls' = Calls /\ ret' = [ret EXCEPT ![p] = Promise!EOF]
    BY <1>1, <2>1, ReturnsAtOnce DEF EOF, Promise!EOF
  <2>4. Promise!Answers(p, {Promise!EOF})
    BY <2>3 DEF Promise!Answers
  <2> QED
    BY <1>1, <2>2, <2>3, <2>4 DEF Promise!PushBack, Calls, Pushed
<1>4. CASE ~ full[p]
  <2>1. /\ Returns(p, v) /\ full' = [full EXCEPT ![p] = TRUE]
        /\ char' = [char EXCEPT ![p] = Signed(v)]
    BY <1>4 DEF Ungetch
  <2>2. Calls[p] = Promise!NoCall /\ Calls' = Calls /\ ret' = [ret EXCEPT ![p] = v]
    BY <1>1, <2>1, ReturnsAtOnce
  <2>3. Pushed[p] = <<>>
    BY <1>4, AbstractState
  <2>4. Pushed' = [Pushed EXCEPT ![p] = <<v % Word>>]
    <3>1. /\ full'[p] = TRUE /\ char'[p] = Signed(v)
          /\ \A q \in Procs \ {p} : full'[q] = full[q] /\ char'[q] = char[q]
      BY <2>1 DEF IInv, TypeOK
    <3>2. Byte(Signed(v)) = v % Word
      BY <1>2, SignedByte DEF Byte
    <3>3. PushedBack(full'[p], char'[p]) = <<v % Word>>
      BY <3>1, <3>2 DEF PushedBack
    <3> QED
      BY <3>1, <3>3, PushedStep
  <2>5. Promise!Answers(p, Promise!AnswersFor(v % Word))
    <3>1. v \in Promise!AnswersFor(v % Word)
      BY <1>2, AnswersOf DEF Byte
    <3> QED
      BY <2>2, <3>1 DEF Promise!Answers
  <2> QED
    BY <1>1, <2>2, <2>3, <2>4, <2>5 DEF Promise!PushBack, Calls, Pushed
<1> QED
  BY <1>3, <1>4

LEMMA CprintfFailsAbstract ==
  ASSUME IInv, NEW p \in Procs, CprintfFails(p)
  PROVE  Promise!CannotSay(p)
<1>1. pc[p] = "idle" /\ Returns(p, 0) /\ UNCHANGED <<input, full, char>>
  BY DEF CprintfFails, At
<1>2. Calls[p] = Promise!NoCall /\ Calls' = Calls /\ ret' = [ret EXCEPT ![p] = 0]
  BY <1>1, ReturnsAtOnce
<1>3. Promise!Answers(p, {0})
  BY <1>2 DEF Promise!Answers
<1>4. Pushed' = Pushed
  BY <1>1, PushedSame
<1> QED
  BY <1>1, <1>2, <1>3, <1>4 DEF Promise!CannotSay, Calls, Pushed

(* A text is said by the bytes it stands for: those of putch's int, and    *)
(* the chars of the others, which are bytes already.                       *)
LEMMA SayAbstract ==
  ASSUME IInv, NEW p \in Procs, NEW form \in Forms, NEW text \in Seq(-Word..Word-1),
         Say(p, form, text), NEW bytes, bytes = [i \in DOMAIN text |-> Byte(text[i])]
  PROVE  Promise!Say(p, form, bytes)
<1>1. PICK l : l = Saying(form, text)
  OBVIOUS
<1>2. /\ pc[p] = "idle" /\ Goes(p, "put") /\ Sets(p, l) /\ ret' = [ret EXCEPT ![p] = NoAnswer]
      /\ UNCHANGED <<input, full, char>>
  BY <1>1 DEF Say, Starts, At
<1>3. l \in SayVariables /\ l.op = form /\ l.text = text /\ l.sent = 0
  BY <1>1, CallsStarted DEF Saying
<1>4. CallOf(l, "put") = Promise!Writing(form, bytes, 0)
  <2>1. Text(l) = bytes
    BY <1>3 DEF Text
  <2> QED
    BY <1>3, <2>1, AbstractCalls
<1>5. Calls' = [Calls EXCEPT ![p] = Promise!Writing(form, bytes, 0)]
  BY <1>2, <1>4, CallsStep DEF IInv
<1>6. Calls[p] = Promise!NoCall /\ Pushed' = Pushed
  BY <1>2, AbstractState, PushedSame
<1>7. ret' = [ret EXCEPT ![p] = Promise!NoAnswer]
  BY <1>2 DEF NoAnswer, Promise!NoAnswer
<1> QED
  BY <1>2, <1>5, <1>6, <1>7 DEF Promise!Say, Calls, Pushed

LEMMA SaidTexts ==
  /\ \A v \in Ints : [i \in DOMAIN <<v>> |-> Byte(<<v>>[i])] = <<v % Word>>
  /\ \A text \in Texts : [i \in DOMAIN text |-> Byte(text[i])] = text
<1>1. ASSUME NEW v \in Ints PROVE [i \in DOMAIN <<v>> |-> Byte(<<v>>[i])] = <<v % Word>>
  <2>1. PICK t : t = [i \in DOMAIN <<v>> |-> Byte(<<v>>[i])]
    OBVIOUS
  <2>2. DOMAIN <<v>> = {1} /\ <<v>>[1] = v
    OBVIOUS
  <2>3. t = [i \in {1} |-> v % Word]
    BY <2>1, <2>2 DEF Byte
  <2>4. <<v % Word>> = [i \in {1} |-> v % Word]
    OBVIOUS
  <2> QED
    BY <2>1, <2>3, <2>4
<1>2. ASSUME NEW text \in Texts PROVE [i \in DOMAIN text |-> Byte(text[i])] = text
  <2>1. PICK A : A = 1..Word-1 /\ text \in Seq(A)
    BY TextsAssumption
  <2>2. PICK n \in Nat : text \in [1..n -> A]
    <3>1. text \in Seq(A)
      BY <2>1
    <3>2. Len(text) \in Nat /\ text \in [1..Len(text) -> A]
      BY <3>1
    <3> QED
      BY <3>2
  <2>3. ASSUME NEW i \in 1..n PROVE Byte(text[i]) = text[i]
    <3>1. text[i] \in A
      BY <2>2
    <3>2. text[i] \in 0..Word-1
      BY <2>1, <3>1, WordAssumption
    <3> QED
      BY <3>2, ByteItself
  <2>4. text = [i \in 1..n |-> text[i]] /\ DOMAIN text = 1..n
    BY <2>2
  <2>5. [i \in DOMAIN text |-> Byte(text[i])] = [i \in 1..n |-> text[i]]
    BY <2>3, <2>4
  <2> QED
    BY <2>4, <2>5
<1> QED
  BY <1>1, <1>2

(* A char is written, or putch fails to and nothing is seen of it.         *)
LEMMA PutAbstract ==
  ASSUME IInv, NEW p \in Procs, NEW value, NEW written \in BOOLEAN, Put(p, value, written),
         IF written THEN value = PutValue(local[p]) ELSE value = EOF
  PROVE  IF written THEN Promise!Emit(p) ELSE UNCHANGED Promise!vars
<1>1. /\ pc[p] = "put" /\ local[p].i < Len(local[p].text) /\ local[p].put # EOF
      /\ UNCHANGED <<input, full, char, pc, ret>>
  BY DEF Put, At
<1>2. PICK l \in SayVariables : l = local[p] /\ Along(l)
  BY <1>1, WhereItIs DEF IInv
<1>3. PICK m : m = PutAt(l, value, written)
  OBVIOUS
<1>4. Sets(p, m) /\ Goes(p, "put")
  <2>1. pc \in [Procs -> { "idle", "get", "set", "read", "restore", "put" }]
    BY DEF IInv, TypeOK
  <2> QED
    BY <1>1, <1>2, <1>3, <2>1 DEF Put, PutAt, Goes
<1>5. /\ m \in SayVariables /\ m.op = l.op /\ m.text = l.text
      /\ m.sent = IF written THEN l.sent + 1 ELSE l.sent
  <2>1. m \in SayVariables
    BY <1>1, <1>2, <1>3, PutAlong
  <2> QED
    BY <1>3, <2>1 DEF PutAt, SayVariables
<1>6. Text(m) = Text(l)
  BY <1>5 DEF Text
<1>7. Calls[p] = Promise!Writing(l.op, Text(l), l.sent)
  BY <1>1, <1>2, AbstractState
<1>8. CallOf(m, "put") = Promise!Writing(l.op, Text(l), m.sent)
  BY <1>5, <1>6, AbstractCalls
<1>9. /\ Calls' = [Calls EXCEPT ![p] = CallOf(m, "put")]
      /\ CallOf(m, "put") = Calls[p] => Calls' = Calls
  BY <1>4, CallsStep DEF IInv
<1>10. Pushed' = Pushed
  BY <1>1, PushedSame
<1>11. CASE ~ written
  <2>1. m.sent = l.sent
    BY <1>5, <1>11
  <2>2. Calls' = Calls
    BY <1>7, <1>8, <1>9, <2>1
  <2>3. UNCHANGED Promise!vars
    BY <1>1, <1>10, <2>2, Stutters
  <2> QED
    BY <1>11, <2>3
<1>12. CASE written
  <2>1. PICK c : c = Calls[p]
    OBVIOUS
  <2>2. c.op = l.op /\ c.text = Text(l) /\ c.sent = l.sent
    BY <1>7, <2>1 DEF Promise!Writing
  <2>3. c.op \in Promise!Forms
    BY <2>2 DEF SayVariables, Forms, Promise!Forms
  <2>4. CallOf(m, "put") = [c EXCEPT !.sent = @ + 1]
    <3>1. m.sent = l.sent + 1
      BY <1>5, <1>12
    <3>2. Promise!Writing(l.op, Text(l), l.sent + 1) =
            [Promise!Writing(l.op, Text(l), l.sent) EXCEPT !.sent = @ + 1]
      BY DEF Promise!Writing
    <3> QED
      BY <1>7, <1>8, <2>1, <3>1, <3>2
  <2>5. /\ l.i \in Nat /\ l.sent = l.i /\ l.i < Len(l.text)
        /\ l.i > 0 /\ l.op # "putch" => Byte(l.text[l.i]) # AllOnes
        /\ l.op = "putch" => Len(l.text) = 1
    BY <1>1, <1>2 DEF Along, SayVariables
  <2>6. PICK n \in Nat, i \in Nat : n = Len(l.text) /\ i = l.i /\ i < n /\ DOMAIN l.text = 1..n
    <3>1. l.text \in Seq(-Word..Word-1)
      BY DEF SayVariables
    <3>2. Len(l.text) \in Nat /\ DOMAIN l.text = 1..Len(l.text)
      BY <3>1
    <3> QED
      BY <2>5, <3>2
  <2>7. DOMAIN c.text = 1..n /\ Len(c.text) = n /\ \A j \in 1..n : c.text[j] = Byte(l.text[j])
    <3>1. PICK t : t = Text(l) /\ t = [j \in 1..n |-> Byte(l.text[j])]
      BY <2>6 DEF Text
    <3>2. DOMAIN t = 1..n /\ \A j \in 1..n : t[j] = Byte(l.text[j])
      BY <3>1
    <3>3. Len(t) = n
      BY <3>1
    <3> QED
      BY <2>2, <3>1, <3>2, <3>3
  <2>8. ~ Promise!Whole(c)
    BY <2>2, <2>5, <2>6, <2>7 DEF Promise!Whole
  <2>9. ~ Promise!MistakenForEOF(c)
    <3>1. SUFFICES ASSUME i > 0 PROVE c.text[i] # AllOnes
      BY <2>2, <2>5, <2>6 DEF Promise!MistakenForEOF, Promise!AllOnes, AllOnes
    <3>2. n # 1
      <4>1. i \in Int /\ i < n /\ i >= 1
        BY <2>6, <3>1
      <4> QED
        BY <4>1
    <3>3. l.op # "putch"
      BY <2>5, <2>6, <3>2
    <3>4. Byte(l.text[i]) # AllOnes
      BY <2>5, <2>6, <3>1, <3>3
    <3>5. i \in 1..n
      BY <2>6, <3>1
    <3> QED
      BY <2>7, <3>4, <3>5
  <2>10. Calls' = [Calls EXCEPT ![p].sent = @ + 1]
    <3>1. Calls' = [Calls EXCEPT ![p] = [c EXCEPT !.sent = @ + 1]]
      BY <1>9, <2>4
    <3> QED
      BY <2>1, <3>1
  <2>11. Promise!Emit(p)
    BY <1>1, <1>10, <2>1, <2>3, <2>8, <2>9, <2>10
       DEF Promise!Emit, Calls, Pushed
  <2> QED
    BY <1>12, <2>11
<1> QED
  BY <1>11, <1>12

LEMMA WriteAbstract ==
  ASSUME IInv, NEW p \in Procs, Write(p) \/ WriteFails(p)
  PROVE  Promise!Emit(p) \/ UNCHANGED Promise!vars
<1>1. CASE Write(p)
  <2>1. PICK value : value = PutValue(local[p])
    OBVIOUS
  <2>2. Put(p, value, TRUE)
    BY <1>1, <2>1 DEF Write, PutValue
  <2> QED
    BY <2>1, <2>2, PutAbstract
<1>2. CASE WriteFails(p)
  <2>1. Put(p, EOF, FALSE)
    BY <1>2 DEF WriteFails
  <2> QED
    BY <2>1, PutAbstract
<1> QED
  BY <1>1, <1>2

(* What the writing functions return is what they promise of the bytes     *)
(* written.                                                                *)
LEMMA SaidAbstract ==
  ASSUME IInv, NEW p \in Procs, Said(p)
  PROVE  Promise!Said(p)
<1>1. /\ pc[p] = "put" /\ UNCHANGED <<input, full, char>>
      /\ local[p].i = Len(local[p].text) \/ local[p].put = EOF
      /\ Returns(p, SaidValue(local[p]))
  BY DEF Said, SaidValue, At
<1>2. PICK l \in SayVariables : l = local[p] /\ Along(l)
  BY <1>1, WhereItIs DEF IInv
<1>3. PICK c : c = Calls[p]
  OBVIOUS
<1>4. c.op = l.op /\ c.text = Text(l) /\ c.sent = l.sent
  <2>1. c = Promise!Writing(l.op, Text(l), l.sent)
    BY <1>1, <1>2, <1>3, AbstractState
  <2> QED
    BY <2>1 DEF Promise!Writing
<1>5. PICK n \in Nat, i \in Nat : n = Len(l.text) /\ i = l.i /\ DOMAIN l.text = 1..n
  <2>1. l.text \in Seq(-Word..Word-1) /\ l.i \in Nat
    BY DEF SayVariables
  <2>2. Len(l.text) \in Nat /\ DOMAIN l.text = 1..Len(l.text)
    BY <2>1
  <2> QED
    BY <2>1, <2>2
<1>6. DOMAIN c.text = 1..n /\ Len(c.text) = n /\ \A j \in 1..n : c.text[j] = Byte(l.text[j])
  <2>1. PICK t : t = Text(l) /\ t = [j \in 1..n |-> Byte(l.text[j])]
    BY <1>5 DEF Text
  <2>2. DOMAIN t = 1..n /\ \A j \in 1..n : t[j] = Byte(l.text[j])
    BY <2>1
  <2>3. Len(t) = n
    BY <2>1
  <2> QED
    BY <1>4, <2>1, <2>2, <2>3
<1>7. l.op \in Forms
  BY DEF SayVariables
<1>8. l.put # EOF => /\ i = n /\ c.sent = n /\ Promise!Whole(c)
                     /\ l.op # "putch" => ~ Promise!MistakenForEOF(c)
  <2>1. SUFFICES ASSUME l.put # EOF
                 PROVE  /\ i = n /\ c.sent = n /\ Promise!Whole(c)
                        /\ l.op # "putch" => ~ Promise!MistakenForEOF(c)
    OBVIOUS
  <2>2. i = n /\ c.sent = n
    BY <1>1, <1>2, <1>4, <1>5, <2>1 DEF Along
  <2>3. Promise!Whole(c)
    BY <1>6, <2>2 DEF Promise!Whole
  <2>4. ASSUME l.op # "putch", n > 0 PROVE c.text[n] # AllOnes
    <3>1. Byte(l.text[n]) # AllOnes
      BY <1>2, <1>5, <2>1, <2>2, <2>4 DEF Along
    <3>2. n \in 1..n
      BY <2>4
    <3> QED
      BY <1>6, <3>1, <3>2
  <2>5. l.op # "putch" => ~ Promise!MistakenForEOF(c)
    BY <2>2, <2>4 DEF Promise!MistakenForEOF, Promise!AllOnes, AllOnes
  <2> QED
    BY <2>2, <2>3, <2>5
<1>9. l.put = EOF => /\ i < n
                     /\ \/ c.sent = i /\ ~ Promise!Whole(c) /\ ~ Promise!MistakenForEOF(c)
                        \/ c.sent = i + 1 /\ Promise!MistakenForEOF(c) /\ c.text[i + 1] = AllOnes
  <2>1. SUFFICES ASSUME l.put = EOF
                 PROVE  /\ i < n
                        /\ \/ c.sent = i /\ ~ Promise!Whole(c) /\ ~ Promise!MistakenForEOF(c)
                           \/ c.sent = i + 1 /\ Promise!MistakenForEOF(c) /\ c.text[i + 1] = AllOnes
    OBVIOUS
  <2>2. i < n
    BY <1>2, <1>5, <2>1 DEF Along
  <2>3. CASE l.sent = l.i /\ (l.i > 0 => Byte(l.text[l.i]) # AllOnes)
    <3>1. c.sent = i
      BY <1>4, <1>5, <2>3
    <3>2. ~ Promise!Whole(c)
      BY <1>6, <2>2, <3>1 DEF Promise!Whole
    <3>3. i > 0 => c.text[i] # AllOnes
      <4>1. i > 0 => i \in 1..n
        BY <2>2
      <4> QED
        BY <1>5, <1>6, <2>3, <4>1
    <3>4. ~ Promise!MistakenForEOF(c)
      BY <3>1, <3>3 DEF Promise!MistakenForEOF, Promise!AllOnes, AllOnes
    <3> QED
      BY <2>2, <3>1, <3>2, <3>4
  <2>4. CASE l.sent = l.i + 1 /\ Byte(l.text[l.i + 1]) = AllOnes
    <3>1. c.sent = i + 1
      BY <1>4, <1>5, <2>4
    <3>2. c.text[i + 1] = AllOnes
      <4>1. i + 1 \in 1..n
        BY <2>2
      <4> QED
        BY <1>5, <1>6, <2>4, <4>1
    <3>3. Promise!MistakenForEOF(c)
      BY <3>1, <3>2 DEF Promise!MistakenForEOF, Promise!AllOnes, AllOnes
    <3> QED
      BY <2>2, <3>1, <3>2, <3>3
  <2> QED
    BY <1>2, <2>1, <2>3, <2>4 DEF Along
<1>10. SaidValue(l) \in Promise!SaidValues(c)
  <2>1. CASE l.op = "putch"
    <3>1. SaidValue(l) = l.put
      BY <2>1 DEF SaidValue
    <3>2. Promise!SaidValues(c) = IF Promise!Whole(c) THEN Promise!AnswersFor(c.text[1])
                                  ELSE {Promise!EOF}
      BY <1>4, <2>1 DEF Promise!SaidValues
    <3>3. n = 1
      BY <1>2, <1>5, <2>1 DEF Along
    <3>4. c.text[1] = Byte(l.text[1])
      BY <1>6, <3>3
    <3>5. CASE l.put = EOF
      <4>1. CASE c.sent = i /\ ~ Promise!Whole(c)
        BY <3>1, <3>2, <3>5, <4>1 DEF EOF, Promise!EOF
      <4>2. CASE c.sent = i + 1 /\ c.text[i + 1] = AllOnes
        <5>1. i = 0
          BY <1>5, <1>9, <3>3, <3>5
        <5>2. Promise!Whole(c)
          BY <1>6, <3>3, <4>2, <5>1 DEF Promise!Whole
        <5>3. c.text[1] = AllOnes
          BY <4>2, <5>1
        <5>4. EOF \in Promise!AnswersFor(AllOnes)
          <6>1. Word \in Nat /\ Word > 0 /\ -1 = Word * (-1) + (Word - 1)
            BY WordAssumption
          <6>2. (-1) % Word = Word - 1 /\ -1 \in -Word..Word-1
            BY <6>1, RemainderUnique
          <6> QED
            BY <6>2, AnswersOf DEF Byte, EOF, AllOnes
        <5> QED
          BY <3>1, <3>2, <3>5, <5>2, <5>3, <5>4
      <4> QED
        BY <1>9, <3>5, <4>1, <4>2
    <3>6. CASE l.put # EOF
      <4>1. Promise!Whole(c) /\ i = 1
        BY <1>8, <3>3, <3>6
      <4>2. l.put = l.text[1]
        BY <1>2, <1>5, <2>1, <3>6, <4>1 DEF Along
      <4>3. l.put \in -Word..Word-1
        BY DEF SayVariables
      <4>4. l.put \in Promise!AnswersFor(c.text[1])
        BY <3>4, <4>2, <4>3, AnswersOf
      <4> QED
        BY <3>1, <3>2, <4>1, <4>4
    <3> QED
      BY <3>5, <3>6
  <2>2. CASE l.op = "cputs"
    <3>1. SaidValue(l) = IF l.put = EOF THEN -1 ELSE 0
      BY <2>2 DEF SaidValue
    <3>2. Promise!SaidValues(c) =
            IF Promise!Whole(c) /\ ~ Promise!MistakenForEOF(c) THEN {0} ELSE {-1}
      BY <1>4, <2>2 DEF Promise!SaidValues
    <3>3. CASE l.put = EOF
      BY <1>9, <3>1, <3>2, <3>3
    <3>4. CASE l.put # EOF
      BY <1>8, <2>2, <3>1, <3>2, <3>4
    <3> QED
      BY <3>3, <3>4
  <2>3. CASE l.op = "cprintf"
    <3>1. SaidValue(l) = i
      BY <1>5, <2>3 DEF SaidValue
    <3>2. Promise!SaidValues(c) = {IF Promise!MistakenForEOF(c) THEN c.sent - 1 ELSE c.sent}
      BY <1>4, <2>3 DEF Promise!SaidValues
    <3>3. CASE l.put = EOF
      <4>1. (i + 1) - 1 = i
        OBVIOUS
      <4> QED
        BY <1>9, <3>1, <3>2, <3>3, <4>1
    <3>4. CASE l.put # EOF
      BY <1>8, <2>3, <3>1, <3>2, <3>4
    <3> QED
      BY <3>3, <3>4
  <2> QED
    BY <1>7, <2>1, <2>2, <2>3 DEF Forms
<1>11. Promise!Answers(p, Promise!SaidValues(Calls[p]))
  <2>1. ret' = [ret EXCEPT ![p] = SaidValue(l)]
    BY <1>1, <1>2 DEF Returns
  <2> QED
    BY <1>3, <1>10, <2>1 DEF Promise!Answers
<1>12. Calls' = [Calls EXCEPT ![p] = Promise!NoCall]
  <2>1. Goes(p, "idle") /\ Sets(p, None)
    BY <1>1 DEF Returns
  <2>2. Calls' = [Calls EXCEPT ![p] = CallOf(None, "idle")]
    BY <2>1, CallsStep DEF IInv
  <2> QED
    BY <2>2, AbstractCalls
<1>13. Calls[p].op \in Promise!Forms
  BY <1>3, <1>4, <1>7 DEF Forms, Promise!Forms
<1>14. Pushed' = Pushed /\ input' = input
  BY <1>1, PushedSame
<1> QED
  BY <1>11, <1>12, <1>13, <1>14 DEF Promise!Said, Calls, Pushed

LEMMA RestartAbstract ==
  ASSUME IInv, NEW p \in Procs, Restart(p)
  PROVE  Promise!Restart(p)
<1>1. /\ Goes(p, "idle") /\ Sets(p, None) /\ ret' = [ret EXCEPT ![p] = NoAnswer]
      /\ full' = [full EXCEPT ![p] = FALSE] /\ char' = [char EXCEPT ![p] = 0]
      /\ input' = input
  BY DEF Restart, Sets
<1>2. Calls' = [Calls EXCEPT ![p] = Promise!NoCall]
  <2>1. Calls' = [Calls EXCEPT ![p] = CallOf(None, "idle")]
    BY <1>1, CallsStep DEF IInv
  <2> QED
    BY <2>1, AbstractCalls
<1>3. Pushed' = [Pushed EXCEPT ![p] = <<>>]
  <2>1. full'[p] = FALSE /\ \A q \in Procs \ {p} : full'[q] = full[q] /\ char'[q] = char[q]
    BY <1>1 DEF IInv, TypeOK
  <2>2. PushedBack(full'[p], char'[p]) = <<>>
    BY <2>1 DEF PushedBack
  <2> QED
    BY <2>1, <2>2, PushedStep
<1>4. ret' = [ret EXCEPT ![p] = Promise!NoAnswer]
  BY <1>1 DEF NoAnswer, Promise!NoAnswer
<1> QED
  BY <1>1, <1>2, <1>3, <1>4 DEF Promise!Restart, Calls, Pushed

LEMMA TypeAbstract ==
  ASSUME NEW b \in Bytes, Type(b)
  PROVE  Promise!Type(b)
<1>1. /\ Len(input) < MaxPending /\ input' = Append(input, b)
      /\ UNCHANGED <<full, char, local, pc, ret>>
  BY DEF Type
<1>2. Calls' = Calls /\ Pushed' = Pushed
  BY <1>1, CallsSame, PushedSame
<1> QED
  BY <1>1, <1>2 DEF Promise!Type, Calls, Pushed

LEMMA SilentSteps ==
  ASSUME UNCHANGED vars \/ \E mode \in UserModes : SetMode(mode)
  PROVE  UNCHANGED Promise!vars
<1>1. UNCHANGED <<input, full, char, local, pc, ret>>
  BY DEF vars, SetMode
<1> QED
  BY <1>1, CallsSame, PushedSame, Stutters

LEMMA StepAbstract == IInv /\ [Next]_vars => [Promise!Next]_Promise!vars
<1> SUFFICES ASSUME IInv, [Next]_vars PROVE Promise!Next \/ UNCHANGED Promise!vars
  OBVIOUS
<1>1. CASE UNCHANGED vars \/ \E mode \in UserModes : SetMode(mode)
  BY <1>1, SilentSteps
<1>2. ASSUME NEW p \in Procs, GetPushed(p) PROVE Promise!Next
  BY <1>2, GetPushedAbstract DEF Promise!Next
<1>3. ASSUME NEW p \in Procs, NEW echo \in BOOLEAN, Getch(p, echo) PROVE Promise!Next
  BY <1>3, GetchAbstract DEF Promise!Next
<1>4. ASSUME NEW p \in Procs, GetAttr(p) \/ GetAttrFails(p) \/ SetAttr(p) \/ SetAttrFails(p)
      PROVE  UNCHANGED Promise!vars
  BY <1>4, ModeStepsAbstract
<1>5. ASSUME NEW p \in Procs, Read(p) \/ ReadFails(p) PROVE Promise!Next
  BY <1>5, ReadAbstract DEF Promise!Next
<1>6. ASSUME NEW p \in Procs, Restore(p) \/ RestoreFails(p) PROVE Promise!Next
  BY <1>6, RestoreAbstract DEF Promise!Next
<1>7. ASSUME NEW p \in Procs, NEW v \in Ints, Ungetch(p, v) PROVE Promise!Next
  BY <1>7, UngetchAbstract DEF Promise!Next
<1>8. ASSUME NEW p \in Procs, NEW v \in Ints, Say(p, "putch", <<v>>) PROVE Promise!Next
  <2>1. PICK form, text, bytes : form = "putch" /\ text = <<v>> /\ bytes = <<v % Word>>
    OBVIOUS
  <2>2. /\ form \in Forms /\ text \in Seq(-Word..Word-1)
        /\ bytes = [i \in DOMAIN text |-> Byte(text[i])]
    <3>1. form \in Forms /\ text \in Seq(-Word..Word-1)
      BY <2>1, TextGiven DEF Forms
    <3>2. bytes = [i \in DOMAIN text |-> Byte(text[i])]
      BY <2>1, SaidTexts
    <3> QED
      BY <3>1, <3>2
  <2>3. Promise!Say(p, form, bytes)
    BY <1>8, <2>1, <2>2, SayAbstract
  <2>4. Promise!Say(p, "putch", <<v % Word>>)
    BY <2>1, <2>3
  <2> QED
    BY <2>4 DEF Promise!Next
<1>9. ASSUME NEW p \in Procs, NEW form \in { "cputs", "cprintf" }, NEW text \in Texts,
             Say(p, form, text)
      PROVE  Promise!Next
  <2>1. form \in Forms /\ text \in Seq(-Word..Word-1)
    BY TextGiven DEF Forms
  <2>2. text = [i \in DOMAIN text |-> Byte(text[i])]
    BY SaidTexts
  <2>3. Promise!Say(p, form, text)
    BY <1>9, <2>1, <2>2, SayAbstract
  <2> QED
    BY <2>3 DEF Promise!Next
<1>10. ASSUME NEW p \in Procs, CprintfFails(p) PROVE Promise!Next
  BY <1>10, CprintfFailsAbstract DEF Promise!Next
<1>11. ASSUME NEW p \in Procs, Write(p) \/ WriteFails(p)
       PROVE  Promise!Next \/ UNCHANGED Promise!vars
  <2>1. Promise!Emit(p) \/ UNCHANGED Promise!vars
    BY <1>11, WriteAbstract
  <2> QED
    BY <2>1 DEF Promise!Next
<1>12. ASSUME NEW p \in Procs, Said(p) PROVE Promise!Next
  BY <1>12, SaidAbstract DEF Promise!Next
<1>13. ASSUME NEW p \in Procs, Restart(p) PROVE Promise!Next
  BY <1>13, RestartAbstract DEF Promise!Next
<1>14. ASSUME NEW b \in Bytes, Type(b) PROVE Promise!Next
  BY <1>14, TypeAbstract DEF Promise!Next
<1> QED
  BY <1>1, <1>2, <1>3, <1>4, <1>5, <1>6, <1>7, <1>8, <1>9, <1>10, <1>11, <1>12, <1>13, <1>14
     DEF Next

(* The console functions keep their promises: every byte of the input goes *)
(* to one call of getch, in order, those pushed back first, and texts are  *)
(* written and answered as ConsoleSpec says, in any number of programs.    *)
THEOREM Implementation == Spec => ImplementsConsoleSpec
<1>1. IInv /\ [Next]_vars => [Promise!Next]_Promise!vars
  BY StepAbstract
<1> QED
  BY <1>1, InitAbstract, Invariant, PTL DEF Spec, ImplementsConsoleSpec, Promise!Spec
=============================================================================
