------------------------------ MODULE Console ------------------------------
(***************************************************************************)
(* The console functions of libc/conio.c (getch, getche, ungetch, putch,   *)
(* cputs, cprintf), one step per system call, in programs that share their *)
(* standard input: a terminal, or a pipe.                                  *)
(*                                                                         *)
(* getch takes the terminal out of canonical mode while it reads, and puts *)
(* the mode back that it found.  The mode belongs to the terminal, so that *)
(* two calls of getch in different programs see each other's; a program    *)
(* may be killed while it is changed; tcgetattr may fail, which getch      *)
(* ignores, using the uninitialised record; and tcsetattr may fail.        *)
(*                                                                         *)
(* A byte has Word values, and chars are signed.  NewLine is the byte that *)
(* lets a read in canonical mode return.                                   *)
(*                                                                         *)
(* NotSigned, PushedForgotten and NotRestored are plausible mistakes in    *)
(* the definition that follows each; Next does not use them.               *)
(***************************************************************************)
EXTENDS Integers, Sequences, SequencesExt, TLC

CONSTANTS
  Procs,       \* the programs
  Word,        \* values of a byte
  Bytes,       \* the bytes typed
  NewLine,     \* the one that ends a line
  Ints,        \* what programs pass to ungetch and putch
  Texts,       \* the texts written
  UserModes,   \* the terminal modes programs set
  MaxPending   \* bound on the bytes typed and not read

ASSUME WordAssumption == Word \in Nat \ {0} /\ Word % 2 = 0
ASSUME InputAssumption ==
  NewLine \in 0..Word-1 /\ Bytes \subseteq 0..Word-1 /\ Ints \subseteq -Word..Word-1
ASSUME TextsAssumption == Texts \subseteq Seq(1..Word-1)

VARIABLES
  ttyp,     \* standard input is a terminal
  tty,      \* its mode: canonical or not, with or without echo
  input,    \* the bytes typed and not read
  full,     \* ungetch_full of each program
  char,     \* its ungetch_char
  pc,       \* where in a call it is
  local,    \* the call's variables
  ret,      \* what the last call returned
  \* Observations:
  wanted,   \* the mode set last by a program for itself
  calm      \* nothing got in the way of a getch since

vars == <<ttyp, tty, input, full, char, pc, local, ret, wanted, calm>>

Modes == [canon : BOOLEAN, echo : BOOLEAN]
ASSUME ModesAssumption == UserModes \subseteq Modes

EOF == -1
Ended == Word     \* instead of a byte: there was none
NoAnswer == Word  \* instead of a value: no call has returned
NotSigned(v) == v % Word
Signed(v) == ((v + Word \div 2) % Word) - (Word \div 2)
Chars == -(Word \div 2)..((Word \div 2) - 1)

(* The variables of the calls: prev and got hold anything until they are   *)
(* assigned to.                                                            *)
None == [op |-> "none"]
Anything == [canon |-> TRUE, echo |-> TRUE]
Getting(echo) == [op |-> "getch", echo |-> echo, prev |-> Anything, got |-> Ended]
Saying(form, text) == [op |-> form, text |-> text, i |-> 0, sent |-> 0, put |-> 0]

Init ==
  /\ ttyp \in BOOLEAN
  /\ tty \in UserModes
  /\ input = <<>>
  /\ full = [p \in Procs |-> FALSE]
  /\ char = [p \in Procs |-> 0]
  /\ pc = [p \in Procs |-> "idle"]
  /\ local = [p \in Procs |-> None]
  /\ ret = [p \in Procs |-> NoAnswer]
  /\ wanted = tty
  /\ calm = TRUE

At(p, place) == pc[p] = place
Goes(p, place) == pc' = [pc EXCEPT ![p] = place]
Sets(p, variables) == local' = [local EXCEPT ![p] = variables]

Starts(p, place, variables) ==
  /\ At(p, "idle")
  /\ Goes(p, place)
  /\ Sets(p, variables)
  /\ ret' = [ret EXCEPT ![p] = NoAnswer]

Returns(p, v) ==
  /\ Goes(p, "idle")
  /\ Sets(p, None)
  /\ ret' = [ret EXCEPT ![p] = v]

-----------------------------------------------------------------------------
(* getch.                                                                  *)

PushedForgotten(p) == FALSE
HasPushed(p) == full[p]

GetPushed(p) ==
  /\ At(p, "idle") /\ HasPushed(p)
  /\ full' = [full EXCEPT ![p] = FALSE]
  /\ Returns(p, char[p])
  /\ UNCHANGED <<ttyp, tty, input, char, wanted, calm>>

InGetch(p) == local[p].op = "getch"

Getch(p, echo) ==
  /\ ~ HasPushed(p)
  /\ Starts(p, IF ttyp THEN "get" ELSE "read", Getting(echo))
  /\ calm' = (calm /\ ~ \E q \in Procs : InGetch(q))
  /\ UNCHANGED <<ttyp, tty, input, full, char, wanted>>

GetAttr(p) ==
  /\ At(p, "get")
  /\ Goes(p, "set")
  /\ Sets(p, [local[p] EXCEPT !.prev = tty])
  /\ UNCHANGED <<ttyp, tty, input, full, char, ret, wanted, calm>>

GetAttrFails(p) ==
  /\ At(p, "get")
  /\ Goes(p, "set")
  /\ \E junk \in Modes : Sets(p, [local[p] EXCEPT !.prev = junk])
  /\ calm' = FALSE
  /\ UNCHANGED <<ttyp, tty, input, full, char, ret, wanted>>

(* Without canonical mode, and with echo or not as the call asks.          *)
Curr(p) == [canon |-> FALSE, echo |-> local[p].echo]

SetAttr(p) ==
  /\ At(p, "set")
  /\ Goes(p, "read")
  /\ tty' = Curr(p)
  /\ UNCHANGED <<ttyp, input, full, char, local, ret, wanted, calm>>

SetAttrFails(p) ==
  /\ At(p, "set")
  /\ Goes(p, "read")
  /\ calm' = FALSE
  /\ UNCHANGED <<ttyp, tty, input, full, char, local, ret, wanted>>

Readable == input # <<>> /\ (ttyp /\ tty.canon => Contains(input, NewLine))

Read(p) ==
  /\ At(p, "read") /\ Readable
  /\ Goes(p, "restore")
  /\ input' = Tail(input)
  /\ Sets(p, [local[p] EXCEPT !.got = Head(input)])
  /\ UNCHANGED <<ttyp, tty, full, char, ret, wanted, calm>>

(* The end of the input, a hangup, a signal.                               *)
ReadFails(p) ==
  /\ At(p, "read")
  /\ Goes(p, "restore")
  /\ Sets(p, [local[p] EXCEPT !.got = Ended])
  /\ UNCHANGED <<ttyp, tty, input, full, char, ret, wanted, calm>>

Result(p) == IF local[p].got = Ended THEN EOF ELSE Signed(local[p].got)

NotRestored(p) == tty
Restored(p) == IF ttyp THEN local[p].prev ELSE tty

Restore(p) ==
  /\ At(p, "restore")
  /\ tty' = Restored(p)
  /\ Returns(p, Result(p))
  /\ UNCHANGED <<ttyp, input, full, char, wanted, calm>>

RestoreFails(p) ==
  /\ At(p, "restore") /\ ttyp
  /\ Returns(p, Result(p))
  /\ calm' = FALSE
  /\ UNCHANGED <<ttyp, tty, input, full, char, wanted>>

-----------------------------------------------------------------------------
(* ungetch.                                                                *)
Ungetch(p, v) ==
  /\ At(p, "idle")
  /\ IF full[p]
     THEN Returns(p, EOF) /\ UNCHANGED <<full, char>>
     ELSE /\ full' = [full EXCEPT ![p] = TRUE]
          /\ char' = [char EXCEPT ![p] = Signed(v)]
          /\ Returns(p, v)
  /\ UNCHANGED <<ttyp, tty, input, wanted, calm>>

-----------------------------------------------------------------------------
(* putch, and cputs and cprintf, which call it for every char.             *)

Say(p, form, text) ==
  /\ Starts(p, "put", Saying(form, text))
  /\ UNCHANGED <<ttyp, tty, input, full, char, wanted, calm>>

(* vasprintf fails.                                                        *)
CprintfFails(p) ==
  /\ At(p, "idle")
  /\ Returns(p, 0)
  /\ UNCHANGED <<ttyp, tty, input, full, char, wanted, calm>>

(* putch writes a char, again until it is written, and returns it; the     *)
(* loop goes on unless that is EOF.                                        *)
Put(p, value, written) ==
  /\ At(p, "put") /\ local[p].i < Len(local[p].text) /\ local[p].put # EOF
  /\ Sets(p, [local[p] EXCEPT !.put = value,
                              !.sent = IF written THEN @ + 1 ELSE @,
                              !.i = IF value = EOF THEN @ ELSE @ + 1])
  /\ UNCHANGED <<ttyp, tty, input, full, char, pc, ret, wanted, calm>>

Write(p) == Put(p, LET c == local[p].text[local[p].i + 1]
                   IN  IF local[p].op = "putch" THEN c ELSE Signed(c), TRUE)

WriteFails(p) == Put(p, EOF, FALSE)

Said(p) ==
  /\ At(p, "put") /\ (local[p].i = Len(local[p].text) \/ local[p].put = EOF)
  /\ Returns(p, CASE local[p].op = "putch" -> local[p].put
                  [] local[p].op = "cputs" -> IF local[p].put = EOF THEN -1 ELSE 0
                  [] local[p].op = "cprintf" -> local[p].i)
  /\ UNCHANGED <<ttyp, tty, input, full, char, wanted, calm>>

-----------------------------------------------------------------------------
(* The surroundings.                                                       *)

Type(b) ==
  /\ Len(input) < MaxPending
  /\ input' = Append(input, b)
  /\ UNCHANGED <<ttyp, tty, full, char, pc, local, ret, wanted, calm>>

(* A program sets the mode for itself: stty, or an editor.                 *)
SetMode(mode) ==
  /\ ttyp
  /\ tty' = mode
  /\ wanted' = mode
  /\ calm' = ~ \E p \in Procs : InGetch(p)
  /\ UNCHANGED <<ttyp, input, full, char, pc, local, ret>>

(* A program is killed, and another is started in its place.               *)
Restart(p) ==
  /\ full' = [full EXCEPT ![p] = FALSE]
  /\ char' = [char EXCEPT ![p] = 0]
  /\ Goes(p, "idle")
  /\ Sets(p, None)
  /\ ret' = [ret EXCEPT ![p] = NoAnswer]
  /\ calm' = (calm /\ ~ (ttyp /\ pc[p] \in {"read", "restore"}))
  /\ UNCHANGED <<ttyp, tty, input, wanted>>

Next ==
  \/ \E p \in Procs :
       \/ GetPushed(p) \/ \E echo \in BOOLEAN : Getch(p, echo)
       \/ GetAttr(p) \/ GetAttrFails(p) \/ SetAttr(p) \/ SetAttrFails(p)
       \/ Read(p) \/ ReadFails(p) \/ Restore(p) \/ RestoreFails(p)
       \/ \E v \in Ints : Ungetch(p, v) \/ Say(p, "putch", <<v>>)
       \/ \E form \in { "cputs", "cprintf" }, text \in Texts : Say(p, form, text)
       \/ CprintfFails(p) \/ Write(p) \/ WriteFails(p) \/ Said(p)
       \/ Restart(p)
  \/ \E b \in Bytes : Type(b)
  \/ \E mode \in UserModes : SetMode(mode)

Spec == Init /\ [][Next]_vars

-----------------------------------------------------------------------------
(* Properties.                                                             *)

CallVariables ==
  {None} \cup [op : {"getch"}, echo : BOOLEAN, prev : Modes, got : 0..Word]
         \cup [op : {"putch", "cputs", "cprintf"}, text : Seq(-Word..Word-1),
              i : Nat, sent : Nat, put : -Word..Word-1]

TypeOK ==
  /\ ttyp \in BOOLEAN /\ {tty, wanted} \subseteq Modes /\ calm \in BOOLEAN
  /\ input \in Seq(Bytes)
  /\ full \in [Procs -> BOOLEAN] /\ char \in [Procs -> Chars]
  /\ pc \in [Procs -> { "idle", "get", "set", "read", "restore", "put" }]
  /\ local \in [Procs -> CallVariables]
  /\ ret \in [Procs -> Int]

(* As long as no two calls of getch overlap and nothing fails or is killed *)
(* in one (or since someone set the mode again), a getch waits for a char  *)
(* in the mode it asked for, and outside getch the terminal is in the mode *)
(* that was set for it, not in the one of getch.                           *)
ModeAsPromised ==
  calm /\ ttyp =>
    /\ \A p \in Procs : At(p, "read") => tty = Curr(p)
    /\ (\A p \in Procs : pc[p] \notin {"read", "restore"}) => tty = wanted

-----------------------------------------------------------------------------
(* Refinement.                                                             *)

Byte(v) == v % Word

PushedBack(isFull, c) == IF isFull THEN <<Byte(c)>> ELSE <<>>

CallOf(l, place) ==
  CASE l.op = "none" -> l
    [] l.op = "getch" -> [op |-> l.op, got |-> IF place = "restore" THEN <<l.got>> ELSE <<>>]
    [] OTHER -> [op |-> l.op, text |-> [i \in DOMAIN l.text |-> Byte(l.text[i])],
                 sent |-> l.sent]

Promise == INSTANCE ConsoleSpec WITH
  pushed <- [p \in Procs |-> PushedBack(full[p], char[p])],
  call <- [p \in Procs |-> CallOf(local[p], pc[p])],
  answer <- ret

(* The bytes go to calls of getch, pushed-back ones first, and the texts   *)
(* are written as ConsoleSpec says, whatever the terminal's mode, however  *)
(* calls of several programs overlap and wherever one is killed.           *)
ImplementsConsoleSpec == Promise!Spec

=============================================================================
