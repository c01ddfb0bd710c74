---------------------------- MODULE ConsoleSpec ----------------------------
(***************************************************************************)
(* What the console functions of libc/conio.c promise the programs that    *)
(* share an input: every byte of it goes to one call of getch, in order;   *)
(* a program gets the byte it pushed back first, one at a time; of a text, *)
(* bytes are written in order and the value returned tells how many.       *)
(*                                                                         *)
(* A byte is returned as an int that agrees with it modulo the byte's      *)
(* range: the functions return signed chars, so that the byte of all ones  *)
(* (FFh) is indistinguishable from EOF, to callers and to cputs and        *)
(* cprintf themselves.                                                     *)
(***************************************************************************)
EXTENDS Integers, Sequences

CONSTANTS
  Procs,       \* the programs
  Word,        \* values of a byte
  Bytes,       \* the bytes typed
  Ints,        \* what programs pass to ungetch and putch
  Texts,       \* the texts written
  MaxPending   \* bound on the bytes typed and not read

VARIABLES
  input,   \* the bytes typed and not read
  pushed,  \* the byte each program pushed back, if any
  call,    \* the call each program is in
  answer   \* what its last call returned

vars == <<input, pushed, call, answer>>

EOF == -1
Ended == Word     \* instead of a byte: there was none
NoAnswer == Word  \* instead of a value: no call has returned
AllOnes == Word - 1
Values == -Word..Word-1
AnswersFor(b) == { v \in Values : v % Word = b }

NoCall == [op |-> "none"]
Reading(got) == [op |-> "getch", got |-> got]
Writing(form, text, sent) == [op |-> form, text |-> text, sent |-> sent]
Forms == { "putch", "cputs", "cprintf" }

Init ==
  /\ input = <<>>
  /\ pushed = [p \in Procs |-> <<>>]
  /\ call = [p \in Procs |-> NoCall]
  /\ answer = [p \in Procs |-> NoAnswer]

Type(b) ==
  /\ Len(input) < MaxPending
  /\ input' = Append(input, b)
  /\ UNCHANGED <<pushed, call, answer>>

Answers(p, values) == \E v \in values : answer' = [answer EXCEPT ![p] = v]

-----------------------------------------------------------------------------
(* Reading.                                                                *)

GetPushed(p) ==
  /\ call[p] = NoCall /\ pushed[p] # <<>>
  /\ pushed' = [pushed EXCEPT ![p] = <<>>]
  /\ Answers(p, AnswersFor(pushed[p][1]))
  /\ UNCHANGED <<input, call>>

Ask(p) ==
  /\ call[p] = NoCall /\ pushed[p] = <<>>
  /\ call' = [call EXCEPT ![p] = Reading(<<>>)]
  /\ answer' = [answer EXCEPT ![p] = NoAnswer]
  /\ UNCHANGED <<input, pushed>>

Deliver(p) ==
  /\ call[p] = Reading(<<>>) /\ input # <<>>
  /\ call' = [call EXCEPT ![p] = Reading(<<Head(input)>>)]
  /\ input' = Tail(input)
  /\ UNCHANGED <<pushed, answer>>

(* At the end of the input, and when reading fails.                        *)
End(p) ==
  /\ call[p] = Reading(<<>>)
  /\ call' = [call EXCEPT ![p] = Reading(<<Ended>>)]
  /\ UNCHANGED <<input, pushed, answer>>

Return(p) ==
  /\ call[p].op = "getch" /\ call[p].got # <<>>
  /\ call' = [call EXCEPT ![p] = NoCall]
  /\ Answers(p, IF call[p].got = <<Ended>> THEN {EOF} ELSE AnswersFor(call[p].got[1]))
  /\ UNCHANGED <<input, pushed>>

PushBack(p, v) ==
  /\ call[p] = NoCall
  /\ IF pushed[p] = <<>>
     THEN pushed' = [pushed EXCEPT ![p] = <<v % Word>>] /\ Answers(p, AnswersFor(v % Word))
     ELSE UNCHANGED pushed /\ Answers(p, {EOF})
  /\ UNCHANGED <<input, call>>

-----------------------------------------------------------------------------
(* Writing.                                                                *)

Say(p, form, text) ==
  /\ call[p] = NoCall
  /\ call' = [call EXCEPT ![p] = Writing(form, text, 0)]
  /\ answer' = [answer EXCEPT ![p] = NoAnswer]
  /\ UNCHANGED <<input, pushed>>

(* Whether the text was written, or the last byte of it taken for EOF.     *)
Whole(c) == c.sent = Len(c.text)
MistakenForEOF(c) == c.sent > 0 /\ c.text[c.sent] = AllOnes

Emit(p) ==
  /\ call[p].op \in Forms /\ ~ Whole(call[p]) /\ ~ MistakenForEOF(call[p])
  /\ call' = [call EXCEPT ![p].sent = @ + 1]
  /\ UNCHANGED <<input, pushed, answer>>

SaidValues(c) ==
  CASE c.op = "putch" -> IF Whole(c) THEN AnswersFor(c.text[1]) ELSE {EOF}
    [] c.op = "cputs" -> IF Whole(c) /\ ~ MistakenForEOF(c) THEN {0} ELSE {-1}
    [] c.op = "cprintf" -> {IF MistakenForEOF(c) THEN c.sent - 1 ELSE c.sent}

(* A text to be formatted first may fail to be, and nothing is written.    *)
CannotSay(p) ==
  /\ call[p] = NoCall
  /\ Answers(p, {0})
  /\ UNCHANGED <<input, pushed, call>>

Said(p) ==
  /\ call[p].op \in Forms
  /\ call' = [call EXCEPT ![p] = NoCall]
  /\ Answers(p, SaidValues(call[p]))
  /\ UNCHANGED <<input, pushed>>

-----------------------------------------------------------------------------
(* A program ends, wherever it is, and another is started in its place.    *)
Restart(p) ==
  /\ pushed' = [pushed EXCEPT ![p] = <<>>]
  /\ call' = [call EXCEPT ![p] = NoCall]
  /\ answer' = [answer EXCEPT ![p] = NoAnswer]
  /\ UNCHANGED input

Next ==
  \/ \E b \in Bytes : Type(b)
  \/ \E p \in Procs :
       \/ GetPushed(p) \/ Ask(p) \/ Deliver(p) \/ End(p) \/ Return(p)
       \/ \E v \in Ints : PushBack(p, v) \/ Say(p, "putch", <<v % Word>>)
       \/ \E form \in { "cputs", "cprintf" }, text \in Texts : Say(p, form, text)
       \/ CannotSay(p) \/ Emit(p) \/ Said(p) \/ Restart(p)

Spec == Init /\ [][Next]_vars

=============================================================================
