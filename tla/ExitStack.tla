----------------------------- MODULE ExitStack -----------------------------
(***************************************************************************)
(* The exit cleanup stack of libc/stdlib.c and libc/process.c: atexit,     *)
(* _fatexit, _onexit and _fonexit register a function with the C library   *)
(* of the system and push it on a fixed-size stack; exit leaves the calls  *)
(* to the C library, _cexit makes them itself from the stack and returns,  *)
(* _exit makes none.                                                       *)
(*                                                                         *)
(* A function being called back may register others, call exit, or call    *)
(* _cexit.  A registration is known by its number, so that the same        *)
(* function registered twice counts twice.  The four kinds of entry differ *)
(* only in their calling convention and are not told apart.                *)
(*                                                                         *)
(* FullNever, PushesAnyway, MoreEntriesPreDecremented and                  *)
(* DecrementedSigned are plausible mistakes in the definition that follows *)
(* each; Next does not use them.                                           *)
(***************************************************************************)
EXTENDS Naturals, Sequences

CONSTANTS
  Size,      \* EXIT_CLEANUP_STACK_SIZE
  Word,      \* SIZE_MAX + 1
  MaxRegs,   \* bound on registrations
  MaxDepth,  \* bound on exit and _cexit calls in progress at once
  MaxCexits  \* bound on _cexit calls

ASSUME SizeAssumption == Size \in Nat \ {0} /\ Word \in Nat /\ Word > Size + 1
ASSUME BoundAssumption == MaxRegs \in Nat /\ MaxDepth \in Nat /\ MaxCexits \in Nat

VARIABLES
  stack,   \* _dosix__exit_cleanup_stack
  top,     \* _dosix__exit_cleanup_stack_top, a size_t
  list,    \* the functions the C library has still to call, newest last
  frames,  \* exit and _cexit calls in progress, innermost last
  pc,      \* where the innermost of them is, or how the program ended
  count,   \* registrations made so far
  runs,    \* per registration, how many times its function was called
  cexits   \* calls of _cexit begun so far (bounded by MaxCexits)

vars == <<stack, top, list, frames, pc, count, runs, cexits>>

Frames == { "exit", "cexit" }
Ends == { "exited", "aborted", "crashed" }
Points == { "main", "loop", "handler", "close" } \cup Ends
Empty == 0                \* an unused slot; registrations count from 1

Innermost == frames[Len(frames)]
InFrame(f) == frames # <<>> /\ Innermost = f
Exiting == \E i \in DOMAIN frames : frames[i] = "exit"

(* The program's own code runs: its main line, or a function called back.  *)
Running == pc \in { "main", "handler" }

Init ==
  /\ stack = [i \in 0..Size-1 |-> Empty]
  /\ top = 0
  /\ list = <<>>
  /\ frames = <<>>
  /\ pc = "main"
  /\ count = 0
  /\ runs = [r \in 1..MaxRegs |-> 0]
  /\ cexits = 0

-----------------------------------------------------------------------------
(* register_cleanup.                                                       *)

AssertionHolds == top <= Size

FullNever == FALSE
Full == top = Size

(* The assertion on the top of the stack fails and stops the program.      *)
RegisterAborts ==
  /\ Running /\ count < MaxRegs
  /\ ~ AssertionHolds
  /\ pc' = "aborted"
  /\ UNCHANGED <<stack, top, list, frames, count, runs, cexits>>

(* The stack is full: 1 is returned and nothing registered.                *)
RegisterFull ==
  /\ Running /\ count < MaxRegs
  /\ AssertionHolds /\ Full
  /\ UNCHANGED vars

(* The C library's atexit adds the function to its list, or has no memory  *)
(* for it and fails; the entry is pushed if it was added.  A push outside  *)
(* the array would overwrite what follows it.                              *)
PushesAnyway(added) == TRUE
Pushes(added) == added

Register ==
  /\ Running /\ count < MaxRegs
  /\ AssertionHolds /\ ~ Full
  /\ \E added \in BOOLEAN :
       /\ list' = IF added THEN Append(list, count + 1) ELSE list
       /\ IF ~ Pushes(added)
            THEN UNCHANGED <<stack, top, pc, count>>
          ELSE IF top \notin DOMAIN stack
            THEN pc' = "crashed" /\ UNCHANGED <<stack, top, count>>
          ELSE /\ stack' = [stack EXCEPT ![top] = count + 1]
               /\ top' = top + 1
               /\ count' = count + 1
               /\ UNCHANGED pc
  /\ UNCHANGED <<frames, runs, cexits>>

-----------------------------------------------------------------------------
(* exit, _exit and _cexit.  A function called back by exit does not call   *)
(* exit again (that is undefined), one called back by _cexit may.          *)

Exit ==
  /\ Running /\ ~ Exiting /\ Len(frames) < MaxDepth
  /\ frames' = Append(frames, "exit")
  /\ pc' = "loop"
  /\ UNCHANGED <<stack, top, list, count, runs, cexits>>

ExitAtOnce ==
  /\ Running
  /\ pc' = "exited"
  /\ UNCHANGED <<stack, top, list, frames, count, runs, cexits>>

CExit ==
  /\ Running /\ Len(frames) < MaxDepth /\ cexits < MaxCexits
  /\ frames' = Append(frames, "cexit")
  /\ pc' = "loop"
  /\ cexits' = cexits + 1
  /\ UNCHANGED <<stack, top, list, count, runs>>

Call(r) ==
  /\ runs' = [runs EXCEPT ![r] = @ + 1]
  /\ pc' = "handler"

(* The C library calls the newest function of its list, having taken it    *)
(* off; with none left the program ends.                                   *)
ExitCallsNext ==
  /\ pc = "loop" /\ InFrame("exit") /\ list # <<>>
  /\ Call(list[Len(list)])
  /\ list' = SubSeq(list, 1, Len(list) - 1)
  /\ UNCHANGED <<stack, top, frames, count, cexits>>

ExitEnds ==
  /\ pc = "loop" /\ InFrame("exit") /\ list = <<>>
  /\ pc' = "exited"
  /\ UNCHANGED <<stack, top, list, frames, count, runs, cexits>>

(* The test of the loop of _cexit, `top-- > 0': the top is decremented,    *)
(* modulo the word, even by the test that ends the loop.                   *)
MoreEntriesPreDecremented == top > 1
MoreEntries == top > 0
DecrementedSigned == top - 1
Decremented == (top + Word - 1) % Word

(* The entry under the old top is called.  Outside the array it is what    *)
(* memory holds there, and calling that stops the program.                 *)
CExitCallsNext ==
  /\ pc = "loop" /\ InFrame("cexit") /\ MoreEntries
  /\ top' = Decremented
  /\ IF top' \in DOMAIN stack /\ stack[top'] # Empty
       THEN Call(stack[top'])
       ELSE pc' = "crashed" /\ UNCHANGED runs
  /\ UNCHANGED <<stack, list, frames, count, cexits>>

CExitLoopEnds ==
  /\ pc = "loop" /\ InFrame("cexit") /\ ~ MoreEntries
  /\ top' = Decremented
  /\ pc' = "close"
  /\ UNCHANGED <<stack, list, frames, count, runs, cexits>>

(* A call in progress comes back to the code that made it.                 *)
Resumed(fs) == IF fs = <<>> THEN "main" ELSE "handler"

(* fflush and _c_exit, whose errors are ignored, and back to the caller.   *)
CExitReturns ==
  /\ pc = "close"
  /\ frames' = SubSeq(frames, 1, Len(frames) - 1)
  /\ pc' = Resumed(frames')
  /\ UNCHANGED <<stack, top, list, count, runs, cexits>>

HandlerReturns ==
  /\ pc = "handler"
  /\ pc' = "loop"
  /\ UNCHANGED <<stack, top, list, frames, count, runs, cexits>>

-----------------------------------------------------------------------------
LoopStep == ExitCallsNext \/ ExitEnds \/ CExitCallsNext \/ CExitLoopEnds \/ CExitReturns

Next ==
  \/ RegisterAborts \/ RegisterFull \/ Register
  \/ Exit \/ ExitAtOnce \/ CExit
  \/ HandlerReturns \/ LoopStep

(* The library's loops run, and the functions called back return.          *)
Spec == Init /\ [][Next]_vars /\ WF_vars(LoopStep) /\ WF_vars(HandlerReturns)

-----------------------------------------------------------------------------
(* Properties.                                                             *)

(* The top of the stack is a size_t, the stack an array of Size entries.   *)
TypeOK ==
  /\ stack \in [0..Size-1 -> 0..MaxRegs]
  /\ top \in 0..Word-1
  /\ list \in Seq(1..MaxRegs)
  /\ frames \in Seq(Frames)
  /\ pc \in Points
  /\ count \in 0..MaxRegs
  /\ runs \in [1..MaxRegs -> Nat]
  /\ cexits \in 0..MaxCexits

(* Until the program first calls _cexit, exit or a function it calls back, *)
(* the stack and the C library's list hold the same registrations in the   *)
(* same order, whichever registrations failed: _cexit and exit would make  *)
(* the same calls.                                                         *)
StackMirrorsLibc ==
  frames = <<>> /\ cexits = 0 /\ pc \in {"main", "exited"} =>
    /\ top = Len(list)
    /\ \A i \in 1..top : stack[i - 1] = list[i]

(* The stack never runs over, and its assertion never fails, in a program  *)
(* that does not call _cexit.                                              *)
FailsOnlyAfterCexit == pc \in {"aborted", "crashed"} => cexits > 0

(* When exit ends a program that never called _cexit, or the first _cexit  *)
(* of a program comes to the end of its loop, every function registered    *)
(* until then, by the functions called back too, has been called once.     *)
EachCalledOnce ==
  /\ cexits = 0 /\ Exiting /\ pc = "exited" /\ list = <<>>
       => \A r \in 1..count : runs[r] = 1
  /\ cexits = 1 /\ frames = <<"cexit">> /\ pc = "close"
       => \A r \in 1..count : runs[r] = 1

(* exit, and the first _cexit, call a function only when every one         *)
(* registered after it has been called, one registered meanwhile by a      *)
(* function called back included.                                          *)
NewestFirst ==
  [][ \A r \in 1..count :
        /\ runs'[r] # runs[r]
        /\ cexits = 0 \/ (cexits = 1 /\ frames = <<"cexit">>)
        => \A s \in r+1..count : runs[s] = 1 ]_vars

(* exit ends the program although the functions it calls may register      *)
(* others: it does not take entries off the stack, which fills up.         *)
ExitEndsProgram == (Exiting /\ cexits = 0) ~> (pc = "exited" \/ cexits > 0)

=============================================================================
