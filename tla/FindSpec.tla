------------------------------ MODULE FindSpec ------------------------------
(***************************************************************************)
(* What a program may rely on when it walks directories with               *)
(* _dos_findfirst and _dos_findnext: each DTA holds one search; a search   *)
(* hands out the entries that matched when it began, each at most once and *)
(* in the order the directory had; an entry is passed over only if it does *)
(* not satisfy the search attributes, or changed while the call was        *)
(* looking at it; "no more files" is reported only when nothing is left;   *)
(* and what one DTA's search does is invisible to the others.              *)
(*                                                                         *)
(* The file system belongs to the environment, which changes it at any     *)
(* time; `touched' holds the paths it changed during the call in progress. *)
(***************************************************************************)
EXTENDS Naturals, Sequences, FiniteSets

CONSTANTS
  Dtas,         \* the disk transfer areas (struct _find_t buffers)
  Files,        \* the path names of the file system
  Kinds,        \* what a path may name: "none", a regular file ("reg", read-only
                \* "rdonly"), "dir", or "odd", a file whose modification time
                \* localtime cannot represent
  SearchAttrs   \* the attribute sets searches are made with

VARIABLES
  fs,         \* what each path names now
  touched,    \* paths changed during the call in progress
  remaining,  \* per DTA, the matches its search has not dealt with
  want,       \* per DTA, the attributes its search asks for
  found,      \* the entry the last call handed out
  outcome     \* per DTA, what the last call on it reported; "busy" during it

vars == <<fs, touched, remaining, want, found, outcome>>

Outcomes == { "none", "busy", "found", "done", "failed", "error" }
NoFile == "no file"

(* The attributes of an existing entry.                                    *)
AttrOf(kind) ==
  CASE kind = "dir" -> {"SUBDIR"}
    [] kind = "rdonly" -> {"ARCH", "RDONLY"}
    [] OTHER -> {"ARCH"}

(* A search finds the entries that have an attribute it asks for; files    *)
(* are also found by a search for nothing or for one of these attributes.  *)
Eligible(attrs, kind) ==
  /\ kind # "none"
  /\ \/ attrs \cap AttrOf(kind) # {}
     \/ kind # "dir" /\ (attrs = {} \/ attrs \cap {"HIDDEN", "RDONLY", "SUBDIR", "SYSTEM"} # {})

Searching(d) == outcome[d] = "busy"
Quiet == \A d \in Dtas : ~ Searching(d)

Init ==
  /\ fs \in [Files -> Kinds]
  /\ touched = {}
  /\ remaining = [d \in Dtas |-> <<>>]
  /\ want = [d \in Dtas |-> {}]
  /\ found = NoFile
  /\ outcome = [d \in Dtas |-> "none"]

(* Another process creates, removes or replaces a path.                    *)
Change(f, kind) ==
  /\ fs' = [fs EXCEPT ![f] = kind]
  /\ touched' = IF Quiet THEN touched ELSE touched \cup {f}
  /\ UNCHANGED <<remaining, want, found, outcome>>

(* A search begins with the entries that match its pattern now.            *)
Begin(d, matches, attrs) ==
  /\ Quiet
  /\ \A i, j \in DOMAIN matches : matches[i] = matches[j] => i = j
  /\ \A i \in DOMAIN matches : fs[matches[i]] # "none"
  /\ remaining' = [remaining EXCEPT ![d] = matches]
  /\ want' = [want EXCEPT ![d] = attrs]
  /\ outcome' = [outcome EXCEPT ![d] = "busy"]
  /\ found' = NoFile
  /\ UNCHANGED <<fs, touched>>

(* A search cannot begin; what an earlier one left is given up.            *)
BeginFails(d) ==
  /\ Quiet
  /\ remaining' = [remaining EXCEPT ![d] = <<>>]
  /\ outcome' = [outcome EXCEPT ![d] = "failed"]
  /\ found' = NoFile
  /\ UNCHANGED <<fs, touched, want>>

(* The program asks for the next entry.                                    *)
Resume(d) ==
  /\ Quiet
  /\ outcome' = [outcome EXCEPT ![d] = "busy"]
  /\ found' = NoFile
  /\ UNCHANGED <<fs, touched, remaining, want>>

Skip(d) ==
  /\ Searching(d)
  /\ remaining[d] # <<>>
  /\ LET f == Head(remaining[d])
     IN  ~ Eligible(want[d], fs[f]) \/ f \in touched
  /\ remaining' = [remaining EXCEPT ![d] = Tail(@)]
  /\ UNCHANGED <<fs, touched, want, found, outcome>>

Found(d) ==
  /\ Searching(d)
  /\ remaining[d] # <<>>
  /\ LET f == Head(remaining[d])
     IN  /\ fs[f] # "none"
         /\ Eligible(want[d], fs[f]) \/ f \in touched
         /\ found' = f
  /\ touched' = {}
  /\ remaining' = [remaining EXCEPT ![d] = Tail(@)]
  /\ outcome' = [outcome EXCEPT ![d] = "found"]
  /\ UNCHANGED <<fs, want>>

(* The next entry's time cannot be given in DOS form; the search stays     *)
(* where it is.                                                            *)
BadTime(d) ==
  /\ Searching(d)
  /\ remaining[d] # <<>>
  /\ fs[Head(remaining[d])] = "odd"
  /\ outcome' = [outcome EXCEPT ![d] = "error"]
  /\ touched' = {}
  /\ UNCHANGED <<fs, remaining, want, found>>

NoMoreFiles(d) ==
  /\ Searching(d)
  /\ remaining[d] = <<>>
  /\ outcome' = [outcome EXCEPT ![d] = "done"]
  /\ touched' = {}
  /\ UNCHANGED <<fs, remaining, want, found>>

Next ==
  \/ \E f \in Files, kind \in Kinds : Change(f, kind)
  \/ \E d \in Dtas :
       \/ \E n \in 1..Cardinality(Files) :
            \E matches \in [1..n -> Files], attrs \in SearchAttrs : Begin(d, matches, attrs)
       \/ BeginFails(d) \/ Resume(d)
       \/ Skip(d) \/ Found(d) \/ BadTime(d) \/ NoMoreFiles(d)

Spec == Init /\ [][Next]_vars

=============================================================================
