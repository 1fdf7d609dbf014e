----------------------------- MODULE StreamFind ------------------------------
(***************************************************************************)
(* Stream::findMulti, under find and findUntil: it reads a stream letter   *)
(* by letter until one of several targets has come, or a time-out.  Of     *)
(* each target it keeps only how much has matched; where a letter does not *)
(* go on with a match, it walks back to a shorter one.                     *)
(***************************************************************************)
EXTENDS Naturals, Sequences, FiniteSetsExt

CONSTANTS
    Letters,    \* what comes, and what targets are made of
    Searches,   \* the searches made: each a sequence of targets
    Kept        \* how many letters the history keeps

ASSUME FindAssumption ==
    /\ Kept \in Nat
    /\ \A s \in Searches : s \in Seq(Seq(Letters)) /\ s # <<>>
    /\ \A s \in Searches : \A i \in DOMAIN s : Len(s[i]) <= Kept

VARIABLES
    targets, index,     \* the targets' str and index
    searching,          \* findMulti reads
    found,              \* what it returned, counted from 1 (0 for its -1)
    recent              \* the letters read since the call began, the last Kept

fvars == <<targets, index, searching, found, recent>>

FInit == targets = <<>> /\ index = <<>> /\ searching = FALSE /\ found = 0 /\ recent = <<>>

(* A target without letters is found at once.                              *)
Find(search) ==
    /\ targets = <<>> /\ targets' = search
    /\ index' = [i \in DOMAIN search |-> 0]
    /\ LET Empty == {i \in DOMAIN search : search[i] = <<>>}
       IN  /\ searching' = (Empty = {})
           /\ found' = IF Empty = {} THEN 0 ELSE Min(Empty)
    /\ UNCHANGED recent

(* Mutant: a letter that does not go on with the match starts anew.        *)
Advance_anew(str, k, c) ==
    IF c = str[k + 1] THEN k + 1 ELSE IF c = str[1] THEN 1 ELSE 0

(* k letters of str have matched; now c.  Walking back, the first shorter  *)
(* match that c goes on with and whose letters are those that matched.     *)
Advance(str, k, c) ==
    LET Fits == {i \in 0 .. k - 1 :
                   c = str[i + 1] /\ \A j \in 1 .. i : str[j] = str[j + (k - i)]}
    IN  IF c = str[k + 1] THEN k + 1
        ELSE IF Fits = {} THEN 0 ELSE Max(Fits) + 1

Keep(s) == IF Len(s) > Kept THEN Tail(s) ELSE s

(* Mutant: the last target that is complete is returned.                   *)
FindRead_last(c) ==
    LET next == [i \in DOMAIN targets |-> Advance(targets[i], index[i], c)]
        Full == {i \in DOMAIN targets : next[i] = Len(targets[i])}
    IN  /\ searching /\ searching' = (Full = {})
        /\ found' = (IF Full = {} THEN 0 ELSE Max(Full)) /\ index' = next
        /\ recent' = Keep(Append(recent, c)) /\ UNCHANGED targets

(* One letter, for the targets in their order, up to one that is complete. *)
FindRead(c) ==
    LET next == [i \in DOMAIN targets |-> Advance(targets[i], index[i], c)]
        Full == {i \in DOMAIN targets : next[i] = Len(targets[i])}
    IN  /\ searching /\ recent' = Keep(Append(recent, c)) /\ UNCHANGED targets
        /\ \/ Full = {} /\ index' = next /\ UNCHANGED <<searching, found>>
           \/ /\ Full # {} /\ found' = Min(Full) /\ searching' = FALSE
              /\ index' = [i \in DOMAIN targets |-> IF i <= found' THEN next[i] ELSE index[i]]

(* timedRead: nothing has come for the length of the time-out.             *)
FindTimesOut == searching /\ searching' = FALSE /\ UNCHANGED <<targets, index, found, recent>>

FindReturn ==
    /\ targets # <<>> /\ ~ searching
    /\ targets' = <<>> /\ index' = <<>> /\ found' = 0 /\ recent' = <<>>
    /\ UNCHANGED searching

FNext ==
    \/ (\E s \in Searches : Find(s)) \/ (\E c \in Letters : FindRead(c))
    \/ FindTimesOut \/ FindReturn

FSpec == FInit /\ [][FNext]_fvars
-----------------------------------------------------------------------------
(* The first k letters of str are the last that came.                      *)
JustCame(str, k) ==
    k <= Len(recent) /\ \A j \in 1 .. k : str[j] = recent[Len(recent) - k + j]

(* What is kept of each target is the longest part of it that the letters  *)
(* just read begin: a match is not lost by walking back ('1112' in         *)
(* '11112', Stream.cpp:280), and none has been passed over.                *)
LongestMatchKept == searching => \A i \in DOMAIN targets :
    /\ index[i] = Max({k \in 0 .. Len(targets[i]) - 1 : JustCame(targets[i], k)})
    /\ ~ JustCame(targets[i], Len(targets[i]))

(* The target returned has just come whole, and no target before it in the *)
(* list has; -1 is returned only when none has.                            *)
FirstTargetFound ==
    targets # <<>> /\ ~ searching =>
        LET Whole == {i \in DOMAIN targets : JustCame(targets[i], Len(targets[i]))}
        IN  found = IF Whole = {} THEN 0 ELSE Min(Whole)
=============================================================================
