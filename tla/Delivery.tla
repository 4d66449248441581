------------------------------ MODULE Delivery ------------------------------
(* What download() promises its caller about the output path                *)
(* (src/README.md:15-20, tdm/engine.py:1-10): at any time there is nothing  *)
(* or one file there; a call that returns has put the whole of what its URL *)
(* serves in place, in one step; one that raises or is killed has done that *)
(* or has left the path alone.  How bytes get there is not its business.    *)
EXTENDS Naturals

CONSTANTS
  Resources, Urls, UrlOf, SizeOf,  \* as in Engine
  None                             \* no file, no goal

VARIABLES
  served,  \* served[u]: the resource URL u serves now
  file,    \* what is at the path
  stage,   \* of a call, "fetching" or "published"; else how the last has ended
  goal     \* the URL of the call, and whether the server announced a size

vars == <<served, file, stage, goal>>

NoCall == stage \in {"none", "done", "failed"}

Init ==
  /\ served \in [Urls -> Resources]
  /\ file = None /\ stage = "none" /\ goal = None

Begin(u, sized) ==
  /\ NoCall
  /\ stage' = "fetching" /\ goal' = [url |-> u, sized |-> sized]
  /\ UNCHANGED <<served, file>>

(* Where no size was announced, the end of the body is the end of the file. *)
Copies(r, sized) ==
  {[b \in 0..(n - 1) |-> r] : n \in IF sized THEN {SizeOf[r]} ELSE 0..SizeOf[r]}

Publish ==
  /\ stage = "fetching" /\ stage' = "published"
  /\ file' \in Copies(served[goal.url], goal.sized)
  /\ UNCHANGED <<served, goal>>

Return ==
  /\ stage = "published" /\ stage' = "done" /\ goal' = None
  /\ UNCHANGED <<served, file>>

Fail ==
  /\ ~NoCall /\ stage' = "failed" /\ goal' = None
  /\ UNCHANGED <<served, file>>

NewVersion ==
  /\ NoCall
  /\ \E r \in Resources : served' = [served EXCEPT ![UrlOf[r]] = r]
  /\ UNCHANGED <<file, stage, goal>>

Next ==
  \/ \E u \in Urls, sized \in BOOLEAN : Begin(u, sized)
  \/ Publish \/ Return \/ Fail \/ NewVersion

Spec == Init /\ [][Next]_vars
=============================================================================
