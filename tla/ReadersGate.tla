---------------------------- MODULE ReadersGate ----------------------------
(***************************************************************************)
(* What the shared file handle of a TempFileStore promises its users: the  *)
(* handle is used by any number of ReadAt calls at once, it is shut at     *)
(* most once, and it is shut only while nobody is using it.  How the store *)
(* keeps the promise (a closing flag, a WaitGroup and two checks of the    *)
(* flag) is the business of TempFileStore, which implements this module.   *)
(***************************************************************************)
CONSTANT Users

VARIABLES open,  \* the handle has not been shut
          using  \* the users inside a system call on the handle

vars == <<open, using>>

Init == open = TRUE /\ using = {}

Acquire(u) == /\ open
              /\ u \notin using
              /\ using' = using \cup {u}
              /\ UNCHANGED open

Release(u) == /\ u \in using
              /\ using' = using \ {u}
              /\ UNCHANGED open

Shut == /\ open
        /\ using = {}
        /\ open' = FALSE
        /\ UNCHANGED using

Next == \/ \E u \in Users : Acquire(u) \/ Release(u)
        \/ Shut

Spec == Init /\ [][Next]_vars
=============================================================================
