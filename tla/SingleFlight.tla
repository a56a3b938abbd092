---------------------------- MODULE SingleFlight ----------------------------
(***************************************************************************)
(* What getChunk of either range reader promises: of the callers that miss *)
(* a chunk one fetches it, the others wait for that one, and the end of    *)
(* its fetch lets go of all of them at once.                               *)
(***************************************************************************)
CONSTANTS Callers, Chunks, NoChunk

VARIABLES
  fetches,  \* the chunk each caller fetches, or NoChunk
  awaits    \* the chunk whose fetch it waits for, or NoChunk

Flying == {fetches[g] : g \in Callers} \ {NoChunk}

Free(g) == fetches[g] = NoChunk /\ awaits[g] = NoChunk

Init ==
  /\ fetches = [g \in Callers |-> NoChunk]
  /\ awaits = [g \in Callers |-> NoChunk]

Begin(g, c) ==
  /\ Free(g) /\ c \notin Flying
  /\ fetches' = [fetches EXCEPT ![g] = c]
  /\ UNCHANGED awaits

Await(g, c) ==
  /\ Free(g) /\ c \in Flying
  /\ awaits' = [awaits EXCEPT ![g] = c]
  /\ UNCHANGED fetches

GiveUp(g) ==
  /\ awaits[g] # NoChunk
  /\ awaits' = [awaits EXCEPT ![g] = NoChunk]
  /\ UNCHANGED fetches

End(g) ==
  /\ fetches[g] # NoChunk
  /\ fetches' = [fetches EXCEPT ![g] = NoChunk]
  /\ awaits' = [h \in Callers |->
                  IF awaits[h] = fetches[g] THEN NoChunk ELSE awaits[h]]

Next ==
  \E g \in Callers :
    \/ \E c \in Chunks : Begin(g, c) \/ Await(g, c)
    \/ GiveUp(g) \/ End(g)

Spec == Init /\ [][Next]_<<fetches, awaits>>
=============================================================================
