------------------------- MODULE AuthenticatedLoad -------------------------
(***************************************************************************)
(* What loading a signed bitstream promises, without chunks, hashes or     *)
(* memory: a stream of "total" words goes to the PL from its first word    *)
(* on, some of them perhaps foreign, that is not as they were signed; the  *)
(* PL ends empty, or configured by all of it with nothing foreign but at   *)
(* the places that are not guarded.                                        *)
(***************************************************************************)
EXTENDS Integers

VARIABLES total, unguarded, loaded, foreign, status
vars == <<total, unguarded, loaded, foreign, status>>

Places(n) == 0 .. (n - 1)

Init ==
  /\ total \in Nat /\ unguarded \subseteq Places(total)
  /\ loaded = 0 /\ foreign = {} /\ status = "loading"

Load ==
  /\ status = "loading"
  /\ loaded' \in loaded .. total
  /\ foreign' \subseteq Places(loaded')
  /\ foreign' \cap Places(loaded) = foreign
  /\ \/ status' = "loading"
     \/ status' = "configured" /\ loaded' = total /\ foreign' \subseteq unguarded
  /\ UNCHANGED <<total, unguarded>>

Refuse ==
  /\ status = "loading"
  /\ status' = "refused" /\ loaded' = 0 /\ foreign' = {}
  /\ UNCHANGED <<total, unguarded>>

Next == Load \/ Refuse
Spec == Init /\ [][Next]_vars
=============================================================================
