-------------------------- MODULE BoardRegistry --------------------------
(***************************************************************************)
(* What board_id -l promises about the configuration of the detector:      *)
(* every board is in one place or in none.  Registering the boards that    *)
(* were found puts each of them where it was found, takes the boards that  *)
(* were there before out, and moves no other board.                        *)
(***************************************************************************)
CONSTANTS Boards, Spots, Nowhere

VARIABLE place  \* [Boards -> Spots \cup {Nowhere}]

(* What a command may have found: boards, each in a spot of its own. *)
Finds(found) ==
  \A b, c \in Boards : found[b] = found[c] /\ found[b] # Nowhere => b = c

Registered(found) ==
  [b \in Boards |->
     IF found[b] # Nowhere THEN found[b]
     ELSE IF \E c \in Boards : found[c] = place[b] THEN Nowhere ELSE place[b]]

Init == /\ place \in [Boards -> Spots \cup {Nowhere}]
        /\ Finds(place)

Register ==
  \E found \in [Boards -> Spots \cup {Nowhere}] :
    Finds(found) /\ place' = Registered(found)

Spec == Init /\ [][Register]_place
=============================================================================
