------------------------------ MODULE HalImage ------------------------------
(* What a2h_patch promises of the bytes in the audio HAL: a run installs    *)
(* everything that was asked for, or changes nothing, or says that it has   *)
(* failed to do either; then every site holds its old bytes, those asked    *)
(* for, or a part of a write.                                               *)
CONSTANTS
    Request,
    Start,              \* generations that may be there at first
    Left(_),            \* ... and their images
    Installed(_, _),    \* the image after a request was installed over another
    None, Torn

VARIABLES image, told   \* told: exit status, and what was said of the rollback

Init ==
    /\ \E generation \in Start : image = Left(generation)
    /\ told = [rc |-> 2, rollback |-> None]

Install == \E r \in Request :
    image' = Installed(image, r) /\ told' = [rc |-> 0, rollback |-> None]

Refuse ==
    /\ UNCHANGED image
    /\ told' \in [rc : {1, 2}, rollback : {None}] \cup [rc : {1}, rollback : {"OK"}]

Break == \E r \in Request :
    /\ \A s \in DOMAIN image : image'[s] \in {image[s], Installed(image, r)[s], Torn}
    /\ DOMAIN image' = DOMAIN image
    /\ told' \in {[rc |-> 1, rollback |-> "FAIL"], [rc |-> 137, rollback |-> None]}

Next == Install \/ Refuse \/ Break

Spec == Init /\ [][Next]_<<image, told>>
=============================================================================
