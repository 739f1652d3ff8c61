---------------------------- MODULE MCScheduler ----------------------------
(* Small instances of Scheduler: two channels, one or two lists of them.   *)
EXTENDS Scheduler, TLC

CONSTANTS u1, c1, c2, r1, r2, r3, r4

Channel(id, prio, promo) ==
    [id |-> id, priority |-> prio, disabled |-> FALSE, promotion |-> promo]
Disabled(ch) == [ch EXCEPT !.disabled = TRUE]

MCSameUser == [r \in Requests |-> {u1}]
MCOneUser  == [r \in Requests |-> IF r = r1 THEN {u1} ELSE {NoUser}]
MCNoUsers  == [r \in Requests |-> {NoUser}]

MCOneChannel == {<<Channel(c1, 0, FALSE)>>}
MCPromotion  == {<<Channel(c1, 0, FALSE), Channel(c2, 0, TRUE)>>}
\* A channel is deleted, and the one after it takes its place.
MCDeletion   == {<<Channel(c1, 0, FALSE), Channel(c2, 0, TRUE)>>,
                 <<Channel(c2, 0, FALSE)>>}
MCInPlace    == {<<Channel(c1, 0, FALSE), Channel(c2, 0, TRUE)>>,
                 <<Disabled(Channel(c1, 0, FALSE)), Channel(c2, 0, FALSE)>>}
=============================================================================
