----------------------- MODULE MCNotificationService -----------------------
(* Instances of NotificationService for TLC. *)
EXTENDS NotificationService, TLC

\* All sessions and notifications belong to one user.
OneUser == [s \in Session |-> CHOOSE u \in User : TRUE]
OneOwner == [n \in Notification |-> CHOOSE u \in User : TRUE]

\* A missing parameter, and a value beyond the maximum.
SomeLimits == {0, 5}

\* A missing parameter, and a value that is not one of the known limits.
OddLimit == {0, 2}

Symmetry == Permutations(Notification)
=============================================================================
