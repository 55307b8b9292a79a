----------------------------- MODULE MCWebClient ------------------------------
(* Instance of WebClient for TLC: requests, users and networks are interchangeable; three wheels can be      *)
(* spun, one with a prize twice, and one does not add up.                                         *)
EXTENDS WebClient

CONSTANTS p1, p2

AnyName == Permutations(Call) \cup Permutations(User) \cup Permutations(Network)

Slice(prize, size) == [prize |-> prize, size |-> size]

SmallWheels == << <<Slice(p1, 10), Slice(p2, 10)>>,
                  <<Slice(p2, 5), Slice(p1, 7), Slice(p2, 8)>>,
                  <<Slice(p1, 15)>> >>
=============================================================================
