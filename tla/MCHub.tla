------------------------------- MODULE MCHub -------------------------------
(***************************************************************************)
(* Instances of Hub: which account and which device each connection uses.  *)
(***************************************************************************)
EXTENDS Hub, TLC

CONSTANTS c1, c2, c3, ann, bob, desktop, zentaoweb, other

AllDevices == {desktop, zentaoweb, other}
AllPlats == {desktop, zentaoweb}

\* everybody is the same user at the desktop
SameUser == [c \in Conns |-> ann]
AllDesktop == [c \in Conns |-> desktop]

\* several browser sessions of one user
AllWeb == [c \in Conns |-> zentaoweb]

\* a second user on an unknown device
AlsoBob == [c \in Conns |-> IF c = c3 THEN bob ELSE ann]
OneOther == [c \in Conns |-> IF c = c3 THEN other ELSE desktop]

\* sound for invariants: c1 and c2 use one account and one device
EitherConn == Permutations({c1, c2})
=============================================================================
