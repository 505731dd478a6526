---------------------------- MODULE MCGroupChat ----------------------------
(* Instances of GroupChat: ann owns the group, bob is a member, cat is not. *)
EXTENDS GroupChat, TLC

CONSTANTS ann, bob, cat, r1, r2

Ask(kind, by, users, msgs) ==
  [kind |-> kind, by |-> by, users |-> users, msgs |-> msgs]

AllKinds ==
  {Ask("join", cat, {cat}, {}),
   Ask("invite", bob, {bob, cat}, {}),
   Ask("leave", bob, {bob}, {}),
   Ask("kick", ann, {ann, bob}, {}),
   Ask("kick", ann, {ann}, {}),
   Ask("dismiss", ann, {}, {}),
   Ask("rename", ann, {}, {}),
   Ask("pin", ann, {}, {2}),
   Ask("unpin", ann, {}, {1}),
   Ask("getmembers", bob, {}, {})}

\* the goroutines are interchangeable
EitherRequest == Permutations(Reqs)
=============================================================================
