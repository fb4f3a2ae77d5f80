----------------------------- MODULE MCProfiles -----------------------------
(* Instances of Profiles for TLC. *)
EXTENDS Profiles, TLC

CONSTANTS ann, bob, amy, abe, one, two, three

\* ann and bob are members; two newcomers, amy and abe, ask for the same name.
AllUsers == {ann, bob, amy, abe}
TheNames == [u \in AllUsers |-> IF u \in {amy, abe} THEN "a" ELSE IF u = ann THEN "ann" ELSE "bob"]

\* bob drove ann twice, and is driving her now.
TheRides == {[id |-> i, rider |-> ann, driver |-> bob,
              status |-> IF i = three THEN "IN_PROGRESS" ELSE "COMPLETED"] : i \in {one, two, three}}

\* Enough for every overlap on one row: bob rated twice and marked, ann registering while
\* she is rated, two sign-ups.
OverlapCalls ==
    {c \in AllCalls : CASE c.op = "rate" -> c.user = ann \/ c.ride.id = one
                        [] c.op = "mark" -> c.user = bob /\ c.value
                        [] c.op \in {"register", "login"} -> c.user = ann
                        [] c.op = "signup" -> c.user \in {amy, abe}}

\* Ratings, marks and registrations.
MemberCalls == {c \in AllCalls : c.op \notin {"signup", "login"}}

Symmetries == Permutations(Tasks) \cup Permutations({amy, abe})
=============================================================================
