---------------------------- MODULE AuthHistory -----------------------------
(***************************************************************************)
(* AuthSessions with history variables that name the overlaps the code     *)
(* does nothing against, so that what it promises otherwise can be stated. *)
(***************************************************************************)
EXTENDS AuthSessions

VARIABLES
    forked,         \* families of which two requests used one token: two rotations
                    \* at once, or a logout
    wiped,          \* users whose tokens a detected replay deleted
    crowded,        \* users with two logins between the count and the new session
    raced           \* families whose login overlapped a revocation of all sessions

hvars == <<vars, forked, wiped, crowded, raced>>

\* w deletes a token to log out, or rotates one another rotation has also found
\* listed.
Forks(w) ==
    /\ At(w, "old")
    /\ \/ tx[w].op = "logout"
       \/ \E v \in Worker \ {w} : tx[v].op = "refresh" /\ tx[v].tok = tx[w].tok
                                  /\ tx[v].pc \in {"live", "old"}

\* w counts sessions while another login of the user has yet to store its own.
Crowds(w) ==
    /\ At(w, "list") /\ tx[w].op = "login"
    /\ \E v \in Worker \ {w} : tx[v].op = "login" /\ tx[v].usr = tx[w].usr
                               /\ tx[v].pc \in {"kill", "drop", "key", "index"}

\* The login of f overlaps a revocation that has already listed the sessions.
Races(f) ==
    \E w, v \in Worker :
       /\ tx[w].op = "login" /\ tx[w].fam = f
       /\ tx[v].op = "revoke_all" /\ tx[v].pc # "list" /\ tx[v].usr = Owner[f]

HInit == Init /\ forked = {} /\ wiped = {} /\ crowded = {} /\ raced = {}

Moved(w) == tx'[w] # tx[w]

HNext ==
    /\ Next
    /\ forked' = forked \cup {tx[w].fam : w \in {v \in Worker : Moved(v) /\ Forks(v)}}
    /\ wiped' = wiped \cup {tx[w].usr : w \in {v \in Worker : Moved(v) /\ At(v, "wipe")}}
    /\ crowded' = crowded \cup
         {tx[w].usr : w \in {v \in Worker : Moved(v) /\ Crowds(v)}}
    /\ raced' = raced \cup {f \in Family : Races(f)'}

HSpec == HInit /\ [][HNext]_hvars

\* Pairs of family f that a client has received.
Held(f) == {t \in held : t[1] = f}

\* A family has one refresh token that works, as the rotation intends, unless
\* two requests rotated the same token at once, each having found it listed
\* before the other deleted it, or a command failed (rotate_refresh_token).
OneLiveToken ==
    ~failed => \A f \in Family \ forked : \A s, t \in Live(f) : s = t

\* A request is treated as a replay only if its token was used before (rotated
\* into a later pair, or sent with a logout), or if an earlier replay deleted
\* all the tokens of the user (the other devices' too, whose next refresh is
\* then such a "replay"), or a command failed (rotate_refresh_token).
ReplayOnlyAfterUse ==
    \A w \in Worker : tx[w].op = "refresh" /\ At(w, "kill") =>
        \/ tx[w].tok[2] < minted[tx[w].fam] \/ tx[w].fam \in forked
        \/ tx[w].usr \in wiped \/ failed

\* A user has at most MaxSessions listed sessions, unless two logins both
\* counted before either stored its session (_enforce_max_sessions).
SessionLimit ==
    ~failed => \A u \in User \ crowded : Cardinality(Visible(u)) <= MaxSessions

\* A device that can still refresh is listed, so that its user can see it and
\* revoke it, unless its login overlapped a revocation of all the sessions.
ActiveFamilyIsListed ==
    ~failed => \A f \in Family \ raced :
        family[f] = "active" /\ Held(f) \cap refresh # {} => f \in Visible(Owner[f])

\* When DELETE /sessions has gone through the user's sessions, no device that
\* was logged in before it can refresh any more.
RevokeAllIsComplete ==
    ~failed => \A w \in Worker : At(w, "unindex") =>
        \A f \in Mine(w) \ raced : Held(f) # {} => family[f] # "active"
=============================================================================
