---------------------------- MODULE ChannelForest ----------------------------
(***************************************************************************)
(* What the tables of ChannelDb promise: a forest of loaded channels, each  *)
(* knowing at most the channel directly above it.  A channel loaded before  *)
(* its parent is a tree of its own, and stays one until it is loaded again. *)
(* Removing or reloading a channel takes everything below it along.         *)
(***************************************************************************)
EXTENDS Integers, FiniteSets

CONSTANTS Channel, CHANNEL_ROOT, NoLink

VARIABLE link   \* loaded channel -> the loaded channel above it, or NoLink

Node == Channel \cup {CHANNEL_ROOT}

(***************************************************************************)
(* Up(l, c)[k] is the k-th ancestor of c.  Paths are shorter than the       *)
(* number of nodes in any forest.                                           *)
(***************************************************************************)
Up(l, c) ==
    LET up[k \in 0 .. Cardinality(Node)] ==
          IF k = 0 THEN c
          ELSE IF up[k - 1] \in DOMAIN l THEN l[up[k - 1]] ELSE NoLink
    IN  up

IsAbove(l, a, c) == \E k \in DOMAIN Up(l, c) : Up(l, c)[k] = a

Depth(l, a, c) == CHOOSE k \in DOMAIN Up(l, c) :
                      /\ Up(l, c)[k] = a
                      /\ \A j \in 0 .. (k - 1) : Up(l, c)[j] # a

Below(l, a) == {c \in DOMAIN l : IsAbove(l, a, c)}

Without(l, ch) == [c \in DOMAIN l \ Below(l, ch) |-> l[c]]

With(l, ch, parent) ==
    [c \in DOMAIN l \cup {ch} |->
        IF c # ch THEN l[c] ELSE IF parent \in DOMAIN l THEN parent ELSE NoLink]

EmptyForest == [c \in {CHANNEL_ROOT} |-> NoLink]

Init == link = EmptyForest

Forget == link' = EmptyForest

Remove(ch) == link' = Without(link, ch)

Load(ch, parent) == link' = With(Without(link, ch), ch, parent)

Next == \/ Forget
        \/ \E ch \in Channel : Remove(ch)
        \/ \E ch \in Channel : \E parent \in Node \ {ch} : Load(ch, parent)

Spec == Init /\ [][Next]_link

(***************************************************************************)
(* The station a lookup promises: of the stations in the same part of the   *)
(* forest under root, the ones the fewest steps away by way of the closest  *)
(* common ancestor, and of those the ones the fewest steps below it.        *)
(***************************************************************************)
Meeting(l, current, s) ==
    CHOOSE a \in DOMAIN l :
        /\ IsAbove(l, a, current) /\ IsAbove(l, a, s)
        /\ \A b \in DOMAIN l : (IsAbove(l, b, current) /\ IsAbove(l, b, s))
                                  => IsAbove(l, b, a)

Steps(l, current, s) ==
    LET a == Meeting(l, current, s)
    IN  [distance |-> Depth(l, a, current) + Depth(l, a, s),
         removed  |-> Depth(l, a, s)]

Nearest(l, stations, current, root) ==
    LET reach == IF IsAbove(l, root, current)
                 THEN {s \in stations : s \in DOMAIN l /\ IsAbove(l, root, s)} ELSE {}
        Closer(s, t) == LET p == Steps(l, current, s)
                            q == Steps(l, current, t)
                        IN  \/ p.distance < q.distance
                            \/ p.distance = q.distance /\ p.removed < q.removed
    IN  {s \in reach : \A t \in reach : ~ Closer(t, s)}
=============================================================================
