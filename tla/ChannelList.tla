----------------------------- MODULE ChannelList -----------------------------
(***************************************************************************)
(* TS3Channels::getChannelList, which lists the branch of a channel for the *)
(* trees of the configuration dialog.  The rows come in any order; the list *)
(* is put in the server's order by the ordering column, which names the     *)
(* sibling a channel comes after, or 0 for the first one.                   *)
(*                                                                         *)
(* No other statement reads that column, so it is not a part of the tables  *)
(* of ChannelDb but an argument here: channel -> what the server says.      *)
(***************************************************************************)
EXTENDS TS3Channels, SequencesExt

\* "sort": every channel with its place in the chain of siblings it is in.
SortRows(D, ordering) ==
    LET at[n \in 0 .. Cardinality(Loaded(D))] ==
            IF n = 0 THEN {CHANNEL_ROOT}
            ELSE {c \in Loaded(D) \ {CHANNEL_ROOT} : ordering[c] \in at[n - 1]}
    IN  UNION {at[n] \X {n} : n \in DOMAIN at}

\* Slip: the channel's place is put in front of its parent's path.
TreeRowsPrepended(D, ordering, root) ==
    LET sort == SortRows(D, ordering)
        below[n \in 0 .. Cardinality(Loaded(D))] ==
            IF n = 0 THEN {<<r[1], <<r[2]>>>> : r \in {x \in sort : x[1] = root}}
            ELSE UNION {{<<r[1], <<r[2]>> \o t[2]>> :
                            r \in {x \in sort : /\ x[1] # CHANNEL_ROOT
                                                /\ D.channels[x[1]].parent = t[1]}} :
                        t \in below[n - 1]}
    IN  UNION {below[n] : n \in DOMAIN below}

\* "tree": the channels below root, each with the places on the way down to it.
TreeRows(D, ordering, root) ==
    LET sort == SortRows(D, ordering)
        below[n \in 0 .. Cardinality(Loaded(D))] ==
            IF n = 0 THEN {<<r[1], <<r[2]>>>> : r \in {x \in sort : x[1] = root}}
            ELSE UNION {{<<r[1], Append(t[2], r[2])>> :
                            r \in {x \in sort : /\ x[1] # CHANNEL_ROOT
                                                /\ D.channels[x[1]].parent = t[1]}} :
                        t \in below[n - 1]}
    IN  UNION {below[n] : n \in DOMAIN below}

\* "order by path": the places are padded to one width, so text order is this.
PathBefore(s, t) ==
    \/ IsStrictPrefix(s[2], t[2])
    \/ \E k \in DOMAIN s[2] \cap DOMAIN t[2] :
          /\ s[2][k] < t[2][k]
          /\ \A i \in 1 .. k - 1 : s[2][i] = t[2][i]

\* "order by": every row behind the rows before it.  No two rows have one path.
InPathOrder(rows) ==
    [i \in 1 .. Cardinality(rows) |->
        CHOOSE row \in rows : Cardinality({r \in rows : PathBefore(r, row)}) = i - 1]

GetChannelList(D, ordering, root) ==
    LET rows == InPathOrder(TreeRows(D, ordering, root))
    IN  [i \in DOMAIN rows |-> [channel |-> rows[i][1], depth |-> Len(rows[i][2]) - 1]]

-----------------------------------------------------------------------------
(***************************************************************************)
(* The orders a server may give: any order of the channels decides which    *)
(* sibling comes after which.                                               *)
(***************************************************************************)
ServerOrders(D) ==
    LET After(order, c) ==
            LET earlier == {i \in DOMAIN order :
                              /\ D.channels[order[i]].parent = D.channels[c].parent
                              /\ \E k \in DOMAIN order : k > i /\ order[k] = c}
            IN  IF earlier = {} THEN CHANNEL_ROOT ELSE order[Max(earlier)]
        channels == Loaded(D) \ {CHANNEL_ROOT}
    IN  {[c \in channels |-> After(order, c)] : order \in SetToSeqs(channels)}

\* Every loaded channel is linked to its parent.
Complete(D) ==
    \A c \in Loaded(D) \ {CHANNEL_ROOT} : <<D.channels[c].parent, c, 1>> \in D.closure

(***************************************************************************)
(* When no channel is missing, the list of a channel shows what the closure *)
(* table knows of its branch, each channel once and at its true depth, with *)
(* its branch right behind it and after the siblings the server puts first. *)
(***************************************************************************)
Lists(list, ordering, root) ==
    /\ {<<root, e.channel, e.depth>> : e \in ToSet(list)} = {r \in db.closure : r[1] = root}
    /\ Len(list) = Cardinality(Branch(db.closure, root))
    /\ \A i \in DOMAIN list, j \in DOMAIN list :
          i < j =>
            /\ list[j].channel \in Branch(db.closure, list[i].channel)
                 <=> \A k \in i + 1 .. j : list[k].depth > list[i].depth
            /\ list[i].channel # CHANNEL_ROOT => ordering[list[i].channel] # list[j].channel

ListShowsTree ==
    Complete(db) =>
        \A ordering \in ServerOrders(db), root \in Loaded(db) :
            Lists(GetChannelList(db, ordering, root), ordering, root)
=============================================================================
