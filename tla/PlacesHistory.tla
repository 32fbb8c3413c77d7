--------------------------- MODULE PlacesHistory ----------------------------
(***************************************************************************)
(* PlacesSync keeps the promises of PlacesBoard.  The board is the node    *)
(* Places, the lists are Places.sharedInstance.places, and the history     *)
(* variable `posted' collects what was ever on its way to the database or  *)
(* in it.  Nothing in PlacesSync depends on it.                            *)
(***************************************************************************)
EXTENDS PlacesSync

VARIABLE posted

historyVars == <<vars, posted>>

\* The records of a place that the database or an unsent write holds.
WritesOf(d, k) == {i \in DOMAIN sending[d] : sending[d][i].key = k}
Written(k) ==
    {rec \in {server[k]} : rec # None}
      \cup UNION {{sending[d][i].rec : i \in WritesOf(d, k)} : d \in Devices}

HistoryInit == Init /\ posted = [k \in Keys |-> {}]

HistoryNext ==
    /\ Next
    /\ posted' = [k \in Keys |-> posted[k] \cup Written(k)']

HistorySpec == HistoryInit /\ [][HistoryNext]_historyVars

\* The network comes back, and the main queues are served.
FairHistorySpec == HistorySpec /\ Fairness

Everybody == Users \cup {None}

\* What a visit or a rating makes of a record, and what an edit does.
Made(rec) ==
    {Visited(rec, VisitorName(rec, u, None)) :
        u \in {v \in Everybody : IsNewVisitor(rec, VisitorName(rec, v, None))}}
      \cup {Rated(rec, RaterName(rec, u, None), stars) :
              u \in Everybody, stars \in Stars}

Edited(rec, info) == [rec EXCEPT !.info = info]

Board == INSTANCE PlacesBoard WITH board <- server, lists <- places

\* Every step of the devices, the network and the console is one post, one
\* record becoming known, a list closed, or nothing that the board's readers
\* see: no interleaving of writes, resends, snapshots and stale screens puts
\* a record in the database or in a row that nobody made from one of the
\* same place, or moves a row to another place.
ImplementsBoard == Board!BoardSpec

=============================================================================
