---------------------------- MODULE PlacesBoard -----------------------------
(***************************************************************************)
(* What the list of places promises, without the network that keeps it:    *)
(* a board with a record for every place, on which people post, and on     *)
(* every device a list of posts.                                           *)
(*                                                                         *)
(*   - Nobody invents a record: each one anywhere is a new place's or was  *)
(*     made from one record of the same place by one visit, one rating or  *)
(*     one edit.                                                           *)
(*   - A device shows some post of each of its places, not always the      *)
(*     board's, and whoever acts on an old post posts it anew, so that     *)
(*     what others have posted since leaves the board.                     *)
(*   - A row shows posts of one place for as long as the list is open.     *)
(***************************************************************************)
EXTENDS Sequences

CONSTANTS
    Devices, Keys, None,
    Record,         \* what can be posted about a place
    Infos,          \* what an administrator says about a place
    NewRecord(_),   \* the first record of a place
    Edited(_, _),   \* a record with another info
    Made(_)         \* the records that one act of one user makes of one

VARIABLES
    board,      \* the record that the database holds of a place, or None
    posted,     \* everything ever written about a place
    lists       \* the rows on a device, while its list is open

boardVars == <<board, posted, lists>>

BoardTypeOK ==
    /\ board \in [Keys -> Record \cup {None}]
    /\ posted \in [Keys -> SUBSET Record]
    /\ lists \in [Devices -> Seq([key : Keys, rec : Record])]

Post(k, rec) == posted' = [posted EXCEPT ![k] = @ \cup {rec}]

-----------------------------------------------------------------------------
(* The console: it works on the board.                                     *)

Add(k, info) ==
    /\ board[k] = None
    /\ board' = [board EXCEPT ![k] = NewRecord(info)]
    /\ Post(k, NewRecord(info))
    /\ UNCHANGED lists

Edit(k, info) ==
    /\ board[k] # None
    /\ LET rec == Edited(board[k], info)
       IN /\ board' = [board EXCEPT ![k] = rec]
          /\ Post(k, rec)
    /\ UNCHANGED lists

(* The users: they act on what they see.                                   *)

\* The post is in the row at once.
ActOnRow(d, i) ==
    /\ \E rec \in Made(lists[d][i].rec) :
          /\ lists' = [lists EXCEPT ![d][i].rec = rec]
          /\ Post(lists[d][i].key, rec)
    /\ UNCHANGED board

\* A screen that still shows a former post.
ActOnFormer(k) ==
    /\ \E former \in posted[k] : \E rec \in Made(former) : Post(k, rec)
    /\ UNCHANGED <<board, lists>>

(* What was posted becomes known, in the order the network has for it.     *)

Store(k) ==
    /\ \E rec \in posted[k] : board' = [board EXCEPT ![k] = rec]
    /\ UNCHANGED <<posted, lists>>

ShowNew(d, k) ==
    /\ \A i \in DOMAIN lists[d] : lists[d][i].key # k
    /\ \E rec \in posted[k] :
          lists' = [lists EXCEPT ![d] = Append(@, [key |-> k, rec |-> rec])]
    /\ UNCHANGED <<board, posted>>

ShowChange(d, i) ==
    /\ \E rec \in posted[lists[d][i].key] :
          lists' = [lists EXCEPT ![d][i].rec = rec]
    /\ UNCHANGED <<board, posted>>

Close(d) ==
    /\ lists' = [lists EXCEPT ![d] = << >>]
    /\ UNCHANGED <<board, posted>>

-----------------------------------------------------------------------------

BoardInit ==
    /\ board = [k \in Keys |-> None]
    /\ posted = [k \in Keys |-> {}]
    /\ lists = [d \in Devices |-> << >>]

BoardNext ==
    \/ \E k \in Keys :
         \/ \E info \in Infos : Add(k, info) \/ Edit(k, info)
         \/ ActOnFormer(k)
         \/ Store(k)
    \/ \E d \in Devices :
         \/ \E i \in DOMAIN lists[d] : ActOnRow(d, i) \/ ShowChange(d, i)
         \/ \E k \in Keys : ShowNew(d, k)
         \/ Close(d)

BoardSpec == BoardInit /\ [][BoardNext]_boardVars

\* All that is on the board or in a row was posted for its place.
NothingInvented ==
    /\ \A k \in Keys : board[k] # None => board[k] \in posted[k]
    /\ \A d \in Devices : \A i \in DOMAIN lists[d] :
          lists[d][i].rec \in posted[lists[d][i].key]

=============================================================================
