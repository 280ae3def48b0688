------------------------------ MODULE SenderList ------------------------------
(***************************************************************************)
(* The list of uploads as bt_parse.c keeps it, linked both ways, and       *)
(* peer_cc's walk over it, which deletes senders as it goes.  Upload takes *)
(* the list for a sequence; here the pointers are kept, and malloc and     *)
(* free.  Which senders a walk deletes is up to their peers.               *)
(***************************************************************************)
EXTENDS LinkedList

CONSTANT Peers

SenderListAssumption == LinkedListAssumption /\ Peers # {}

VARIABLES
    upload,   \* config->upload
    cell,     \* the bt_sender_list at each address
    live,     \* addresses allocated and not freed
    sender,   \* peer_cc's sender, NULL outside of it
    due       \* peers whose senders the walk going on has not reached yet

svars == <<upload, cell, live, sender, due>>

(* The senders from p on.                                                  *)
From(p) == Chain([a \in Addresses |-> cell[a].next], p)

PeersFrom(p) == {cell[From(p)[k]].peer : k \in DOMAIN From(p)}

(* find_sender_list *)
Found(q) == q \in PeersFrom(upload)

(* add_sender_list, as process_get and send_data call it.                  *)
AddSenderList(q) ==
    /\ sender = NULL /\ ~Found(q)
    /\ \E a \in Addresses \ live :
          /\ live' = live \cup {a}
          /\ upload' = a
          /\ cell' = [b \in Addresses |->
                        IF b = a THEN [peer |-> q, prev |-> NULL, next |-> upload]
                        ELSE IF b = upload THEN [cell[b] EXCEPT !.prev = a]
                        ELSE cell[b]]
    /\ UNCHANGED <<sender, due>>

(* del_sender_list.  Mutant: the one after is not told.                    *)
UnlinkedOneWay(s) ==
    [b \in Addresses |->
        IF b = cell[s].prev THEN [cell[b] EXCEPT !.next = cell[s].next] ELSE cell[b]]

Unlinked(s) ==
    [b \in Addresses |->
        IF b = cell[s].prev THEN [cell[b] EXCEPT !.next = cell[s].next]
        ELSE IF b = cell[s].next THEN [cell[b] EXCEPT !.prev = cell[s].prev]
        ELSE cell[b]]

CcStart ==
    /\ sender = NULL /\ upload # NULL
    /\ sender' = upload /\ due' = PeersFrom(upload)
    /\ UNCHANGED <<upload, cell, live>>

CcDelete ==
    /\ sender # NULL
    /\ cell' = Unlinked(sender)
    /\ upload' = IF cell[sender].prev = NULL THEN cell[sender].next ELSE upload
    /\ live' = live \ {sender}
    /\ sender' = cell[sender].next
    /\ due' = due \ {cell[sender].peer}

(* Mutant: after a sender that stays, the one after the next is taken.     *)
CcStepTwo ==
    /\ sender # NULL
    /\ sender' = LET n == cell[sender].next IN IF n = NULL THEN NULL ELSE cell[n].next
    /\ due' = due \ {cell[sender].peer}
    /\ UNCHANGED <<upload, cell, live>>

CcStep ==
    /\ sender # NULL
    /\ sender' = cell[sender].next
    /\ due' = due \ {cell[sender].peer}
    /\ UNCHANGED <<upload, cell, live>>

Init ==
    /\ upload = NULL /\ live = {} /\ sender = NULL /\ due = {}
    /\ cell \in [Addresses -> [peer : {CHOOSE q \in Peers : TRUE}, prev : {NULL}, next : {NULL}]]

Next == (\E q \in Peers : AddSenderList(q)) \/ CcStart \/ CcDelete \/ CcStep

Spec == Init /\ [][Next]_svars

-----------------------------------------------------------------------------
(* The pointers are sound: prev undoes next, nothing reachable is freed,   *)
(* everything allocated is reachable, and no peer has two senders.         *)
TypeOK ==
    /\ cell \in [Addresses -> [peer : Peers, prev : Pointer, next : Pointer]]
    /\ {From(upload)[k] : k \in DOMAIN From(upload)} = live
    /\ Len(From(upload)) = Cardinality(live)
    /\ Cardinality(PeersFrom(upload)) = Cardinality(live)
    /\ upload # NULL => cell[upload].prev = NULL
    /\ \A a \in live : cell[a].next # NULL => cell[cell[a].next].prev = a
    /\ sender \in live \cup {NULL}

(* A pass of peer_cc misses no upload: those it has still to see are those *)
(* ahead of it on the list, although it frees the cells it steps from.     *)
PassMissesNone == due = IF sender = NULL THEN {} ELSE PeersFrom(sender)
=============================================================================
