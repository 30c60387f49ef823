----------------------------- MODULE Mainloop -----------------------------
(***************************************************************************)
(* src/shared/mainloop.c and timeout-mainloop.c of bluez, as operators on  *)
(* a loop: what is registered under each descriptor, and the events that   *)
(* one epoll_wait has returned and that are still to be handed out.  An    *)
(* event points to the mainloop_data of its descriptor; if that is freed   *)
(* before the event's turn, the event is wild, whatever the number stands  *)
(* for by then.                                                            *)
(***************************************************************************)
EXTENDS Integers, Sequences, SequencesExt

CONSTANTS
    MaxFd,      \* bound: the largest descriptor number of the process
    Entries,    \* MAX_MAINLOOP_ENTRIES: the loop takes the numbers below
    Inherited,  \* descriptors that are open for other things
    MaxEvents,  \* MAX_EPOLL_EVENTS
    Free        \* what the table holds for a number that is not registered

Numbers == 0 .. MaxFd

\* Without stdin the first timer would get number 0, which timeout_add uses
\* for "no timer".
ASSUME LoopConstants ==
    /\ MaxFd \in Nat /\ Entries \in 1 .. MaxFd + 1 /\ MaxEvents \in Nat \ {0}
    /\ Inherited \subseteq Numbers /\ 0 \in Inherited

\* mainloop_init
NewLoop == [list |-> [n \in Numbers |-> Free], batch |-> <<>>,
            terminate |-> FALSE, returned |-> FALSE]

Opened(l) == Inherited \cup {n \in Numbers : l.list[n] # Free}

\* socket, accept, timerfd_create: the lowest number that is free
LowestFree(l) == CHOOSE n \in Numbers \ Opened(l) :
                    \A k \in Numbers \ Opened(l) : n <= k

\* mainloop_add_fd of a new descriptor fails where its number is too large;
\* the descriptor is closed again
Fits(l) == Numbers \ Opened(l) # {} /\ LowestFree(l) < Entries

AddFd(l, owner) == [l EXCEPT !.list = [@ EXCEPT ![LowestFree(l)] = owner]]

\* mainloop_remove_fd, and close of the descriptor: of what is not registered
\* nothing happens
Removed(l, n) ==
    [l EXCEPT !.list = [@ EXCEPT ![n] = Free],
              !.batch = [i \in DOMAIN l.batch |-> [l.batch[i] EXCEPT
                             !.wild = @ \/ (l.list[n] # Free /\ l.batch[i].fd = n)]]]

\* it frees what an event of this round points to
FreesEvent(l, n) == Removed(l, n).batch # l.batch

\* epoll_wait: some of the descriptors that may have become ready, in any order
Batches(ready) ==
    {b \in UNION {[1 .. k -> [fd : ready, wild : {FALSE}]] : k \in 1 .. MaxEvents} :
        \A i, j \in DOMAIN b : b[i].fd = b[j].fd => i = j}

Waiting(l) == l.batch = <<>> /\ ~l.terminate
NextEvent(l) == [l EXCEPT !.batch = Tail(@)]

\* mainloop_quit: the events of the round are handed out all the same
Quit(l) == [l EXCEPT !.terminate = TRUE]

\* the end of mainloop_run: all that is registered is removed and destroyed
Cleared(l) == [l EXCEPT !.list = [n \in Numbers |-> Free], !.returned = TRUE]

\* Mutants: of TimerAdded, the descriptor is not given to epoll; of
\* TimerRemoved, nothing is removed
NotAdded(l, owner) == l
NotRemoved(l, id) == l

\* timeout_add: the id of a timer is its descriptor, 0 if there is none
TimerId(l) == IF Fits(l) THEN LowestFree(l) ELSE 0
TimerAdded(l, owner) == IF Fits(l) THEN AddFd(l, owner) ELSE l

\* timeout_remove
TimerRemoved(l, id) == IF id = 0 THEN l ELSE Removed(l, id)
=============================================================================
