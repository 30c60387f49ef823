------------------------------- MODULE Queue -------------------------------
(***************************************************************************)
(* What queue.c promises its callers: a sequence of data, and calls that   *)
(* hand each datum to a callback, in order, while the callback may use the *)
(* same queue again.                                                       *)
(*                                                                         *)
(* Such a call in progress is a walk.  Walks nest, the innermost is last.  *)
(* queue_foreach is "foreach": what it has still to visit is the suffix of *)
(* length left of the queue, so a datum pushed behind it is visited too,   *)
(* unless the last visit is going on already.  queue_remove_all without a  *)
(* match is "drain": the queue is empty at once, rest is still to be       *)
(* handed out.  queue_remove_all with a match is "filter": one at a time,  *)
(* from the head.                                                          *)
(*                                                                         *)
(* Nothing is promised to a callback that removes the datum that comes     *)
(* next in a foreach around it, if it leaves anything in the queue, and to *)
(* one that destroys the queue under a filter: from there on the state     *)
(* is undefined.                                                           *)
(***************************************************************************)
EXTENDS Integers, Sequences

CONSTANTS
    Data,      \* what callers put into a queue
    MaxWalks   \* bound: how deep walks nest

VARIABLES
    q,         \* the data, head first
    walks,     \* the calls with a callback running, outermost first
    gone,      \* the owner has destroyed the queue
    undefined  \* a callback did what it must not

vars == <<q, walks, gone, undefined>>

\* left of a foreach whose next datum was removed
Lost == -1

Walk(kind, at, left, rest, match, destroys) ==
    [kind |-> kind, at |-> at, left |-> left, rest |-> rest,
     match |-> match, destroys |-> destroys]

Init == q = <<>> /\ walks = <<>> /\ gone = FALSE /\ undefined = FALSE

Top == walks[Len(walks)]
Others == SubSeq(walks, 1, Len(walks) - 1)
WithTop(w) == [walks EXCEPT ![Len(walks)] = w]

\* who may call: the owner of the queue, or a callback while he still owns it
Callable == ~gone /\ ~undefined
MayNest == Len(walks) < MaxWalks

EachLeft(f(_)) == [i \in DOMAIN walks |-> [walks[i] EXCEPT !.left = f(@)]]

----------------------------------------------------------------------------

PushTail(d) ==
    /\ Callable
    /\ q' = Append(q, d)
    /\ LET f(left) == IF left > 0 THEN left + 1 ELSE left
       IN walks' = EachLeft(f)
    /\ UNCHANGED <<gone, undefined>>

PushHead(d) ==
    /\ Callable
    /\ q' = <<d>> \o q
    /\ UNCHANGED <<walks, gone, undefined>>

\* behind the first e, which has to be there
PushAfter(e, d) ==
    /\ Callable
    /\ \E i \in DOMAIN q :
        /\ q[i] = e /\ \A j \in 1 .. i - 1 : q[j] # e
        /\ q' = SubSeq(q, 1, i) \o <<d>> \o SubSeq(q, i + 1, Len(q))
        /\ LET f(left) == IF left > Len(q) - i THEN left + 1 ELSE left
           IN walks' = EachLeft(f)
    /\ UNCHANGED <<gone, undefined>>

Without(i) == SubSeq(q, 1, i - 1) \o SubSeq(q, i + 1, Len(q))

LeftWithout(i, left) ==
    IF left <= Len(q) - i THEN left
    ELSE IF left = Len(q) - i + 1 THEN Lost ELSE left - 1

\* the first datum in S
First(S, i) == i \in DOMAIN q /\ q[i] \in S /\ \A j \in 1 .. i - 1 : q[j] \notin S

\* queue_pop_head, queue_remove and queue_remove_if: of equal data the first
Remove ==
    /\ Callable
    /\ \E i \in DOMAIN q :
        /\ q' = Without(i)
        /\ First({q[i]}, i)
        /\ LET f(left) == LeftWithout(i, left) IN walks' = EachLeft(f)
    /\ UNCHANGED <<gone, undefined>>

Foreach ==
    /\ Callable /\ MayNest /\ q # <<>>
    /\ walks' = Append(walks, Walk("foreach", q[1], Len(q) - 1, <<>>, {}, FALSE))
    /\ UNCHANGED <<q, gone, undefined>>

Emptied == LET f(left) == IF left > 0 THEN Lost ELSE left IN EachLeft(f)

\* queue_remove_all without a match, and queue_destroy
Drain(destroys) ==
    /\ Callable /\ MayNest
    /\ destroys => \A i \in DOMAIN walks : ~walks[i].destroys
    /\ IF q = <<>>
       THEN /\ destroys /\ gone' = TRUE
            /\ UNCHANGED <<q, walks>>
       ELSE /\ q' = <<>>
            /\ walks' = Append(Emptied, Walk("drain", q[1], 0, Tail(q), {}, destroys))
            /\ UNCHANGED gone
    /\ UNCHANGED undefined

\* queue_remove_all with a match
Filter(S) ==
    /\ Callable /\ MayNest
    /\ \E i \in DOMAIN q :
        /\ First(S, i)
        /\ q' = Without(i)
        /\ LET f(left) == LeftWithout(i, left)
           IN walks' = Append(EachLeft(f), Walk("filter", q[i], 0, <<>>, S, FALSE))
    /\ UNCHANGED <<gone, undefined>>

----------------------------------------------------------------------------
(* The innermost callback returns                                          *)

\* a walk may outlive the queue, but the last one stops when it is gone
Foreachs(n) == {i \in 1 .. n : walks[i].kind = "foreach"}
GoesOn ==
    /\ Top.left # 0 /\ q # <<>>
    /\ gone => Foreachs(Len(walks) - 1) # {}

\* the memory of the queue is kept for the walks of queue_foreach
Freed == gone /\ Foreachs(Len(walks)) = {}

VisitNext ==
    /\ walks # <<>> /\ Top.kind = "foreach" /\ ~undefined
    /\ \/ /\ GoesOn /\ Top.left # Lost
          /\ walks' = WithTop([Top EXCEPT !.at = q[Len(q) - Top.left + 1],
                                          !.left = @ - 1])
          /\ UNCHANGED undefined
       \/ ~GoesOn /\ walks' = Others /\ UNCHANGED undefined
       \/ GoesOn /\ Top.left = Lost /\ undefined' = TRUE /\ UNCHANGED walks
    /\ UNCHANGED <<q, gone>>

DrainNext ==
    /\ walks # <<>> /\ Top.kind = "drain" /\ ~undefined
    /\ IF Top.rest = <<>>
       THEN walks' = Others /\ gone' = (gone \/ Top.destroys)
       ELSE /\ walks' = WithTop([Top EXCEPT !.at = Head(Top.rest), !.rest = Tail(@)])
            /\ UNCHANGED gone
    /\ UNCHANGED <<q, undefined>>

FilterNext ==
    /\ walks # <<>> /\ Top.kind = "filter" /\ ~undefined
    /\ \/ /\ ~Freed
          /\ \E i \in DOMAIN q :
                /\ First(Top.match, i)
                /\ q' = Without(i)
                /\ LET f(left) == LeftWithout(i, left)
                   IN walks' = [EachLeft(f) EXCEPT ![Len(walks)].at = q[i]]
          /\ UNCHANGED undefined
       \/ /\ ~Freed /\ \A i \in DOMAIN q : q[i] \notin Top.match
          /\ walks' = Others /\ UNCHANGED <<q, undefined>>
       \/ Freed /\ undefined' = TRUE /\ UNCHANGED <<q, walks>>
    /\ UNCHANGED gone

Anything == undefined /\ undefined'

Next ==
    \/ \E d \in Data : PushTail(d) \/ PushHead(d)
    \/ \E e, d \in Data : PushAfter(e, d)
    \/ Remove
    \/ \E S \in SUBSET Data : Filter(S)
    \/ \E destroys \in BOOLEAN : Drain(destroys)
    \/ Foreach
    \/ VisitNext \/ DrainNext \/ FilterNext
    \/ Anything

Spec == Init /\ [][Next]_vars
=============================================================================
