----------------------------- MODULE QueueList -----------------------------
(***************************************************************************)
(* src/shared/queue.c of bluez: the singly linked list, the reference      *)
(* count that a walk holds, and the entries a walk has in its hand while a *)
(* callback uses the queue.  Callbacks are the innermost walk in stack; a  *)
(* step is one call, or the code from the return of a callback to the next *)
(* callback.                                                               *)
(*                                                                         *)
(* An access to memory that was freed sets crashed, and nothing happens    *)
(* any more.  `wild' marks a pointer whose entry was freed, even if malloc *)
(* has given the memory out again.                                         *)
(***************************************************************************)
EXTENDS Integers, Sequences, FiniteSets

CONSTANTS
    Data,      \* what callers put into a queue
    MaxCells,  \* bound: entries allocated at a time
    MaxWalks   \* bound: how deep walks nest

ASSUME QueueConstants == MaxCells \in Nat \ {0} /\ MaxWalks \in Nat

VARIABLES
    heap,     \* struct queue_entry: what each allocated cell holds
    queue,    \* struct queue
    stack,    \* the calls with a callback running, outermost first
    crashed

vars == <<heap, queue, stack, crashed>>

Cells == 1 .. MaxCells
Null == 0

Walk(kind, at, entry, match, destroys) ==
    [kind |-> kind,      \* which function
     at |-> at,          \* the data its callback was given
     entry |-> entry,    \* `next' of foreach, `entry' of remove_all
     wild |-> FALSE,     \* that entry was freed
     tmp |-> Null,       \* `tmp' of remove_all
     match |-> match,    \* what `function' of remove_all is true of
     destroys |-> destroys]  \* called by queue_destroy

Queues == [head : Cells \cup {Null}, tail : Cells \cup {Null},
           entries : 0 .. MaxCells, ref_count : 0 .. MaxWalks + 1]

TypeOK ==
    /\ DOMAIN heap \subseteq Cells
    /\ \A c \in DOMAIN heap : heap[c] \in [data : Data, next : Cells \cup {Null}]
    /\ queue \in Queues
    /\ \A i \in DOMAIN stack :
        /\ stack[i].kind \in {"foreach", "drain", "filter"}
        /\ stack[i].at \in Data
        /\ {stack[i].entry, stack[i].tmp} \subseteq Cells \cup {Null}
        /\ stack[i].match \subseteq Data
        /\ {stack[i].wild, stack[i].destroys} \subseteq BOOLEAN
    /\ Len(stack) <= MaxWalks
    /\ crashed \in BOOLEAN

\* queue_new
Init ==
    /\ heap = <<>>
    /\ queue = [head |-> Null, tail |-> Null, entries |-> 0, ref_count |-> 1]
    /\ stack = <<>>
    /\ crashed = FALSE

\* the cells of h from c on; one more than there are if they form a ring
Along(h, c) ==
    LET follow[k \in 0 .. MaxCells] ==
          IF k = 0 THEN (IF c = Null THEN <<>> ELSE <<c>>)
          ELSE LET s == follow[k - 1]
                   next == IF s = <<>> THEN Null ELSE h[s[Len(s)]].next
               IN IF next = Null THEN s ELSE Append(s, next)
    IN follow[MaxCells]

Chain(c) == Along(heap, c)
List == Chain(queue.head)

Top == stack[Len(stack)]
Others == SubSeq(stack, 1, Len(stack) - 1)
Foreachs == {i \in DOMAIN stack : stack[i].kind = "foreach"}

\* the owner has not given up his reference
Owned == queue.ref_count > Cardinality(Foreachs)
Callable == Owned /\ ~crashed
MayNest == Len(stack) < MaxWalks

\* queue_entry_new: malloc gives out any free cell, so one is as good as another
Fresh == CHOOSE c \in Cells \ DOMAIN heap : \A e \in Cells \ DOMAIN heap : c <= e
MayAllocate == DOMAIN heap # Cells

\* the heap with a new entry, and without one
With(h, d, next) ==
    [e \in DOMAIN h \cup {Fresh} |->
        IF e = Fresh THEN [data |-> d, next |-> next] ELSE h[e]]
Without(h, c) == [e \in DOMAIN h \ {c} |-> h[e]]

\* what free(c) does to the pointers that walks hold
Freed(s, c) ==
    [i \in DOMAIN s |-> [s[i] EXCEPT !.wild = @ \/ s[i].entry = c]]

----------------------------------------------------------------------------

\* queue_push_tail
PushTail(d) ==
    /\ Callable /\ MayAllocate
    /\ heap' = With(IF queue.tail = Null THEN heap
                    ELSE [heap EXCEPT ![queue.tail].next = Fresh], d, Null)
    /\ queue' = [queue EXCEPT !.tail = Fresh, !.entries = @ + 1,
                    !.head = IF @ = Null THEN Fresh ELSE @]
    /\ UNCHANGED <<stack, crashed>>

\* queue_push_head
PushHead(d) ==
    /\ Callable /\ MayAllocate
    /\ heap' = With(heap, d, queue.head)
    /\ queue' = [queue EXCEPT !.head = Fresh, !.entries = @ + 1,
                    !.tail = IF @ = Null THEN Fresh ELSE @]
    /\ UNCHANGED <<stack, crashed>>

\* the first entry of the list with its data in S, by its place in the list
Found(S, i) ==
    /\ i \in DOMAIN List /\ heap[List[i]].data \in S
    /\ \A j \in 1 .. i - 1 : heap[List[j]].data \notin S

\* queue_push_after
PushAfter(e, d) ==
    /\ Callable /\ MayAllocate
    /\ \E i \in DOMAIN List :
        LET qentry == List[i] IN
        /\ Found({e}, i)
        /\ heap' = With([heap EXCEPT ![qentry].next = Fresh], d, heap[qentry].next)
        /\ queue' = [queue EXCEPT !.entries = @ + 1,
                        !.tail = IF heap[qentry].next = Null THEN Fresh ELSE @]
    /\ UNCHANGED <<stack, crashed>>

\* queue_pop_head
PopHead ==
    /\ Callable /\ queue.head # Null
    /\ LET entry == queue.head
           next == heap[entry].next
       IN /\ queue' = [queue EXCEPT !.head = next, !.entries = @ - 1,
                          !.tail = IF next = Null THEN Null ELSE @]
          /\ heap' = Without(heap, entry)
          /\ stack' = Freed(stack, entry)
    /\ UNCHANGED crashed

\* Mutant of Unlinked: the tail is moved only when the list gets empty
TailForgotten(i) ==
    LET entry == List[i]
        next == heap[entry].next
    IN /\ heap' = Without(IF i = 1 THEN heap
                          ELSE [heap EXCEPT ![List[i - 1]].next = next], entry)
       /\ queue' = [queue EXCEPT !.head = IF i = 1 THEN next ELSE @,
                                 !.tail = IF i = 1 /\ next = Null THEN Null ELSE @,
                                 !.entries = @ - 1]

\* queue_remove and queue_remove_if unlink and free the i-th entry
Unlinked(i) ==
    LET entry == List[i]
        prev == IF i = 1 THEN Null ELSE List[i - 1]
        next == heap[entry].next
    IN /\ heap' = Without(IF prev = Null THEN heap
                          ELSE [heap EXCEPT ![prev].next = next], entry)
       /\ queue' = [queue EXCEPT !.head = IF prev = Null THEN next ELSE @,
                                 !.tail = IF next = Null THEN prev ELSE @,
                                 !.entries = @ - 1]

Remove(S) ==
    /\ Callable
    /\ \E i \in DOMAIN List :
        Found(S, i) /\ Unlinked(i) /\ stack' = Freed(stack, List[i])
    /\ UNCHANGED crashed

\* queue_foreach: to the first callback
Foreach ==
    /\ Callable /\ MayNest /\ queue.head # Null
    /\ queue' = [queue EXCEPT !.ref_count = @ + 1]
    /\ stack' = Append(stack, Walk("foreach", heap[queue.head].data,
                                   heap[queue.head].next, {}, FALSE))
    /\ UNCHANGED <<heap, crashed>>

\* queue_unref: what becomes of the queue is decided by the count alone
Unref(qu) == [qu EXCEPT !.ref_count = @ - 1]

\* queue_remove_all without a function, and queue_destroy, which drops the
\* owner's reference behind it: to the first destroy callback
Drain(destroys) ==
    /\ Callable /\ MayNest
    /\ destroys => \A i \in DOMAIN stack : ~stack[i].destroys
    /\ IF queue.head = Null
       THEN /\ destroys /\ queue' = Unref(queue) /\ UNCHANGED stack
       ELSE LET entry == queue.head IN
            /\ queue' = [queue EXCEPT !.head = Null, !.tail = Null, !.entries = 0]
            /\ stack' = Append(stack,
                          [Walk("drain", heap[entry].data, heap[entry].next, {}, destroys)
                             EXCEPT !.tmp = entry])
    /\ UNCHANGED <<heap, crashed>>

\* queue_remove_all with a function: to the first destroy callback, if any
Filter(S) ==
    /\ Callable /\ MayNest
    /\ \E i \in DOMAIN List :
        /\ Found(S, i) /\ Unlinked(i)
        /\ stack' = Append(Freed(stack, List[i]),
                           Walk("filter", heap[List[i]].data, Null, S, FALSE))
    /\ UNCHANGED crashed

----------------------------------------------------------------------------
(* The innermost callback returns                                          *)

\* Mutant of GoesOn: the walk does not look whether the queue got empty
GoesOnBlindly == Top.entry # Null /\ queue.ref_count > 1

\* the condition of the loop in queue_foreach
GoesOn == Top.entry # Null /\ queue.head # Null /\ queue.ref_count > 1

VisitNext ==
    /\ stack # <<>> /\ Top.kind = "foreach" /\ ~crashed
    /\ \/ /\ GoesOn /\ ~Top.wild
          /\ stack' = [stack EXCEPT ![Len(stack)].at = heap[Top.entry].data,
                                    ![Len(stack)].entry = heap[Top.entry].next]
          /\ UNCHANGED <<queue, crashed>>
       \/ /\ ~GoesOn
          /\ stack' = Others /\ queue' = Unref(queue)
          /\ UNCHANGED crashed
       \/ GoesOn /\ Top.wild /\ crashed' = TRUE /\ UNCHANGED <<stack, queue>>
    /\ UNCHANGED heap

DrainNext ==
    /\ stack # <<>> /\ Top.kind = "drain" /\ ~crashed
    /\ heap' = Without(heap, Top.tmp)
    /\ IF Top.entry = Null
       THEN /\ stack' = Freed(Others, Top.tmp)
            /\ queue' = IF Top.destroys THEN Unref(queue) ELSE queue
       ELSE /\ stack' = Freed([stack EXCEPT
                          ![Len(stack)].at = heap[Top.entry].data,
                          ![Len(stack)].tmp = Top.entry,
                          ![Len(stack)].entry = heap[Top.entry].next], Top.tmp)
            /\ UNCHANGED queue
    /\ UNCHANGED crashed

\* queue->entries is read again, which is too late if the queue is freed
FilterNext ==
    /\ stack # <<>> /\ Top.kind = "filter" /\ ~crashed
    /\ \/ /\ queue.ref_count > 0
          /\ \E i \in DOMAIN List :
                /\ Found(Top.match, i) /\ Unlinked(i)
                /\ stack' = [Freed(stack, List[i]) EXCEPT
                               ![Len(stack)].at = heap[List[i]].data]
          /\ UNCHANGED crashed
       \/ /\ queue.ref_count > 0
          /\ \A i \in DOMAIN List : heap[List[i]].data \notin Top.match
          /\ stack' = Others /\ UNCHANGED <<heap, queue, crashed>>
       \/ queue.ref_count = 0 /\ crashed' = TRUE /\ UNCHANGED <<heap, queue, stack>>

Next ==
    \/ \E d \in Data : PushTail(d) \/ PushHead(d)
    \/ \E e, d \in Data : PushAfter(e, d)
    \/ PopHead
    \/ \E S \in SUBSET Data : Remove(S) \/ Filter(S)
    \/ Foreach
    \/ \E destroys \in BOOLEAN : Drain(destroys)
    \/ VisitNext \/ DrainNext \/ FilterNext

Spec == Init /\ [][Next]_vars

----------------------------------------------------------------------------
(* Properties                                                              *)

\* The list as a sequence, and of each walk what it has still to hand out.
Datas(s) == [i \in DOMAIN s |-> heap[s[i]].data]
Listed(c) == LET list == List IN \E i \in DOMAIN list : list[i] = c
LeftOf(w) ==
    IF w.kind # "foreach" \/ w.entry = Null THEN 0
    ELSE IF w.wild \/ ~Listed(w.entry) THEN -1
    ELSE Len(Chain(w.entry))

Contents == Datas(List)
Walks ==
    [i \in DOMAIN stack |->
        [kind |-> stack[i].kind, at |-> stack[i].at, left |-> LeftOf(stack[i]),
         rest |-> IF stack[i].kind = "drain" THEN Datas(Chain(stack[i].entry)) ELSE <<>>,
         match |-> stack[i].match, destroys |-> stack[i].destroys]]

Abstract == INSTANCE Queue WITH
    q <- Contents, walks <- Walks, gone <- ~Owned, undefined <- crashed

\* The linked list is a queue: every call and every return of a callback does
\* what it does to a sequence, walks hand out each datum in order and once,
\* and freed memory is touched only where the callback broke its contract
\* (queue_foreach keeps `next' over the callback, queue.c:219).
IsAQueue == Abstract!Spec

\* `entries' counts the list and `tail' is its end, in every state a callback
\* can see, also while entries taken off it are being handed out
\* (queue_remove_all resets all three before the first callback).
Counted ==
    /\ queue.entries = Len(List)
    /\ queue.tail = IF List = <<>> THEN Null ELSE List[Len(List)]

\* Every entry that is allocated is in the list or in the hand of a
\* queue_remove_all, in one of them only: no call loses or shares an entry.
Held(w) == IF w.kind # "drain" THEN <<>> ELSE <<w.tmp>> \o Chain(w.entry)
NothingLeaks ==
    LET held == [i \in 0 .. Len(stack) |-> IF i = 0 THEN List ELSE Held(stack[i])]
    IN /\ DOMAIN heap = UNION {{held[i][j] : j \in DOMAIN held[i]} : i \in DOMAIN held}
       /\ \A i, j \in DOMAIN held : \A k \in DOMAIN held[i], m \in DOMAIN held[j] :
            held[i][k] = held[j][m] => i = j /\ k = m

\* The memory of the list is intact in every state a callback can see.
ListIntact == TypeOK /\ Counted /\ NothingLeaks
=============================================================================
