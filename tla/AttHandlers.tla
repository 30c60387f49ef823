---------------------------- MODULE AttHandlers ----------------------------
(***************************************************************************)
(* The handlers of a bearer (src/shared/att.c): those a PDU of the peer is *)
(* offered to, and those that are told of a disconnection.  Callbacks and  *)
(* destroy hooks register and unregister handlers, and drop the bearer,    *)
(* while handle_notify, disconnect_cb or bt_att_unregister_all goes        *)
(* through a list.                                                         *)
(*                                                                         *)
(* stack holds the functions that are under way, innermost last, and `at'  *)
(* the handler whose callback or hook the function has called; while a     *)
(* callback runs it may make any call, and between two of them the         *)
(* function does one turn of its loop.  Entries are named by the ids of    *)
(* the handlers, which are given out once.  An access to a freed entry or  *)
(* to a freed bearer sets crashed, and nothing happens any more.           *)
(***************************************************************************)
EXTENDS Integers, Sequences, SequencesExt

CONSTANTS
    MaxIds,     \* bound: handlers registered
    MaxFrames,  \* bound: how deep callbacks nest
    Handled,    \* what handlers register for: opcodes and "all"
    Received    \* the opcodes of the peer

ASSUME HandlerConstants == MaxIds \in Nat \ {0} /\ MaxFrames \in Nat

VARIABLES
    att,      \* struct bt_att
    stack,    \* the functions under way
    crashed,  \* freed memory was used
    hooks,    \* history: how often the destroy hook of a handler ran
    told,     \* history: how often a handler was told of the disconnection
    given,    \* history: the handlers the upper layer has unregistered
    misused   \* history: a callback did what it must not

history == <<hooks, told, given, misused>>
vars == <<att, stack, crashed, history>>

Ids == 1 .. MaxIds
None == 0
SomeOp == MaxIds + 1   \* `at' of a callback that is not a handler's

Lists == {"notify", "disconn"}
Disconn == "disconnect"  \* what a handler of disconn_list stands for

ASSUME OnlyOpcodes == Disconn \notin Handled

\* notify_list and disconn_list, what each id is for, att_disconn.removed;
\* held is the reference of the upper layer
Init ==
    /\ att = [notify |-> <<>>, disconn |-> <<>>,
              for |-> [i \in Ids |-> "none"], removed |-> {},
              next_reg_id |-> 1, io |-> TRUE, held |-> TRUE, freed |-> FALSE]
    /\ stack = <<>> /\ crashed = FALSE
    /\ hooks = [i \in Ids |-> 0] /\ told = [i \in Ids |-> 0]
    /\ given = {} /\ misused = FALSE

\* kind: the function.  entry: the next of a walk.  rest: what a
\* queue_remove_all has taken off its list.  todo: the calls that follow.
\* due: history of handle_notify, the handlers that must still be called.
Frame(kind, at, op, entry, todo, due) ==
    [kind |-> kind, at |-> at, op |-> op, entry |-> entry, rest |-> <<>>,
     todo |-> todo, due |-> due]

Top == stack[Len(stack)]
WithTop(f) == [stack EXCEPT ![Len(stack)] = f]

\* a series of calls: lists to empty, "unref", "free" for bt_att_free
Series(todo) == Frame("series", None, "none", None, todo, {})

\* bt_att_ref: handle_notify and disconnect_cb hold the bearer to their end
Referenced(s) ==
    \E i \in DOMAIN s : \/ s[i].kind \in {"notify", "disconn"}
                        \/ "unref" \in ToSet(s[i].todo)

\* Mutant of Release: the handlers of a disconnection stay
ReleaseNotify == <<"notify", "free">>

\* the last reference: bt_att_unregister_all and bt_att_free
Release == <<"notify", "disconn", "free">>

\* opcode_match
Match(id, op) == att.for[id] = op \/ (att.for[id] = "all" /\ op # "ntf")

FirstOf(list) == IF list = <<>> THEN None ELSE Head(list)
NextOf(list, id) ==
    LET i == CHOOSE k \in DOMAIN list : list[k] = id
    IN IF i = Len(list) THEN None ELSE list[i + 1]

----------------------------------------------------------------------------
(* Calls of the upper layer: from the loop, or from a running callback     *)

Calling ==
    /\ ~crashed /\ att.held
    /\ stack # <<>> => Top.at # None

MayNest == Len(stack) < MaxFrames

\* a handler that handle_notify wants to look at next and that is gone
Dangling == \E i \in DOMAIN stack : /\ stack[i].kind = "notify"
                                    /\ stack[i].entry \notin ToSet(att.notify) \cup {None}

\* bt_att_register, bt_att_register_disconnect.  A handle_notify around it
\* whose next entry is gone does not notice if the list fills again.
Register(list, what) ==
    /\ Calling /\ att.io /\ att.next_reg_id \in Ids
    /\ att' = [att EXCEPT !.next_reg_id = @ + 1, ![list] = Append(@, att.next_reg_id),
                          !.for = [@ EXCEPT ![att.next_reg_id] = what]]
    /\ misused' = (misused \/ (list = "notify" /\ Dangling))
    /\ UNCHANGED <<stack, crashed, hooks, told, given>>

\* queue_remove_if, then destroy_att_notify or destroy_att_disconn
Unregistered(list, id) ==
    /\ MayNest
    /\ att' = [att EXCEPT ![list] = RemoveFirst(@, id)]
    /\ stack' = Append(stack, Frame("one", id, "none", None, <<>>, {}))
    /\ hooks' = [hooks EXCEPT ![id] = @ + 1]

\* bt_att_unregister.  A callback must not take the next handler away.
Unregister(id) ==
    /\ Calling /\ id \in ToSet(att.notify)
    /\ Unregistered("notify", id)
    /\ given' = given \cup {id}
    /\ misused' = (misused \/ \E i \in DOMAIN stack : stack[i].kind = "notify"
                                                       /\ stack[i].entry = id)
    /\ UNCHANGED <<crashed, told>>

\* bt_att_unregister_disconnect: marked only, once the io is gone
UnregisterDisconnect(id) ==
    /\ Calling /\ id \in ToSet(att.disconn)
    /\ IF att.io THEN Unregistered("disconn", id)
       ELSE /\ att' = [att EXCEPT !.removed = @ \cup {id}]
            /\ UNCHANGED <<stack, hooks>>
    /\ given' = given \cup {id}
    /\ UNCHANGED <<crashed, told, misused>>

\* bt_att_unregister_all
UnregisterAll ==
    /\ Calling /\ MayNest
    /\ stack' = Append(stack, Series(<<"notify", "disconn">>))
    /\ UNCHANGED <<att, crashed, history>>

\* bt_att_unref.  Nothing may follow it in a function that has no reference:
\* the callbacks of ops in disconnect_cb, the hooks of bt_att_unregister_all.
Unref ==
    /\ Calling /\ MayNest
    /\ att' = [att EXCEPT !.held = FALSE]
    /\ IF Referenced(stack)
       THEN UNCHANGED <<stack, misused>>
       ELSE /\ stack' = Append(stack, Series(Release))
            /\ misused' = (misused \/ \E i \in DOMAIN stack :
                              stack[i].kind = "ops" \/ stack[i].todo # <<>>)
    /\ UNCHANGED <<crashed, hooks, told, given>>

----------------------------------------------------------------------------
(* The loop calls                                                          *)

\* handle_notify for a PDU, up to its loop
Receive(op) ==
    /\ stack = <<>> /\ ~crashed /\ ~att.freed /\ att.io
    /\ stack' = <<Frame("notify", None, op, FirstOf(att.notify), <<>>,
                        {i \in ToSet(att.notify) : Match(i, op)})>>
    /\ UNCHANGED <<att, crashed, history>>

\* disconnect_cb, up to the callbacks of ops that were not answered, if any
Disconnect ==
    /\ stack = <<>> /\ ~crashed /\ ~att.freed /\ att.io
    /\ att' = [att EXCEPT !.io = FALSE]
    /\ \E at \in {None, SomeOp} : stack' = <<Frame("ops", at, "none", None, <<>>, {})>>
    /\ UNCHANGED <<crashed, history>>

----------------------------------------------------------------------------
(* The innermost function goes on                                          *)

Return ==
    /\ stack # <<>> /\ ~crashed /\ Top.at # None
    /\ stack' = WithTop([Top EXCEPT !.at = None])
    /\ UNCHANGED <<att, crashed, history>>

Going(kind) == stack # <<>> /\ ~crashed /\ Top.kind = kind /\ Top.at = None

\* Mutant of NotifyOver: whether the list got empty is not looked at
NotifyOverAtEnd == Top.entry = None

\* one turn of the loop of handle_notify, which ends with bt_att_unref
NotifyOver == att.notify = <<>> \/ Top.entry = None
NotifyTurn ==
    /\ Going("notify") /\ ~att.freed
    /\ \/ /\ NotifyOver
          /\ stack' = WithTop(Series(<<"unref">>))
       \/ /\ ~NotifyOver /\ Top.entry \in ToSet(att.notify)
          /\ stack' = WithTop([Top EXCEPT
                !.entry = NextOf(att.notify, Top.entry),
                !.at = IF Match(Top.entry, Top.op) THEN Top.entry ELSE None,
                !.due = @ \ {Top.entry}])
    /\ UNCHANGED <<att, crashed, history>>

\* Mutant of OpsDone: the handlers are dropped before they are told
DroppedFirst ==
    /\ Going("ops") /\ ~att.freed
    /\ stack' = WithTop(Series(<<"notify", "disconn", "unref">>))
    /\ UNCHANGED <<att, crashed, history>>

\* disconnect_cb takes its reference only behind the callbacks of ops
OpsDone ==
    /\ Going("ops") /\ ~att.freed
    /\ stack' = WithTop(Frame("disconn", None, "none", FirstOf(att.disconn), <<>>, {}))
    /\ UNCHANGED <<att, crashed, history>>

\* Mutant of Tells: `removed' is not looked at
TellsAll(id) == id \in Ids

\* disconn_handler of a handler
Tells(id) == id \notin att.removed

\* one turn of queue_foreach; bt_att_unregister_all and bt_att_unref follow
DisconnTurn ==
    /\ Going("disconn") /\ ~att.freed
    /\ \/ /\ att.disconn = <<>> \/ Top.entry = None
          /\ stack' = WithTop(Series(<<"notify", "disconn", "unref">>))
          /\ UNCHANGED <<crashed, told>>
       \/ /\ Top.entry \in ToSet(att.disconn)
          /\ stack' = WithTop([Top EXCEPT
                !.entry = NextOf(att.disconn, Top.entry),
                !.at = IF Tells(Top.entry) THEN Top.entry ELSE None])
          /\ told' = IF Tells(Top.entry) THEN [told EXCEPT ![Top.entry] = @ + 1] ELSE told
          /\ UNCHANGED crashed
    /\ UNCHANGED <<att, hooks, given, misused>>

\* the turn of a walk whose entry was freed, or of a function whose bearer was
UsesFreed ==
    IF att.freed
    THEN Top.kind \in {"notify", "ops", "disconn"}
         \/ (Top.kind = "series" /\ Top.rest = <<>> /\ Top.todo # <<>>)
    ELSE /\ Top.kind \in Lists /\ Top.entry \notin ToSet(att[Top.kind])
         /\ IF Top.kind = "notify" THEN ~NotifyOver
            ELSE att.disconn # <<>> /\ Top.entry # None

Wild ==
    /\ stack # <<>> /\ ~crashed /\ Top.at = None
    /\ UsesFreed
    /\ crashed' = TRUE
    /\ UNCHANGED <<att, stack, history>>

\* the next hook, the next list, the end of a reference, the end
SeriesTurn ==
    /\ Going("series") /\ UNCHANGED <<crashed, told, misused>>
    /\ \/ /\ Top.rest # <<>>
          /\ stack' = WithTop([Top EXCEPT !.at = Head(Top.rest), !.rest = Tail(@)])
          /\ hooks' = [hooks EXCEPT ![Head(Top.rest)] = @ + 1]
          /\ UNCHANGED <<att, given>>
       \/ /\ Top.rest = <<>> /\ Top.todo # <<>> /\ ~att.freed
          /\ LET f == [Top EXCEPT !.todo = Tail(@)]
                 task == Head(Top.todo)
             IN \/ /\ task \in Lists
                   /\ stack' = WithTop([f EXCEPT !.rest = att[task]])
                   /\ att' = [att EXCEPT ![task] = <<>>]
                   /\ given' = IF ToSet(f.todo) \subseteq Lists
                               THEN given \cup ToSet(att[task]) ELSE given
                \/ /\ task = "unref"
                   /\ stack' = WithTop(IF att.held \/ Referenced(WithTop(f)) THEN f
                                       ELSE Series(Release))
                   /\ UNCHANGED <<att, given>>
                \/ /\ task = "free"
                   /\ att' = [att EXCEPT !.freed = TRUE]
                   /\ stack' = WithTop(f)
                   /\ UNCHANGED given
          /\ UNCHANGED hooks
       \/ /\ Top.rest = <<>> /\ Top.todo = <<>>
          /\ stack' = Front(stack) /\ UNCHANGED <<att, hooks, given>>

\* the end of bt_att_unregister and of bt_att_unregister_disconnect
OneDone == Going("one") /\ stack' = Front(stack) /\ UNCHANGED <<att, crashed, history>>

Next ==
    \/ \E what \in Handled : Register("notify", what)
    \/ Register("disconn", Disconn)
    \/ \E id \in Ids : Unregister(id) \/ UnregisterDisconnect(id)
    \/ UnregisterAll \/ Unref
    \/ \E op \in Received : Receive(op)
    \/ Disconnect
    \/ Return \/ NotifyTurn \/ OpsDone \/ DisconnTurn \/ SeriesTurn \/ OneDone
    \/ Wild

Spec == Init /\ [][Next]_vars

----------------------------------------------------------------------------
(* Properties                                                              *)

Registered == 1 .. att.next_reg_id - 1
Taken == UNION {ToSet(stack[i].rest) : i \in DOMAIN stack}
Listed == ToSet(att.notify) \cup ToSet(att.disconn)

TypeOK ==
    /\ att.notify \in Seq(Ids) /\ att.disconn \in Seq(Ids)
    /\ att.removed \subseteq Ids /\ att.next_reg_id \in 1 .. MaxIds + 1
    /\ {att.io, att.held, att.freed, crashed, misused} \subseteq BOOLEAN
    /\ Len(stack) <= MaxFrames
    /\ \A i \in DOMAIN stack : /\ stack[i].at \in Ids \cup {None, SomeOp}
                               /\ stack[i].entry \in Ids \cup {None}
                               /\ ToSet(stack[i].todo) \subseteq Lists \cup {"unref", "free"}

\* A callback may register, unregister, unregister all and drop the bearer;
\* unless it unregisters the handler that comes next, registers after it
\* removed all, or drops the bearer under a function without a reference, no
\* freed entry and no freed bearer is used (att.c:833, att.c:846, att.c:588).
ContractSuffices == crashed => misused

\* The destroy hook of a handler runs once, when it leaves its list for good,
\* in whatever way the lists are emptied; when the bearer is freed, of all
\* (destroy_att_notify, destroy_att_disconn).
HooksOnce ==
    ~crashed => \A id \in Registered :
        hooks[id] = IF id \in Taken \/ (id \in Listed /\ ~att.freed) THEN 0 ELSE 1

\* When disconnect_cb has gone through the list, every handler that was not
\* unregistered has been told of the disconnection, once, also if callbacks
\* unregistered others, the next one among them (att.c:1213, att.c:535).
ToldOnce ==
    /\ \A id \in Ids : told[id] <= 1
    /\ ~att.io /\ ~crashed /\ (\A i \in DOMAIN stack : stack[i].kind \notin {"ops", "disconn"})
         => \A id \in Registered : att.for[id] = Disconn /\ id \notin given => told[id] = 1

\* handle_notify offers a PDU to every handler that was there for it when it
\* came, unless it was unregistered meanwhile (the break at att.c:846 leaves
\* out nobody).
OfferedToAll ==
    \A i \in DOMAIN stack :
        stack[i].kind = "notify" /\ stack[i].at = None
        /\ (stack[i].entry = None \/ att.notify = <<>>)
          => stack[i].due \subseteq given

\* Nobody is missed by a walk that callbacks change.
NobodyMissed == ToldOnce /\ OfferedToAll

\* Once it was unregistered a handler is not called again, neither with a PDU
\* nor with the disconnection that is being reported (att.c:535).
SilentAfterUnregister ==
    [][ (stack' # <<>> /\ stack' # stack) =>
          LET f == stack'[Len(stack')]
          IN f.kind \in {"notify", "disconn"} /\ f.at # None /\ Len(stack') = Len(stack)
               => f.at \notin given ]_vars
=============================================================================
