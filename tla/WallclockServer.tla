-------------------------- MODULE WallclockServer --------------------------
(***************************************************************************)
(* The life of the daemon: the main thread (src/main.c), the server thread *)
(* (server_thread and what it calls in src/server.c), the signals that     *)
(* stop them, and the table of file descriptors they share.  A step is one *)
(* system call, or the code between two of them: the threads interleave at *)
(* that grain.                                                             *)
(*                                                                         *)
(* A descriptor is a number.  The kernel gives the lowest number that is   *)
(* free; close() frees a number whoever had it.  server_thread closes some *)
(* numbers twice (io_destroy closes the connection at a disconnection,     *)
(* server_thread closes it again), so the numbers matter.                  *)
(***************************************************************************)
EXTENDS Naturals, Integers, FiniteSets, FiniteSetsExt

CONSTANTS
    NoFile,      \* RLIMIT_NOFILE, the size of the descriptor table
    MaxEntries,  \* MAX_MAINLOOP_ENTRIES
    Inherited    \* how many descriptors may be open at exec: 0, 1, 2 and more

ASSUME TableAssumption ==
    /\ NoFile \in Nat /\ MaxEntries \in Nat /\ Inherited \subseteq 3 .. NoFile

\* Room for what one client needs: 0, 1 and 2, the device, two sockets and
\* sd_notify's or a descriptor of bt_crypto. MAX_MAINLOOP_ENTRIES is 128.
ASSUME RoomAssumption == NoFile >= 7 /\ MaxEntries >= 7

VARIABLES
    proc,    \* the process: "running", or how it ended
    main,    \* where the main thread is
    srv,     \* where the server thread is
    term,    \* SIGTERM or SIGINT is pending for the process
    usr1,    \* SIGUSR1 is pending for the server thread
    bail,    \* the flag of server.c
    fds,     \* the descriptor table: what each number is open for
    dd,      \* static int dd
    fd,      \* static int fd
    sk,      \* the local: dd of restart_advert, sk of the listening function
    epoll,   \* epoll_fd of mainloop.c
    note,    \* the socket of sd_notify
    stray,   \* history: what was closed under a number held by another owner
    early,   \* history: a client was there before sd_notify was over
    starved  \* history: server_create failed, though not for its descriptors

srvVars == <<srv, dd, fd, sk, epoll, early, starved>>
vars == <<proc, main, srv, term, usr1, bail, fds, dd, fd, sk, epoll, note,
          stray, early, starved>>

Numbers == 0 .. NoFile - 1
Kind == {"std", "hci", "listen", "conn", "epoll", "crypto", "notify"}

Free == {n \in Numbers : fds[n] = "free"}

\* main: before pthread_create; thread created; SIGTERM and SIGINT unblocked;
\* their handler installed; sd_notify has its socket; READY sent, joining
MainAt == {"start", "created", "unblocked", "handling", "notifying", "joining"}

\* restart_advert: the filter and the first command; the first read; the second
\* command; the second read; the two requests with a timeout; a read failed
Reads == {"read", "reread"}
Advert == Reads \cup {"advert", "resend", "requests", "unread"}

\* server_thread: not created; SIGUSR1 blocked; unblocked; then the program
\* counter of its loop
SrvAt == Advert \cup
         {"none", "masked", "unblocked", "loop", "open", "listen",
          "bind", "select", "close_sk", "init", "create", "run", "quit",
          "close_fd", "close_hci", "final_fd", "final_hci", "stopped"}

Init ==
    /\ proc = "running"
    /\ main = "start"
    /\ srv = "none"
    /\ term = FALSE /\ usr1 = FALSE /\ bail = FALSE
    /\ \E k \in Inherited :
          fds = [n \in Numbers |-> IF n < k THEN "std" ELSE "free"]
    /\ dd = 0 /\ fd = 0 /\ sk = -1 /\ epoll = 0 /\ note = -1
    /\ stray = {}
    /\ early = FALSE /\ starved = FALSE

-----------------------------------------------------------------------------
(* Descriptors *)

Lowest == Min(Free)

\* The number a call that opens a descriptor returns, or -1 (EMFILE)
Opened == IF Free = {} THEN -1 ELSE Lowest

Open(kind) ==
    fds' = IF Free = {} THEN fds ELSE [fds EXCEPT ![Lowest] = kind]

\* close(n) by code that means a descriptor of this kind
Close(n, kind) ==
    /\ fds' = IF n \in Numbers THEN [fds EXCEPT ![n] = "free"] ELSE fds
    /\ stray' = IF n \in Numbers /\ fds[n] \notin {"free", kind}
                THEN stray \cup {fds[n]} ELSE stray

-----------------------------------------------------------------------------
(* The main thread *)

MainStep(from, to) ==
    /\ proc = "running"
    /\ main = from
    /\ main' = to

\* pthread_create: the thread inherits the mask, SIGUSR1 blocked
CreateThread ==
    /\ MainStep("start", "created")
    /\ srv' = "masked"
    /\ UNCHANGED <<proc, term, usr1, bail, fds, dd, fd, sk, epoll, note, stray,
                   early, starved>>

UnblockTerm ==
    /\ MainStep("created", "unblocked")
    /\ UNCHANGED <<proc, term, usr1, bail, fds, note, stray, srvVars>>

InstallTerm ==
    /\ MainStep("unblocked", "handling")
    /\ UNCHANGED <<proc, term, usr1, bail, fds, note, stray, srvVars>>

\* sd_notify opens a socket, sends READY=1 and closes the socket (external)
NotifyOpen ==
    /\ MainStep("handling", "notifying")
    /\ note' = Opened
    /\ Open("notify")
    /\ UNCHANGED <<proc, term, usr1, bail, stray, srvVars>>

NotifySend ==
    /\ MainStep("notifying", "joining")
    /\ note' = -1
    /\ Close(note, "notify")
    /\ UNCHANGED <<proc, term, usr1, bail, srvVars>>

\* pthread_join returns, and main does
Join ==
    /\ MainStep("joining", "joining")
    /\ srv = "stopped"
    /\ proc' = "stopped"
    /\ UNCHANGED <<term, usr1, bail, fds, note, stray, srvVars>>

-----------------------------------------------------------------------------
(* The server thread *)

\* mainloop_add_fd takes the number
Watchable == epoll >= 0 /\ fd < MaxEntries

SrvStep(from, to) ==
    /\ proc = "running"
    /\ srv = from
    /\ srv' = to
    /\ early' = (early \/ (to = "init" /\ main # "joining"))
    /\ starved' = (starved \/ (from = "create" /\ to = "close_fd" /\ Watchable))
    /\ UNCHANGED <<main, term, usr1, bail, note>>

UnblockUsr1 ==
    /\ SrvStep("masked", "unblocked")
    /\ UNCHANGED <<proc, fds, dd, fd, sk, epoll, stray>>

InstallUsr1 ==
    /\ SrvStep("unblocked", "loop")
    /\ UNCHANGED <<proc, fds, dd, fd, sk, epoll, stray>>

\* while (!bail)
LoopEnd ==
    /\ SrvStep("loop", "final_fd")
    /\ bail
    /\ UNCHANGED <<proc, fds, dd, fd, sk, epoll, stray>>

\* hci_open_dev at `from'. In restart_advert the variable is a local.
OpenHci(from, to) ==
    /\ SrvStep(from, to)
    /\ Free # {}
    /\ dd' = Lowest
    /\ Open("hci")
    /\ UNCHANGED <<proc, fd, sk, epoll, stray>>

\* exit() or abort(): hci_open_dev finds no device, or no descriptor is left
ExitAt(from) ==
    /\ SrvStep(from, from)
    /\ proc' = "failed"
    /\ UNCHANGED <<fds, dd, fd, sk, epoll, stray>>

RestartAdvert ==
    /\ SrvStep("loop", "advert")
    /\ ~bail
    /\ Free # {}
    /\ sk' = Lowest      \* the local dd of restart_advert
    /\ Open("hci")
    /\ UNCHANGED <<proc, dd, fd, epoll, stray>>

\* hci_send_cmd, and the filter before the first one
AdvertSends ==
    /\ SrvStep("advert", "read") \/ SrvStep("resend", "reread")
    /\ UNCHANGED <<proc, fds, dd, fd, sk, epoll, stray>>

\* An event of the controller, any event, ends a read; nothing else does but a
\* signal or a failure of the device: the reads have no timeout
HciEvent ==
    /\ SrvStep("read", "resend") \/ SrvStep("reread", "requests")
    /\ UNCHANGED <<proc, fds, dd, fd, sk, epoll, stray>>

ReadFails ==
    /\ \E from \in Reads : SrvStep(from, "unread")
    /\ UNCHANGED <<proc, fds, dd, fd, sk, epoll, stray>>

\* Where restart_advert may end: at an error anywhere but inside a read, or after
\* its two requests (hci_send_req gives up after 500 ms and 1 s)
AdvertEnds ==
    \/ \E from \in Advert \ Reads : SrvStep(from, "loop")
    \/ SrvStep("requests", "open")

\* Mutant of Advertised: the device stays open after an error
AdvertisedOpen ==
    /\ AdvertEnds
    /\ sk' = -1
    /\ IF srv' = "open" THEN Close(sk, "hci") ELSE UNCHANGED <<fds, stray>>
    /\ UNCHANGED <<proc, dd, fd, epoll>>

\* restart_advert ends, with an error or not, and closes its device
Advertised ==
    /\ AdvertEnds
    /\ sk' = -1
    /\ Close(sk, "hci")
    /\ UNCHANGED <<proc, dd, fd, epoll>>

OpenDev == OpenHci("open", "listen")

AdvertFails == srv = "loop" /\ ~bail /\ ExitAt("loop")
OpenFails == ExitAt("open")

\* l2cap_le_att_listen_and_accept: socket()
Socket ==
    /\ SrvStep("listen", "bind")
    /\ Free # {}
    /\ sk' = Lowest
    /\ Open("listen")
    /\ UNCHANGED <<proc, dd, fd, epoll, stray>>

SocketFails ==
    /\ SrvStep("listen", "close_hci")
    /\ fd' = -1
    /\ UNCHANGED <<proc, fds, dd, sk, epoll, stray>>

\* bind, setsockopt, listen
Bind ==
    /\ SrvStep("bind", "select")
    /\ UNCHANGED <<proc, fds, dd, fd, sk, epoll, stray>>

BindFails ==
    /\ SrvStep("bind", "close_sk")
    /\ fd' = -1
    /\ UNCHANGED <<proc, fds, dd, sk, epoll, stray>>

\* select reports a client and accept takes it
Accept ==
    /\ SrvStep("select", "close_sk")
    /\ Free # {}
    /\ fd' = Lowest
    /\ Open("conn")
    /\ UNCHANGED <<proc, dd, sk, epoll, stray>>

SelectFailsStale ==
    /\ SrvStep("select", "close_sk")
    /\ UNCHANGED <<proc, fds, dd, fd, sk, epoll, stray>>

\* select times out after 90 s, or accept fails
SelectFails ==
    /\ SrvStep("select", "close_sk")
    /\ fd' = -1
    /\ UNCHANGED <<proc, fds, dd, sk, epoll, stray>>

\* Mutant of CloseSk: a failure returns without close(sk)
CloseSkServed ==
    /\ \E to \in {"init", "close_hci"} :
           SrvStep("close_sk", to) /\ (to = "init" <=> fd >= 0)
    /\ sk' = -1
    /\ IF fd >= 0 THEN Close(sk, "listen") ELSE UNCHANGED <<fds, stray>>
    /\ UNCHANGED <<proc, dd, fd, epoll>>

\* The end of l2cap_le_att_listen_and_accept
CloseSk ==
    /\ \E to \in {"init", "close_hci"} :
           SrvStep("close_sk", to) /\ (to = "init" <=> fd >= 0)
    /\ sk' = -1
    /\ Close(sk, "listen")
    /\ UNCHANGED <<proc, dd, fd, epoll>>

\* gatt_service: mainloop_init
LoopInit ==
    /\ SrvStep("init", "create")
    /\ epoll' = Opened
    /\ Open("epoll")
    /\ UNCHANGED <<proc, dd, fd, sk, stray>>

\* server_create. bt_att_new opens the three descriptors of bt_crypto, or none
\* when there is no room for three.
Create ==
    /\ SrvStep("create", "run")
    /\ Watchable
    /\ LET taken == {n \in Free : Cardinality({m \in Free : m < n}) < 3}
       IN  fds' = IF Cardinality(taken) < 3 THEN fds
                  ELSE [n \in Numbers |->
                           IF n \in taken THEN "crypto" ELSE fds[n]]
    /\ UNCHANGED <<proc, dd, fd, sk, epoll, stray>>

\* bt_att_new fails: io_new, or what comes after it (its buffer), which frees
\* bt_crypto again and leaves the connection open. server_create returns NULL,
\* gatt_service closes the connection and leaves without mainloop_run, so the
\* epoll descriptor stays open.
CreateFails ==
    /\ SrvStep("create", "close_fd")
    /\ Close(fd, "conn")
    /\ UNCHANGED <<proc, dd, fd, sk, epoll>>

\* No memory later: new0 aborts, confirm_write exits, and when populate_db
\* fails server_create calls free() on the literal device_name, which aborts
CreateExits == ExitAt("create") /\ Watchable

\* The client leaves: disconnect_cb, where io_destroy closes the connection,
\* and att_disconnect_cb, which calls mainloop_quit
Disconnect ==
    /\ SrvStep("run", "quit")
    /\ Close(fd, "conn")
    /\ UNCHANGED <<proc, dd, fd, sk, epoll>>

\* clock_command calls exit(EXIT_FAILURE)
CommandExit ==
    /\ SrvStep("run", "run")
    /\ proc' = "failed"
    /\ UNCHANGED <<fds, dd, fd, sk, epoll, stray>>

\* mainloop_run ends, then server_destroy. One reference to the bt_att is
\* left: bt_att_free does not run and bt_crypto keeps its descriptors.
Quit ==
    /\ SrvStep("quit", "close_fd")
    /\ epoll' = 0
    /\ Close(epoll, "epoll")
    /\ UNCHANGED <<proc, dd, fd, sk>>

\* close(fd) in the loop: the number was closed already
CloseFd ==
    /\ SrvStep("close_fd", "close_hci")
    /\ Close(fd, "conn")
    /\ UNCHANGED <<proc, dd, fd, sk, epoll>>

CloseHci ==
    /\ SrvStep("close_hci", "loop")
    /\ Close(dd, "hci")
    /\ UNCHANGED <<proc, dd, fd, sk, epoll>>

\* After the loop both numbers are closed once more
FinalFd ==
    /\ SrvStep("final_fd", "final_hci")
    /\ Close(fd, "conn")
    /\ UNCHANGED <<proc, dd, fd, sk, epoll>>

FinalHci ==
    /\ SrvStep("final_hci", "stopped")
    /\ Close(dd, "hci")
    /\ UNCHANGED <<proc, dd, fd, sk, epoll>>

-----------------------------------------------------------------------------
(* Signals *)

\* systemd or the user asks the daemon to stop
Stop ==
    /\ proc = "running"
    /\ ~term
    /\ term' = TRUE
    /\ UNCHANGED <<proc, main, usr1, bail, fds, note, stray, srvVars>>

\* SIGTERM reaches the main thread, the only one that may unblock it: the
\* default action, or the handler term of main.c, which sends SIGUSR1
DeliverTerm ==
    /\ proc = "running"
    /\ term
    /\ main \notin {"start", "created"}
    /\ term' = FALSE
    /\ IF main = "unblocked"
       THEN proc' = "killed" /\ UNCHANGED usr1
       ELSE usr1' = (srv # "stopped") /\ UNCHANGED proc
    /\ UNCHANGED <<main, bail, fds, note, stray, srvVars>>

\* SIGUSR1 reaches the server thread: the default action, or the handler term
\* of server.c. A select, or a read of restart_advert, that waits fails with
\* EINTR; epoll_wait and the poll of hci_send_req are called again.
DeliverUsr1 ==
    /\ proc = "running"
    /\ usr1
    /\ srv # "masked"
    /\ usr1' = FALSE
    /\ IF srv = "unblocked"
       THEN proc' = "killed" /\ UNCHANGED <<bail, srv, fd>>
       ELSE /\ bail' = TRUE
            /\ \/ srv = "select" /\ srv' = "close_sk" /\ fd' = -1
               \/ srv \in Reads /\ srv' = "unread" /\ UNCHANGED fd
               \/ srv \notin Reads \cup {"select"} /\ UNCHANGED <<srv, fd>>
            /\ UNCHANGED proc
    /\ UNCHANGED <<main, term, fds, dd, sk, epoll, note, stray, early, starved>>

-----------------------------------------------------------------------------
MainThread == CreateThread \/ UnblockTerm \/ InstallTerm \/ NotifyOpen
                  \/ NotifySend \/ Join

\* The steps the server thread takes by itself: select ends in 90 s at most,
\* with a client or without
ServerRuns ==
    \/ UnblockUsr1 \/ InstallUsr1 \/ LoopEnd \/ RestartAdvert \/ AdvertFails
    \/ AdvertSends \/ Advertised \/ OpenDev \/ OpenFails \/ Socket
    \/ SocketFails \/ Bind \/ BindFails \/ SelectFails \/ CloseSk \/ LoopInit
    \/ Create \/ CreateFails \/ CreateExits \/ Quit \/ CloseFd \/ CloseHci
    \/ FinalFd \/ FinalHci

\* What only the client brings about
Client == Accept \/ Disconnect \/ CommandExit

\* What only the controller brings about
Controller == HciEvent \/ ReadFails

Next == MainThread \/ ServerRuns \/ Client \/ Controller \/ Stop
            \/ DeliverTerm \/ DeliverUsr1

Spec == Init /\ [][Next]_vars

(* Both threads are scheduled and signals are delivered; nothing makes a    *)
(* client come or leave, or the controller send an event.                   *)
Fairness ==
    /\ WF_vars(MainThread)
    /\ WF_vars(ServerRuns)
    /\ WF_vars(DeliverTerm)
    /\ WF_vars(DeliverUsr1)

FairSpec == Spec /\ Fairness

-----------------------------------------------------------------------------
(* Properties *)

\* The parent left 0, 1 and 2 open and nothing else
ThreeInherited == \A n \in Numbers \ (0 .. 2) : fds[n] # "std"

\* A client that was accepted is served: its descriptor has a number
\* mainloop_add_fd takes (below MAX_MAINLOOP_ENTRIES) and epoll_create1 did not
\* fail, however many clients came before and left the three descriptors of
\* their bt_crypto behind; if the main thread was done with sd_notify first,
\* the daemon was started with 0, 1 and 2 only, as systemd does, and no
\* server_create failed for want of memory.
ClientServed ==
    srv = "create" /\ ~early /\ ~starved /\ ThreeInherited => Watchable

\* On every path through the loop, failures included, what it opened is closed
\* again when it starts over, but for what bt_crypto holds; as above (when
\* server_create fails, mainloop_run does not close the epoll descriptor).
LoopReleases ==
    srv = "loop" /\ ~early /\ ~starved /\ ThreeInherited => \A n \in Numbers :
        fds[n] \in {"free", "std", "crypto", "notify"}

\* The numbers closed twice (by io_destroy and by server_thread; in the loop and
\* after it) are nobody else's: neither the bt_crypto of an older client nor the
\* device is lost by them. Only one thing can be hit, the socket of sd_notify
\* in the main thread; and stdin, while fd and dd are still 0.
NoStrayClose == stray \subseteq {"std"} \/ "notify" \in stray


\* With READY=1 sent the daemon is started and a stop request does not kill it:
\* it stops by itself.
ReadyMeansHandled == main = "joining" => proc # "killed"
=============================================================================
