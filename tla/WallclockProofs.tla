--------------------------- MODULE WallclockProofs ---------------------------
(***************************************************************************)
(* Proofs about WallclockServer.  The double closes hit nobody because     *)
(* each number the server thread still remembers is, at each point of its  *)
(* program, either held by the one descriptor it was opened for or stale:  *)
(* free, sd_notify's or stdin's.  Clients are served because at most one   *)
(* descriptor of all the bt_crypto left behind is below 7.                 *)
(***************************************************************************)
EXTENDS WallclockServer, TLAPS, WellFoundedInduction

-----------------------------------------------------------------------------
(* Numbers and sequences *)

\* A set of numbers that is not empty has a least one.
LEMMA Least ==
    ASSUME NEW T, T \subseteq Nat, T # {}
    PROVE  \E x \in T : \A y \in T : x <= y
<1>1. PICK x \in T : \A y \in T : ~(<<y, x>> \in OpToRel(<, Nat))
  BY NatLessThanWellFounded, WFMin
<1>2. \A y \in T : ~(y < x)
  BY <1>1 DEF OpToRel
<1> QED
  BY <1>2

\* Min finds it.
LEMMA MinIsLeast ==
    ASSUME NEW T, T \subseteq Nat, T # {}
    PROVE  Min(T) \in T /\ \A y \in T : Min(T) <= y
BY Least DEF Min

-----------------------------------------------------------------------------
Types ==
    /\ main \in MainAt
    /\ srv \in SrvAt
    /\ fds \in [Numbers -> Kind \cup {"free"}]
    /\ dd \in Int /\ fd \in Int /\ sk \in Int /\ epoll \in Int /\ note \in Int
    /\ stray \subseteq Kind
    /\ early \in BOOLEAN /\ starved \in BOOLEAN
    /\ main = "start" <=> srv = "none"

\* The one descriptor of this kind is n, as long as `held' says so
Owned(kind, held, n) ==
    /\ held => n \in Numbers
    /\ \A m \in Numbers : fds[m] = kind <=> held /\ m = n

\* A number that was closed, or was never opened: closing it hits nobody
\* but sd_notify and stdin
Stale(n) ==
    \/ n \notin Numbers
    \/ fds[n] \in {"free", "notify"}
    \/ fds[n] = "std" /\ n = 0
    \/ srv \in Advert /\ n = sk

InLoop == Advert \cup {"none", "masked", "unblocked", "loop"}
DevOpen == {"listen", "bind", "select", "close_sk", "init", "create", "run",
            "quit", "close_fd", "close_hci"}
Serving == {"init", "create", "run"}
SockOpen == {"bind", "select", "close_sk"}

Owners ==
    /\ Owned("notify", main = "notifying" /\ note # -1, note)
    /\ IF srv \in Advert THEN Owned("hci", TRUE, sk)
                        ELSE Owned("hci", srv \in DevOpen, dd)
    /\ Owned("listen", srv \in SockOpen, sk)
    /\ Owned("conn", srv \in Serving \/ (srv = "close_sk" /\ fd # -1), fd)

Remembered ==
    /\ srv = "create" => epoll = -1 \/ (epoll \in Numbers /\ fds[epoll] =
         "epoll")
    /\ srv \in {"run", "quit"} => epoll \in Numbers /\ fds[epoll] = "epoll"
    /\ srv \in {"quit", "close_fd"} =>
           fd \notin Numbers \/ fds[fd] \in {"free", "notify"}
    /\ srv \in InLoop \cup {"open", "close_hci", "final_fd"} => Stale(fd)
    /\ srv \in InLoop \cup {"open", "final_fd", "final_hci"} => Stale(dd)

\* Until sd_notify is hit, only stdin was
Tidy == stray \subseteq {"std"} /\ Owners /\ Remembered

StrayInv == Types /\ ("notify" \in stray \/ Tidy)

Ended == {"final_hci", "stopped"}

\* sd_notify is over when the first client comes: from then on until the loop
\* is left a number can only be closed under its owner
Calm ==
    /\ "notify" \notin stray
    /\ main # "joining" => srv \notin Serving \cup {"quit", "close_fd"}
    /\ \A n \in 0 .. 2 : fds[n] = "std"

\* With 0, 1 and 2 inherited only, as well
Room ==
    /\ main # "joining" => \A n \in Numbers : fds[n] # "crypto"
    /\ \A m, n \in 3 .. 6 : fds[m] = "crypto" /\ fds[n] = "crypto" => m = n
    /\ srv \in DevOpen => dd <= 6
    /\ srv \in SockOpen => sk <= 6
    /\ srv \in Serving \cup {"close_sk"} => fd <= 6
    /\ Owned("epoll", srv \in {"create", "run", "quit"}, epoll)
    /\ srv \in {"create", "run", "quit"} => epoll <= 6

RoomInv ==
    /\ StrayInv
    /\ ~early /\ ~starved /\ srv \notin Ended => Calm /\ (ThreeInherited => Room)

-----------------------------------------------------------------------------
(* The lowest free number *)

\* What a call that opens a descriptor returns was free
LEMMA LowestFree ==
    ASSUME Free # {}
    PROVE  /\ Lowest \in Numbers /\ fds[Lowest] = "free"
           /\ \A n \in Numbers : fds[n] = "free" => Lowest <= n
<1>1. Free \in SUBSET Nat
  BY TableAssumption, SMT DEF Free, Numbers
<1>2. Lowest \in Free /\ \A n \in Free : Lowest <= n
  BY <1>1, MinIsLeast DEF Lowest
<1> QED
  BY <1>2, Zenon DEF Free

\* What a call that fails returns is no descriptor
LEMMA NoNumber == -1 \notin Numbers /\ Numbers \subseteq Nat
  BY TableAssumption, SMT DEF Numbers

\* What opening and closing do to the table, number by number
LEMMA OpenedFds ==
    ASSUME Types, NEW kind \in Kind, Free # {}, Open(kind)
    PROVE  /\ Lowest \in Numbers /\ Lowest \in Int /\ fds[Lowest] = "free"
           /\ fds' \in [Numbers -> Kind \cup {"free"}]
           /\ \A m \in Numbers : fds'[m] = IF m = Lowest THEN kind ELSE fds[m]
<1>1. Lowest \in Numbers /\ fds[Lowest] = "free"
  BY LowestFree
<1>2. Lowest \in Int
  BY <1>1, TableAssumption, SMT DEF Numbers
<1>3. fds' = [fds EXCEPT ![Lowest] = kind]
  BY Zenon DEF Open
<1> QED
  BY <1>1, <1>2, <1>3, SMT DEF Types, Advert, Reads

LEMMA ClosedFds ==
    ASSUME Types, NEW n, NEW kind, Close(n, kind)
    PROVE  /\ fds' \in [Numbers -> Kind \cup {"free"}]
           /\ \A m \in Numbers : fds'[m] = IF m = n THEN "free" ELSE fds[m]
           /\ stray' \subseteq Kind
           /\ stray \subseteq stray'
           /\ n \notin Numbers => stray' = stray
           /\ n \in Numbers =>
                 stray' = IF fds[n] \in {"free", kind} THEN stray
                                                       ELSE stray \cup {fds[n]}
<1>1. CASE n \in Numbers
  <2>1. fds' = [fds EXCEPT ![n] = "free"]
    BY <1>1, Zenon DEF Close
  <2>2. stray' = IF fds[n] \in {"free", kind} THEN stray ELSE stray \cup
       {fds[n]}
    BY <1>1, Zenon DEF Close
  <2> QED
    BY <1>1, <2>1, <2>2, SMT DEF Types, Advert, Reads
<1>2. CASE n \notin Numbers
  <2>1. fds' = fds /\ stray' = stray
    BY <1>2, Zenon DEF Close
  <2> QED
    BY <1>2, <2>1, SMT DEF Types, Advert, Reads
<1> QED
  BY <1>1, <1>2

-----------------------------------------------------------------------------
(* Steps that open or close a descriptor preserve the invariant *)

LEMMA RestartAdvertStrays ==
    ASSUME StrayInv, RestartAdvert
    PROVE  StrayInv'
<1>1. Free # {} /\ Open("hci")
  BY Zenon DEF RestartAdvert
<1>2. /\ Lowest \in Numbers /\ Lowest \in Int /\ fds[Lowest] = "free"
      /\ fds' \in [Numbers -> Kind \cup {"free"}]
      /\ \A m \in Numbers : fds'[m] = IF m = Lowest THEN "hci" ELSE fds[m]
  BY <1>1, OpenedFds, SMT DEF StrayInv, Kind
<1>3. Types'
  BY <1>2, SMT DEF StrayInv, Types, RestartAdvert, SrvStep, SrvAt, Advert, Reads
<1>4. ASSUME Tidy PROVE Tidy'
  <2> USE <1>2, <1>4 DEF RestartAdvert, SrvStep, Tidy
  <2>1. Owners'
    BY SMT DEF Owners, Owned, DevOpen, Serving, SockOpen, Advert, Reads
  <2>2. /\ srv = "loop" /\ srv' = "advert" /\ sk' = Lowest
        /\ fd' = fd /\ dd' = dd
    OBVIOUS
  <2>3. ASSUME NEW n, Stale(n)
        PROVE  Stale(n)'
    <3>1. CASE n = Lowest
      BY <2>2, <3>1, Zenon DEF Stale, Advert, Reads
    <3>2. CASE n \in Numbers /\ n # Lowest
      <4>1. fds'[n] = fds[n]
        BY <1>2, <3>2
      <4> QED
        BY <2>2, <2>3, <4>1, Zenon DEF Stale, Advert, Reads
    <3> QED
      BY <3>1, <3>2, Zenon DEF Stale, Advert, Reads
  <2>4. Stale(fd) /\ Stale(dd)
    BY <2>2, Zenon DEF Remembered, InLoop, Advert, Reads
  <2>5. Stale(fd)' /\ Stale(dd)'
    <3>1. fd' = fd /\ dd' = dd
      BY <2>2
    <3> QED
      BY <2>2, <2>3, <2>4, <3>1, SMT DEF Stale, Advert, Reads
  <2>6. Remembered'
    BY <2>2, <2>5, Zenon DEF Remembered, InLoop, Advert, Reads
  <2> QED
    BY <2>1, <2>6, SMT
<1> QED
  BY <1>3, <1>4, SMT DEF StrayInv, RestartAdvert

LEMMA OpenDevStrays ==
    ASSUME StrayInv, OpenDev
    PROVE  StrayInv'
<1>1. Free # {} /\ Open("hci")
  BY Zenon DEF OpenDev, OpenHci
<1>2. /\ Lowest \in Numbers /\ Lowest \in Int /\ fds[Lowest] = "free"
      /\ fds' \in [Numbers -> Kind \cup {"free"}]
      /\ \A m \in Numbers : fds'[m] = IF m = Lowest THEN "hci" ELSE fds[m]
  BY <1>1, OpenedFds, SMT DEF StrayInv, Kind
<1>3. Types'
  BY <1>2, SMT DEF StrayInv, Types, OpenDev, OpenHci, SrvStep, SrvAt, Advert,
     Reads
<1>4. ASSUME Tidy PROVE Tidy'
  <2> USE <1>2, <1>4 DEF OpenDev, OpenHci, SrvStep, Tidy
  <2>1. Owners'
    BY SMT DEF Owners, Owned, DevOpen, Serving, SockOpen, Advert, Reads
  <2>2. Remembered'
    BY SMT DEF Owners, Owned, Remembered, Stale, InLoop, DevOpen,
        Serving, SockOpen, Advert, Reads
  <2> QED
    BY <2>1, <2>2, SMT
<1> QED
  BY <1>3, <1>4, SMT DEF StrayInv, OpenDev, OpenHci

LEMMA SocketStrays ==
    ASSUME StrayInv, Socket
    PROVE  StrayInv'
<1>1. Free # {} /\ Open("listen")
  BY Zenon DEF Socket
<1>2. /\ Lowest \in Numbers /\ Lowest \in Int /\ fds[Lowest] = "free"
      /\ fds' \in [Numbers -> Kind \cup {"free"}]
      /\ \A m \in Numbers : fds'[m] = IF m = Lowest THEN "listen" ELSE fds[m]
  BY <1>1, OpenedFds, SMT DEF StrayInv, Kind
<1>3. Types'
  BY <1>2, SMT DEF StrayInv, Types, Socket, SrvStep, SrvAt, Advert, Reads
<1>4. ASSUME Tidy PROVE Tidy'
  <2> USE <1>2, <1>4 DEF Socket, SrvStep, Tidy
  <2>1. Owners'
    BY SMT DEF Owners, Owned, DevOpen, Serving, SockOpen, Advert, Reads
  <2>2. Remembered'
    BY SMT DEF Owners, Owned, Remembered, Stale, InLoop, DevOpen,
        Serving, SockOpen, Advert, Reads
  <2> QED
    BY <2>1, <2>2, SMT
<1> QED
  BY <1>3, <1>4, SMT DEF StrayInv, Socket

LEMMA AcceptStrays ==
    ASSUME StrayInv, Accept
    PROVE  StrayInv'
<1>1. Free # {} /\ Open("conn")
  BY Zenon DEF Accept
<1>2. /\ Lowest \in Numbers /\ Lowest \in Int /\ fds[Lowest] = "free"
      /\ fds' \in [Numbers -> Kind \cup {"free"}]
      /\ \A m \in Numbers : fds'[m] = IF m = Lowest THEN "conn" ELSE fds[m]
  BY <1>1, OpenedFds, SMT DEF StrayInv, Kind
<1>3. Types'
  BY <1>2, SMT DEF StrayInv, Types, Accept, SrvStep, SrvAt, Advert, Reads
<1>4. ASSUME Tidy PROVE Tidy'
  <2> USE <1>2, <1>4 DEF Accept, SrvStep, Tidy
  <2>1. Owners'
    BY NoNumber, SMT DEF Owners, Owned, DevOpen, Serving, SockOpen, Advert,
       Reads
  <2>2. Remembered'
    BY SMT DEF Owners, Owned, Remembered, Stale, InLoop, DevOpen,
        Serving, SockOpen, Advert, Reads
  <2> QED
    BY <2>1, <2>2, SMT
<1> QED
  BY <1>3, <1>4, SMT DEF StrayInv, Accept

LEMMA NotifySendStrays ==
    ASSUME StrayInv, NotifySend
    PROVE  StrayInv'
<1>1. Close(note, "notify")
  BY Zenon DEF NotifySend
<1>2. /\ fds' \in [Numbers -> Kind \cup {"free"}]
      /\ \A m \in Numbers : fds'[m] = IF m = note THEN "free" ELSE fds[m]
      /\ stray' \subseteq Kind /\ stray \subseteq stray'
  BY <1>1, ClosedFds, SMT DEF StrayInv
<1>3. Types'
  BY <1>2, SMT DEF StrayInv, Types, NotifySend, MainStep, srvVars, SrvAt,
     MainAt, Advert, Reads
<1>4. ASSUME Tidy, note # -1 PROVE Tidy'
  <2>1. note \in Numbers /\ fds[note] = "notify"
    BY <1>4, SMT DEF Tidy, Owners, Remembered, Owned, DevOpen, Serving,
        SockOpen, NotifySend, MainStep, srvVars, Advert, Reads
  <2>2. stray' = stray
    BY <1>1, <2>1, Zenon DEF Close
  <2>3. Owners'
    BY <1>2, <1>4, <2>1, SMT DEF NotifySend, MainStep, srvVars, Tidy, Owners,
        Owned, DevOpen, Serving, SockOpen, Advert, Reads
  <2>4. Remembered'
    BY <1>2, <1>4, <2>1, SMT DEF NotifySend, MainStep, srvVars, Tidy, Owners,
        Owned, Remembered, Stale, InLoop, DevOpen,
        Serving, SockOpen, Advert, Reads
  <2> QED
    BY <1>4, <2>2, <2>3, <2>4, Zenon DEF Tidy
<1>5. ASSUME Tidy, note = -1 PROVE Tidy'
  <2>1. fds' = fds /\ stray' = stray
    BY <1>1, <1>5, NoNumber, SMT DEF Close
  <2> QED
    BY <1>5, <2>1, SMT DEF NotifySend, MainStep, srvVars, Tidy, Owners,
        Owned, Remembered, Stale, InLoop, DevOpen,
        Serving, SockOpen, Advert, Reads
<1> QED
  BY <1>2, <1>3, <1>4, <1>5, Zenon DEF StrayInv

LEMMA AdvertisedStrays ==
    ASSUME StrayInv, Advertised
    PROVE  StrayInv'
<1>1. Close(sk, "hci")
  BY Zenon DEF Advertised, AdvertEnds
<1>2. /\ fds' \in [Numbers -> Kind \cup {"free"}]
      /\ \A m \in Numbers : fds'[m] = IF m = sk THEN "free" ELSE fds[m]
      /\ stray' \subseteq Kind /\ stray \subseteq stray'
  BY <1>1, ClosedFds, SMT DEF StrayInv
<1>3. Types'
  BY <1>2, SMT DEF StrayInv, Types, Advertised, SrvStep, SrvAt, MainAt, Advert,
     Reads, AdvertEnds
<1>4. ASSUME Tidy PROVE Tidy'
  <2>1. sk \in Numbers /\ fds[sk] = "hci"
    BY <1>4, SMT DEF Tidy, Owners, Remembered, Owned, DevOpen, Serving,
        SockOpen, Advertised, SrvStep, Advert, Reads, AdvertEnds
  <2>2. stray' = stray
    BY <1>1, <2>1, Zenon DEF Close
  <2>3. Owners'
    BY <1>2, <1>4, <2>1, SMT DEF Advertised, SrvStep, Tidy, Owners, Owned,
        DevOpen, Serving, SockOpen, Advert, Reads, AdvertEnds
  <2>4. Remembered'
    BY <1>2, <1>4, <2>1, SMT DEF Advertised, SrvStep, Tidy, Owners, Owned,
        Remembered, Stale, InLoop, DevOpen,
        Serving, SockOpen, Advert, Reads, AdvertEnds
  <2> QED
    BY <1>4, <2>2, <2>3, <2>4, Zenon DEF Tidy
<1> QED
  BY <1>2, <1>3, <1>4, Zenon DEF StrayInv

LEMMA CloseSkStrays ==
    ASSUME StrayInv, CloseSk
    PROVE  StrayInv'
<1>1. Close(sk, "listen")
  BY Zenon DEF CloseSk
<1>2. /\ fds' \in [Numbers -> Kind \cup {"free"}]
      /\ \A m \in Numbers : fds'[m] = IF m = sk THEN "free" ELSE fds[m]
      /\ stray' \subseteq Kind /\ stray \subseteq stray'
  BY <1>1, ClosedFds, SMT DEF StrayInv
<1>3. Types'
  BY <1>2, SMT DEF StrayInv, Types, CloseSk, SrvStep, SrvAt, MainAt, Advert,
     Reads
<1>4. ASSUME Tidy PROVE Tidy'
  <2>1. sk \in Numbers /\ fds[sk] = "listen"
    BY <1>4, SMT DEF Tidy, Owners, Remembered, Owned, DevOpen, Serving,
        SockOpen, CloseSk, SrvStep, Advert, Reads
  <2>2. stray' = stray
    BY <1>1, <2>1, Zenon DEF Close
  <2>3. /\ srv = "close_sk" /\ srv' \in {"init", "close_hci"}
        /\ srv' = "init" <=> fd # -1
        /\ sk' = -1 /\ UNCHANGED <<main, note, dd, fd, epoll>>
    <3>1. fd >= 0 <=> fd # -1
      <4>1. fd # -1 => fd \in Numbers
        BY <1>4, SMT DEF Tidy, Owners, Owned, CloseSk, SrvStep, Advert, Reads
      <4>2. fd # -1 => fd \in Nat
        BY <4>1, NoNumber, Zenon
      <4> QED
        BY <4>2, SMT
    <3> QED
      BY <3>1, Zenon DEF CloseSk, SrvStep
  <2>4. Owners'
    BY <1>2, <2>3, <1>4, <2>1, SMT DEF Tidy, Owners, Owned, DevOpen, Serving,
        SockOpen, Advert, Reads
  <2>5. Remembered'
    BY NoNumber, <1>2, <2>3, <1>4, <2>1, SMT DEF Tidy, Owners, Owned,
        Remembered, Stale, InLoop, DevOpen,
        Serving, SockOpen, Advert, Reads
  <2> QED
    BY <1>4, <2>2, <2>4, <2>5, Zenon DEF Tidy
<1> QED
  BY <1>2, <1>3, <1>4, Zenon DEF StrayInv

LEMMA CreateFailsStrays ==
    ASSUME StrayInv, CreateFails
    PROVE  StrayInv'
<1>1. Close(fd, "conn")
  BY Zenon DEF CreateFails
<1>2. /\ fds' \in [Numbers -> Kind \cup {"free"}]
      /\ \A m \in Numbers : fds'[m] = IF m = fd THEN "free" ELSE fds[m]
      /\ stray' \subseteq Kind /\ stray \subseteq stray'
  BY <1>1, ClosedFds, SMT DEF StrayInv
<1>3. Types'
  BY <1>2, SMT DEF StrayInv, Types, CreateFails, SrvStep, SrvAt, MainAt,
     Advert, Reads
<1>4. ASSUME Tidy PROVE Tidy'
  <2>1. fd \in Numbers /\ fds[fd] = "conn"
    BY <1>4, SMT DEF Tidy, Owners, Remembered, Owned, DevOpen, Serving,
        SockOpen, CreateFails, SrvStep, Advert, Reads
  <2>2. stray' = stray
    BY <1>1, <2>1, Zenon DEF Close
  <2>3. Owners'
    BY <1>2, <1>4, <2>1, SMT DEF CreateFails, SrvStep, Tidy, Owners, Owned,
        DevOpen, Serving, SockOpen, Advert, Reads
  <2>4. Remembered'
    BY <1>2, <1>4, <2>1, SMT DEF CreateFails, SrvStep, Tidy, Owners, Owned,
        Remembered, Stale, InLoop, DevOpen,
        Serving, SockOpen, Advert, Reads
  <2> QED
    BY <1>4, <2>2, <2>3, <2>4, Zenon DEF Tidy
<1> QED
  BY <1>2, <1>3, <1>4, Zenon DEF StrayInv

LEMMA DisconnectStrays ==
    ASSUME StrayInv, Disconnect
    PROVE  StrayInv'
<1>1. Close(fd, "conn")
  BY Zenon DEF Disconnect
<1>2. /\ fds' \in [Numbers -> Kind \cup {"free"}]
      /\ \A m \in Numbers : fds'[m] = IF m = fd THEN "free" ELSE fds[m]
      /\ stray' \subseteq Kind /\ stray \subseteq stray'
  BY <1>1, ClosedFds, SMT DEF StrayInv
<1>3. Types'
  BY <1>2, SMT DEF StrayInv, Types, Disconnect, SrvStep, SrvAt, MainAt, Advert,
     Reads
<1>4. ASSUME Tidy PROVE Tidy'
  <2>1. fd \in Numbers /\ fds[fd] = "conn"
    BY <1>4, SMT DEF Tidy, Owners, Remembered, Owned, DevOpen, Serving,
        SockOpen, Disconnect, SrvStep, Advert, Reads
  <2>2. stray' = stray
    BY <1>1, <2>1, Zenon DEF Close
  <2>3. Owners'
    BY <1>2, <1>4, <2>1, SMT DEF Disconnect, SrvStep, Tidy, Owners, Owned,
        DevOpen, Serving, SockOpen, Advert, Reads
  <2>4. Remembered'
    BY <1>2, <1>4, <2>1, SMT DEF Disconnect, SrvStep, Tidy, Owners, Owned,
        Remembered, Stale, InLoop, DevOpen,
        Serving, SockOpen, Advert, Reads
  <2> QED
    BY <1>4, <2>2, <2>3, <2>4, Zenon DEF Tidy
<1> QED
  BY <1>2, <1>3, <1>4, Zenon DEF StrayInv

LEMMA QuitStrays ==
    ASSUME StrayInv, Quit
    PROVE  StrayInv'
<1>1. Close(epoll, "epoll")
  BY Zenon DEF Quit
<1>2. /\ fds' \in [Numbers -> Kind \cup {"free"}]
      /\ \A m \in Numbers : fds'[m] = IF m = epoll THEN "free" ELSE fds[m]
      /\ stray' \subseteq Kind /\ stray \subseteq stray'
  BY <1>1, ClosedFds, SMT DEF StrayInv
<1>3. Types'
  BY <1>2, SMT DEF StrayInv, Types, Quit, SrvStep, SrvAt, MainAt, Advert, Reads
<1>4. ASSUME Tidy PROVE Tidy'
  <2>1. epoll \in Numbers /\ fds[epoll] = "epoll"
    BY <1>4, SMT DEF Tidy, Owners, Remembered, Owned, DevOpen, Serving,
        SockOpen, Quit, SrvStep, Advert, Reads
  <2>2. stray' = stray
    BY <1>1, <2>1, Zenon DEF Close
  <2>3. Owners'
    BY <1>2, <1>4, <2>1, SMT DEF Quit, SrvStep, Tidy, Owners, Owned, DevOpen,
        Serving, SockOpen, Advert, Reads
  <2>4. Remembered'
    BY <1>2, <1>4, <2>1, SMT DEF Quit, SrvStep, Tidy, Owners, Owned,
        Remembered, Stale, InLoop, DevOpen,
        Serving, SockOpen, Advert, Reads
  <2> QED
    BY <1>4, <2>2, <2>3, <2>4, Zenon DEF Tidy
<1> QED
  BY <1>2, <1>3, <1>4, Zenon DEF StrayInv

LEMMA CloseHciStrays ==
    ASSUME StrayInv, CloseHci
    PROVE  StrayInv'
<1>1. Close(dd, "hci")
  BY Zenon DEF CloseHci
<1>2. /\ fds' \in [Numbers -> Kind \cup {"free"}]
      /\ \A m \in Numbers : fds'[m] = IF m = dd THEN "free" ELSE fds[m]
      /\ stray' \subseteq Kind /\ stray \subseteq stray'
  BY <1>1, ClosedFds, SMT DEF StrayInv
<1>3. Types'
  BY <1>2, SMT DEF StrayInv, Types, CloseHci, SrvStep, SrvAt, MainAt, Advert,
     Reads
<1>4. ASSUME Tidy PROVE Tidy'
  <2>1. dd \in Numbers /\ fds[dd] = "hci"
    BY <1>4, SMT DEF Tidy, Owners, Remembered, Owned, DevOpen, Serving,
        SockOpen, CloseHci, SrvStep, Advert, Reads
  <2>2. stray' = stray
    BY <1>1, <2>1, Zenon DEF Close
  <2>3. Owners'
    BY <1>2, <1>4, <2>1, SMT DEF CloseHci, SrvStep, Tidy, Owners, Owned,
        DevOpen, Serving, SockOpen, Advert, Reads
  <2>4. Remembered'
    BY <1>2, <1>4, <2>1, SMT DEF CloseHci, SrvStep, Tidy, Owners, Owned,
        Remembered, Stale, InLoop, DevOpen,
        Serving, SockOpen, Advert, Reads
  <2> QED
    BY <1>4, <2>2, <2>3, <2>4, Zenon DEF Tidy
<1> QED
  BY <1>2, <1>3, <1>4, Zenon DEF StrayInv

LEMMA CloseFdStrays ==
    ASSUME StrayInv, CloseFd
    PROVE  StrayInv'
<1>1. Close(fd, "conn")
  BY Zenon DEF CloseFd
<1>2. /\ fds' \in [Numbers -> Kind \cup {"free"}]
      /\ \A m \in Numbers : fds'[m] = IF m = fd THEN "free" ELSE fds[m]
      /\ stray' \subseteq Kind /\ stray \subseteq stray'
  BY <1>1, ClosedFds, SMT DEF StrayInv
<1>3. Types'
  BY <1>2, SMT DEF StrayInv, Types, CloseFd, SrvStep, SrvAt, Advert, Reads
<1>4. ASSUME Tidy, "notify" \notin stray' PROVE Tidy'
  <2>1. fd \in Numbers => fds[fd] \in {"free", "std"}
    <3>1. fd \in Numbers => fds[fd] \in {"free", "std", "notify"}
      BY <1>4, SMT DEF Tidy, Owners, Owned, Remembered, Stale, InLoop, DevOpen,
        Serving, SockOpen, CloseFd, SrvStep, Advert, Reads
    <3>2. fd \in Numbers => fds[fd] # "notify"
      BY <1>1, <1>4, Zenon DEF Close
    <3> QED
      BY <3>1, <3>2
  <2>2. stray' \subseteq {"std"}
    <3>1. stray' = stray \/ stray' = stray \cup {"std"}
      BY <1>1, <2>1, Zenon DEF Close
    <3> QED
      BY <1>4, <3>1, Zenon DEF Tidy
  <2>3. Owners'
    BY <1>2, <1>4, <2>1, SMT DEF CloseFd, SrvStep, Tidy, Owners, Owned,
        DevOpen, Serving, SockOpen, Advert, Reads
  <2>4. Remembered'
    BY <1>2, <1>4, <2>1, SMT DEF CloseFd, SrvStep, Tidy, Owners, Owned,
        Remembered, Stale, InLoop, DevOpen,
        Serving, SockOpen, Advert, Reads
  <2> QED
    BY <2>2, <2>3, <2>4, Zenon DEF Tidy
<1> QED
  BY <1>2, <1>3, <1>4, Zenon DEF StrayInv

LEMMA FinalFdStrays ==
    ASSUME StrayInv, FinalFd
    PROVE  StrayInv'
<1>1. Close(fd, "conn")
  BY Zenon DEF FinalFd
<1>2. /\ fds' \in [Numbers -> Kind \cup {"free"}]
      /\ \A m \in Numbers : fds'[m] = IF m = fd THEN "free" ELSE fds[m]
      /\ stray' \subseteq Kind /\ stray \subseteq stray'
  BY <1>1, ClosedFds, SMT DEF StrayInv
<1>3. Types'
  BY <1>2, SMT DEF StrayInv, Types, FinalFd, SrvStep, SrvAt, Advert, Reads
<1>4. ASSUME Tidy, "notify" \notin stray' PROVE Tidy'
  <2>1. fd \in Numbers => fds[fd] \in {"free", "std"}
    <3>1. fd \in Numbers => fds[fd] \in {"free", "std", "notify"}
      BY <1>4, SMT DEF Tidy, Owners, Owned, Remembered, Stale, InLoop, DevOpen,
        Serving, SockOpen, FinalFd, SrvStep, Advert, Reads
    <3>2. fd \in Numbers => fds[fd] # "notify"
      BY <1>1, <1>4, Zenon DEF Close
    <3> QED
      BY <3>1, <3>2
  <2>2. stray' \subseteq {"std"}
    <3>1. stray' = stray \/ stray' = stray \cup {"std"}
      BY <1>1, <2>1, Zenon DEF Close
    <3> QED
      BY <1>4, <3>1, Zenon DEF Tidy
  <2>3. Owners'
    BY <1>2, <1>4, <2>1, SMT DEF FinalFd, SrvStep, Tidy, Owners, Owned,
        DevOpen, Serving, SockOpen, Advert, Reads
  <2>4. Remembered'
    BY <1>2, <1>4, <2>1, SMT DEF FinalFd, SrvStep, Tidy, Owners, Owned,
        Remembered, Stale, InLoop, DevOpen,
        Serving, SockOpen, Advert, Reads
  <2> QED
    BY <2>2, <2>3, <2>4, Zenon DEF Tidy
<1> QED
  BY <1>2, <1>3, <1>4, Zenon DEF StrayInv

LEMMA FinalHciStrays ==
    ASSUME StrayInv, FinalHci
    PROVE  StrayInv'
<1>1. Close(dd, "hci")
  BY Zenon DEF FinalHci
<1>2. /\ fds' \in [Numbers -> Kind \cup {"free"}]
      /\ \A m \in Numbers : fds'[m] = IF m = dd THEN "free" ELSE fds[m]
      /\ stray' \subseteq Kind /\ stray \subseteq stray'
  BY <1>1, ClosedFds, SMT DEF StrayInv
<1>3. Types'
  BY <1>2, SMT DEF StrayInv, Types, FinalHci, SrvStep, SrvAt, Advert, Reads
<1>4. ASSUME Tidy, "notify" \notin stray' PROVE Tidy'
  <2>1. dd \in Numbers => fds[dd] \in {"free", "std"}
    <3>1. dd \in Numbers => fds[dd] \in {"free", "std", "notify"}
      BY <1>4, SMT DEF Tidy, Owners, Owned, Remembered, Stale, InLoop, DevOpen,
        Serving, SockOpen, FinalHci, SrvStep, Advert, Reads
    <3>2. dd \in Numbers => fds[dd] # "notify"
      BY <1>1, <1>4, Zenon DEF Close
    <3> QED
      BY <3>1, <3>2
  <2>2. stray' \subseteq {"std"}
    <3>1. stray' = stray \/ stray' = stray \cup {"std"}
      BY <1>1, <2>1, Zenon DEF Close
    <3> QED
      BY <1>4, <3>1, Zenon DEF Tidy
  <2>3. Owners'
    BY <1>2, <1>4, <2>1, SMT DEF FinalHci, SrvStep, Tidy, Owners, Owned,
        DevOpen, Serving, SockOpen, Advert, Reads
  <2>4. Remembered'
    BY <1>2, <1>4, <2>1, SMT DEF FinalHci, SrvStep, Tidy, Owners, Owned,
        Remembered, Stale, InLoop, DevOpen,
        Serving, SockOpen, Advert, Reads
  <2> QED
    BY <2>2, <2>3, <2>4, Zenon DEF Tidy
<1> QED
  BY <1>2, <1>3, <1>4, Zenon DEF StrayInv

LEMMA NotifyOpenStrays ==
    ASSUME StrayInv, NotifyOpen
    PROVE  StrayInv'
<1>1. note' = Opened /\ Open("notify")
  BY Zenon DEF NotifyOpen
<1>2. CASE Free = {}
  <2>1. note' = -1 /\ fds' = fds
    BY <1>1, <1>2, Zenon DEF Opened, Open
  <2> QED
    BY <2>1, SMT DEF NotifyOpen, MainStep, srvVars, StrayInv, Types, MainAt,
        Tidy, Owners, Owned, Remembered, Stale, InLoop, DevOpen, Serving,
        SockOpen, Advert, Reads
<1>3. CASE Free # {}
  <2>1. /\ Lowest \in Numbers /\ Lowest \in Int /\ fds[Lowest] = "free"
        /\ fds' \in [Numbers -> Kind \cup {"free"}]
        /\ \A m \in Numbers : fds'[m] = IF m = Lowest THEN "notify" ELSE fds[m]
    BY <1>1, <1>3, OpenedFds, SMT DEF StrayInv, Kind
  <2>2. note' = Lowest /\ note' # -1
    BY <1>1, <1>3, <2>1, NoNumber, Zenon DEF Opened
  <2>3. Types'
    BY <2>1, <2>2, SMT DEF StrayInv, Types, NotifyOpen, MainStep, MainAt,
        srvVars, Advert, Reads
  <2>4. ASSUME Tidy PROVE Tidy'
    <3> USE <2>1, <2>2, <2>4 DEF NotifyOpen, MainStep, srvVars, Tidy
    <3>1. Owners'
      BY SMT DEF Owners, Owned, DevOpen, Serving, SockOpen, Advert, Reads
    <3>2. ASSUME NEW n, Stale(n)
          PROVE  Stale(n)'
      <4>1. CASE n = Lowest
        BY <4>1, Zenon DEF Stale, Advert, Reads
      <4>2. CASE n \in Numbers /\ n # Lowest
        <5>1. fds'[n] = fds[n]
          BY <4>2
        <5> QED
          BY <3>2, <5>1, Zenon DEF Stale, Advert, Reads
      <4> QED
        BY <4>1, <4>2, Zenon DEF Stale, Advert, Reads
    <3>3. Stale(fd) => Stale(fd)'
      BY <3>2, SMT DEF Stale, Advert, Reads
    <3>4. Stale(dd) => Stale(dd)'
      BY <3>2, SMT DEF Stale, Advert, Reads
    <3>5. /\ srv' = srv /\ epoll' = epoll /\ fd' = fd
          /\ \A n \in Numbers : fds[n] = "epoll" => fds'[n] = "epoll"
          /\ \A n \in Numbers : fds[n] \in {"free", "notify"} =>
                                    fds'[n] \in {"free", "notify"}
      BY SMT
    <3>6. Remembered'
      BY <3>3, <3>4, <3>5, Zenon DEF Remembered, Advert, Reads
    <3> QED
      BY <3>1, <3>6, SMT
  <2> QED
    BY <2>3, <2>4, SMT DEF StrayInv, NotifyOpen
<1> QED
  BY <1>2, <1>3

LEMMA LoopInitStrays ==
    ASSUME StrayInv, LoopInit
    PROVE  StrayInv'
<1>1. epoll' = Opened /\ Open("epoll")
  BY Zenon DEF LoopInit
<1>2. CASE Free = {}
  <2>1. epoll' = -1 /\ fds' = fds
    BY <1>1, <1>2, Zenon DEF Opened, Open
  <2> QED
    BY <2>1, SMT DEF LoopInit, SrvStep, StrayInv, Types, SrvAt,
        Tidy, Owners, Owned, Remembered, Stale, InLoop, DevOpen, Serving,
        SockOpen, Advert, Reads
<1>3. CASE Free # {}
  <2>1. /\ Lowest \in Numbers /\ Lowest \in Int /\ fds[Lowest] = "free"
        /\ fds' \in [Numbers -> Kind \cup {"free"}]
        /\ \A m \in Numbers : fds'[m] = IF m = Lowest THEN "epoll" ELSE fds[m]
    BY <1>1, <1>3, OpenedFds, SMT DEF StrayInv, Kind
  <2>2. epoll' = Lowest
    BY <1>1, <1>3, Zenon DEF Opened
  <2>3. Types'
    BY <2>1, <2>2, SMT DEF StrayInv, Types, LoopInit, SrvStep, SrvAt, Advert,
       Reads
  <2>4. ASSUME Tidy PROVE Tidy'
    <3> USE <2>1, <2>2, <2>4 DEF LoopInit, SrvStep, Tidy
    <3>1. Owners'
      BY SMT DEF Owners, Owned, DevOpen, Serving, SockOpen, Advert, Reads
    <3>2. Remembered'
      BY SMT DEF Owners, Owned, Remembered, Stale, InLoop, DevOpen, Serving,
          SockOpen, Advert, Reads
    <3> QED
      BY <3>1, <3>2, SMT
  <2> QED
    BY <2>3, <2>4, SMT DEF StrayInv, LoopInit
<1> QED
  BY <1>2, <1>3

\* bt_crypto takes numbers that were free
LEMMA CreateFds ==
    ASSUME Types, Create
    PROVE  /\ fds' \in [Numbers -> Kind \cup {"free"}]
           /\ \A n \in Numbers :
                 fds'[n] = fds[n] \/ (fds[n] = "free" /\ fds'[n] = "crypto")
<1> DEFINE taken == {n \in Free : Cardinality({m \in Free : m < n}) < 3}
<1>1. fds' = IF Cardinality(taken) < 3 THEN fds
             ELSE [n \in Numbers |-> IF n \in taken THEN "crypto" ELSE fds[n]]
  BY Zenon DEF Create
<1>2. \A n \in taken : n \in Numbers /\ fds[n] = "free"
  BY Zenon DEF Free
<1> HIDE DEF taken
<1> QED
  BY <1>1, <1>2, SMT DEF Types, Kind, Advert, Reads

LEMMA CreateStrays ==
    ASSUME StrayInv, Create
    PROVE  StrayInv'
<1>1. /\ fds' \in [Numbers -> Kind \cup {"free"}]
      /\ \A n \in Numbers :
            fds'[n] = fds[n] \/ (fds[n] = "free" /\ fds'[n] = "crypto")
  BY CreateFds, Zenon DEF StrayInv
<1>2. /\ srv = "create" /\ srv' = "run" /\ early' = early /\ starved' = starved
      /\ epoll >= 0
      /\ UNCHANGED <<main, note, dd, fd, sk, epoll, stray>>
  BY SMT DEF Create, SrvStep, Watchable, StrayInv, Types, Advert, Reads
<1>3. Types'
  BY <1>1, <1>2, SMT DEF StrayInv, Types, SrvAt, Advert, Reads
<1>4. ASSUME Tidy PROVE Tidy'
  <2>1. Owners'
    BY <1>1, <1>2, <1>4, SMT DEF Tidy, Owners, Owned, DevOpen, Serving,
       SockOpen, Advert, Reads
  <2>2. Remembered'
    BY <1>1, <1>2, <1>4, SMT DEF Tidy, Owners, Owned, Remembered, Stale, InLoop,
        DevOpen, Serving, SockOpen, Advert, Reads
  <2> QED
    BY <1>2, <1>4, <2>1, <2>2, Zenon DEF Tidy
<1> QED
  BY <1>2, <1>3, <1>4, Zenon DEF StrayInv

LEMMA SocketFailsStrays ==
    ASSUME StrayInv, SocketFails
    PROVE  StrayInv'
  BY NoNumber, SMT DEF SocketFails, StrayInv, Types, Tidy, Owners, Owned,
       Remembered, Stale, InLoop, DevOpen,
     Serving, SockOpen, SrvStep, SrvAt, Advert, Reads

LEMMA CreateThreadStrays ==
    ASSUME StrayInv, CreateThread
    PROVE  StrayInv'
<1>1. ASSUME NEW n, Stale(n), srv = "none" PROVE Stale(n)'
  BY <1>1, SMT DEF Stale, CreateThread, Advert, Reads
<1>2. srv = "none"
  BY SMT DEF CreateThread, MainStep, StrayInv, Types, Advert, Reads
<1> QED
  BY <1>1, <1>2, SMT DEF CreateThread, StrayInv, Types, Tidy, Owners, Owned,
       Remembered, Stale, InLoop, DevOpen,
     Serving, SockOpen, MainStep, MainAt, SrvAt, Advert, Reads

-----------------------------------------------------------------------------
(* The double closes *)

LEMMA StrayInit == Init => StrayInv
<1> SUFFICES ASSUME Init
             PROVE  StrayInv
  OBVIOUS
<1>1. PICK k \in Inherited :
         fds = [n \in Numbers |-> IF n < k THEN "std" ELSE "free"]
  BY Zenon DEF Init
<1>2. /\ fds \in [Numbers -> Kind \cup {"free"}]
      /\ \A n \in Numbers : fds[n] \in {"std", "free"}
  BY <1>1, SMT DEF Kind
<1>3. Types
  <2>1. /\ main \in MainAt /\ srv \in SrvAt
        /\ stray \subseteq Kind /\ early \in BOOLEAN /\ starved \in BOOLEAN
        /\ main = "start" <=> srv = "none"
    BY Zenon DEF Init, MainAt, SrvAt, Advert, Reads
  <2>2. dd \in Int /\ fd \in Int /\ sk \in Int /\ epoll \in Int /\ note \in Int
    BY SMT DEF Init
  <2> QED
    BY <1>2, <2>1, <2>2, Zenon DEF Types, Advert, Reads
<1>4. Owners
  BY <1>2, SMT DEF Init, Owners, Owned, DevOpen, Serving, SockOpen, Advert,
     Reads
<1>5. Remembered
  <2>1. Stale(0)
    BY <1>2, Zenon DEF Stale, Advert, Reads
  <2> QED
    BY <2>1, Zenon DEF Init, Remembered, Advert, Reads
<1> QED
  BY <1>3, <1>4, <1>5, SMT DEF Init, StrayInv, Tidy

LEMMA StrayStep == StrayInv /\ [Next]_vars => StrayInv'
<1> SUFFICES ASSUME StrayInv, [Next]_vars
             PROVE  StrayInv'
  OBVIOUS
<1>1. CASE CreateThread
  BY <1>1, CreateThreadStrays
<1>2. CASE NotifyOpen
  BY <1>2, NotifyOpenStrays
<1>3. CASE NotifySend
  BY <1>3, NotifySendStrays
<1>4. CASE RestartAdvert
  BY <1>4, RestartAdvertStrays
<1>5. CASE Advertised
  BY <1>5, AdvertisedStrays
<1>6. CASE OpenDev
  BY <1>6, OpenDevStrays
<1>7. CASE Socket
  BY <1>7, SocketStrays
<1>8. CASE SocketFails
  BY <1>8, SocketFailsStrays
<1>9. CASE Accept
  BY <1>9, AcceptStrays
<1>10. CASE CloseSk
  BY <1>10, CloseSkStrays
<1>11. CASE LoopInit
  BY <1>11, LoopInitStrays
<1>12. CASE Create
  BY <1>12, CreateStrays
<1>13. CASE CreateFails
  BY <1>13, CreateFailsStrays
<1>14. CASE Disconnect
  BY <1>14, DisconnectStrays
<1>15. CASE Quit
  BY <1>15, QuitStrays
<1>16. CASE CloseFd
  BY <1>16, CloseFdStrays
<1>17. CASE CloseHci
  BY <1>17, CloseHciStrays
<1>18. CASE FinalFd
  BY <1>18, FinalFdStrays
<1>19. CASE FinalHci
  BY <1>19, FinalHciStrays
<1>20. CASE UnblockTerm
  BY <1>20, NoNumber, SMT DEF UnblockTerm, StrayInv, Types, Tidy, Owners,
       Owned, Remembered, Stale, InLoop, DevOpen,
         Serving, SockOpen, SrvStep, MainStep, MainAt, SrvAt, srvVars, Advert,
         Reads
<1>21. CASE InstallTerm
  BY <1>21, NoNumber, SMT DEF InstallTerm, StrayInv, Types, Tidy, Owners,
       Owned, Remembered, Stale, InLoop, DevOpen,
         Serving, SockOpen, SrvStep, MainStep, MainAt, SrvAt, srvVars, Advert,
         Reads
<1>22. CASE Join
  BY <1>22, NoNumber, SMT DEF Join, StrayInv, Types, Tidy, Owners, Owned,
       Remembered, Stale, InLoop, DevOpen,
         Serving, SockOpen, SrvStep, MainStep, MainAt, SrvAt, srvVars, Advert,
         Reads
<1>23. CASE UnblockUsr1
  BY <1>23, NoNumber, SMT DEF UnblockUsr1, StrayInv, Types, Tidy, Owners,
       Owned, Remembered, Stale, InLoop, DevOpen,
         Serving, SockOpen, SrvStep, MainStep, MainAt, SrvAt, srvVars, Advert,
         Reads
<1>24. CASE InstallUsr1
  BY <1>24, NoNumber, SMT DEF InstallUsr1, StrayInv, Types, Tidy, Owners,
       Owned, Remembered, Stale, InLoop, DevOpen,
         Serving, SockOpen, SrvStep, MainStep, MainAt, SrvAt, srvVars, Advert,
         Reads
<1>25. CASE LoopEnd
  BY <1>25, NoNumber, SMT DEF LoopEnd, StrayInv, Types, Tidy, Owners, Owned,
       Remembered, Stale, InLoop, DevOpen,
         Serving, SockOpen, SrvStep, MainStep, MainAt, SrvAt, srvVars, Advert,
         Reads
<1>26. CASE AdvertFails
  BY <1>26, NoNumber, SMT DEF AdvertFails, ExitAt, StrayInv, Types, Tidy,
       Owners, Owned, Remembered, Stale, InLoop, DevOpen,
         Serving, SockOpen, SrvStep, MainStep, MainAt, SrvAt, srvVars, Advert,
         Reads
<1>27. CASE OpenFails
  BY <1>27, NoNumber, SMT DEF OpenFails, ExitAt, StrayInv, Types, Tidy,
       Owners, Owned, Remembered, Stale, InLoop, DevOpen,
         Serving, SockOpen, SrvStep, MainStep, MainAt, SrvAt, srvVars, Advert,
         Reads
<1>28. CASE Bind
  BY <1>28, NoNumber, SMT DEF Bind, StrayInv, Types, Tidy, Owners, Owned,
       Remembered, Stale, InLoop, DevOpen,
         Serving, SockOpen, SrvStep, MainStep, MainAt, SrvAt, srvVars, Advert,
         Reads
<1>29. CASE BindFails
  BY <1>29, NoNumber, SMT DEF BindFails, StrayInv, Types, Tidy, Owners,
       Owned, Remembered, Stale, InLoop, DevOpen,
         Serving, SockOpen, SrvStep, MainStep, MainAt, SrvAt, srvVars, Advert,
         Reads
<1>30. CASE SelectFails
  BY <1>30, NoNumber, SMT DEF SelectFails, StrayInv, Types, Tidy, Owners,
       Owned, Remembered, Stale, InLoop, DevOpen,
         Serving, SockOpen, SrvStep, MainStep, MainAt, SrvAt, srvVars, Advert,
         Reads
<1>31. CASE CommandExit
  BY <1>31, NoNumber, SMT DEF CommandExit, StrayInv, Types, Tidy, Owners,
       Owned, Remembered, Stale, InLoop, DevOpen,
         Serving, SockOpen, SrvStep, MainStep, MainAt, SrvAt, srvVars, Advert,
         Reads
<1>32. CASE Stop
  BY <1>32, NoNumber, SMT DEF Stop, StrayInv, Types, Tidy, Owners, Owned,
       Remembered, Stale, InLoop, DevOpen,
         Serving, SockOpen, SrvStep, MainStep, MainAt, SrvAt, srvVars, Advert,
         Reads
<1>33. CASE DeliverTerm
  BY <1>33, NoNumber, SMT DEF DeliverTerm, StrayInv, Types, Tidy, Owners,
       Owned, Remembered, Stale, InLoop, DevOpen,
         Serving, SockOpen, SrvStep, MainStep, MainAt, SrvAt, srvVars, Advert,
         Reads
<1>34. CASE DeliverUsr1
  BY <1>34, NoNumber, SMT DEF DeliverUsr1, StrayInv, Types, Tidy, Owners,
       Owned, Remembered, Stale, InLoop, DevOpen,
         Serving, SockOpen, SrvStep, MainStep, MainAt, SrvAt, srvVars, Advert,
         Reads
<1>35. CASE UNCHANGED vars
  BY <1>35, SMT DEF vars, StrayInv, Types, Tidy, Owners, Owned, Remembered,
       Stale, InLoop, DevOpen,
         Serving, SockOpen, SrvStep, MainStep, MainAt, SrvAt, srvVars, Advert,
         Reads
<1>36. CASE AdvertSends
  BY <1>36, NoNumber, SMT DEF AdvertSends, StrayInv, Types, Tidy, Owners,
       Owned, Remembered, Stale, InLoop, DevOpen, Serving, SockOpen, SrvStep,
       MainStep, MainAt, SrvAt, srvVars, Advert, Reads
<1>37. CASE HciEvent
  BY <1>37, NoNumber, SMT DEF HciEvent, StrayInv, Types, Tidy, Owners,
       Owned, Remembered, Stale, InLoop, DevOpen, Serving, SockOpen, SrvStep,
       MainStep, MainAt, SrvAt, srvVars, Advert, Reads
<1>38. CASE ReadFails
  BY <1>38, NoNumber, SMT DEF ReadFails, StrayInv, Types, Tidy, Owners,
       Owned, Remembered, Stale, InLoop, DevOpen, Serving, SockOpen, SrvStep,
       MainStep, MainAt, SrvAt, srvVars, Advert, Reads
<1>39. CASE CreateExits
  BY <1>39, NoNumber, SMT DEF CreateExits, ExitAt, StrayInv, Types, Tidy,
     Owners,
       Owned, Remembered, Stale, InLoop, DevOpen, Serving, SockOpen, SrvStep,
       MainStep, MainAt, SrvAt, srvVars, Advert, Reads
<1> QED
  BY <1>1, <1>2, <1>3, <1>4, <1>5, <1>6, <1>7, <1>8, <1>9, <1>10, <1>11,
       <1>12, <1>13, <1>14, <1>15, <1>16, <1>17, <1>18, <1>19, <1>20, <1>21,
         <1>22, <1>23, <1>24, <1>25, <1>26, <1>27, <1>28, <1>29, <1>30,
         <1>31, <1>32, <1>33, <1>34, <1>35,
         <1>36, <1>37, <1>38, <1>39,
     SMT DEF Next, MainThread, ServerRuns, Client, Controller

\* The inductive invariant of the descriptor table
LEMMA StrayInvariant == Spec => []StrayInv
<1>1. Init => StrayInv
  BY StrayInit
<1>2. StrayInv /\ [Next]_vars => StrayInv'
  BY StrayStep
<1> QED
  BY <1>1, <1>2, PTL DEF Spec

(* The numbers that server.c closes twice are nobody else's: on every path,*)
(* with signals, failures and sd_notify at any moment, a close takes away  *)
(* no device, socket, epoll or bt_crypto descriptor of another owner as    *)
(* long as it has not hit the socket of sd_notify.                         *)
THEOREM DoubleClosesAreSafe == Spec => []NoStrayClose
<1>1. StrayInv => NoStrayClose
  BY Zenon DEF StrayInv, Tidy, NoStrayClose
<1> QED
  BY <1>1, StrayInvariant, PTL

-----------------------------------------------------------------------------
(* Room for every client *)

\* One of the numbers 3 to 6 is free when the server thread opens something
LEMMA RoomForOne ==
    ASSUME StrayInv, Calm, ThreeInherited, Room,
           srv \in {"open", "listen", "select", "init"}
    PROVE  Free # {} /\ Lowest <= 6
<1>1. {3, 4, 5, 6} \subseteq Numbers
  BY RoomAssumption, TableAssumption, SMT DEF Numbers
<1>2. Owners
  BY Zenon DEF StrayInv, Calm, Tidy
<1>3. fds \in [Numbers -> Kind \cup {"free"}]
  BY Zenon DEF StrayInv, Types, Advert, Reads
<1>4. \A n \in {3, 4, 5, 6} : fds[n] \notin {"std", "epoll"}
  BY <1>1, SMT DEF ThreeInherited, Room, Owned
<1>5. \A m, n \in {3, 4, 5, 6} : fds[m] = fds[n] /\ fds[n] # "free" => m = n
  BY <1>1, <1>2, <1>3, <1>4, SMT DEF Owners, Owned, Room, Kind, Advert, Reads
<1>6. ASSUME \A n \in {3, 4, 5, 6} : fds[n] # "free"
      PROVE  \E n \in {3, 4, 5, 6} : fds[n] = "conn"
  <2>1. \A n \in {3, 4, 5, 6} : fds[n] \in {"hci", "listen", "conn",
       "crypto", "notify"}
    BY <1>1, <1>3, <1>4, <1>6, SMT DEF Kind
  <2>2. (\E n \in {3, 4, 5, 6} : fds[n] = "crypto") => \A n \in {3, 4, 5, 6}
       : fds[n] # "notify"
    BY <1>1, <1>2, SMT DEF Owners, Owned, Room, Advert, Reads
  <2> QED
    BY <1>5, <2>1, <2>2, SMT
<1>7. \E n \in {3, 4, 5, 6} : fds[n] = "free"
  <2>1. (\E n \in {3, 4, 5, 6} : fds[n] = "conn") => srv = "init"
    BY <1>1, <1>2, SMT DEF Owners, Owned, Serving, Advert, Reads
  <2>2. srv = "init" => \A n \in {3, 4, 5, 6} : fds[n] \notin {"listen",
       "notify"}
    BY <1>1, <1>2, SMT DEF Owners, Owned, SockOpen, Calm, Serving, Advert, Reads
  <2>3. srv = "init" => \E n \in {3, 4, 5, 6} : fds[n] = "free"
    BY <1>1, <1>3, <1>4, <1>5, <2>2, SMT DEF Kind
  <2> QED
    BY <1>6, <2>1, <2>3, Zenon
<1> QED
  BY <1>1, <1>7, LowestFree, TableAssumption, SMT DEF Free, Numbers
LEMMA SmallNumbers ==
    /\ 0 .. 6 \subseteq Numbers
    /\ 0 .. 2 \subseteq Numbers /\ 3 .. 6 \subseteq Numbers
  BY RoomAssumption, TableAssumption, SMT DEF Numbers

LEMMA RestartAdvertRoom ==
    ASSUME RoomInv, RestartAdvert, StrayInv', ~early', ~starved',
    srv' \notin Ended
    PROVE  Calm' /\ (ThreeInherited' => Room')
<1>1. Free # {} /\ Open("hci")
  BY Zenon DEF RestartAdvert
<1>2. /\ Lowest \in Numbers /\ Lowest \in Int /\ fds[Lowest] = "free"
      /\ \A m \in Numbers : fds'[m] = IF m = Lowest THEN "hci" ELSE fds[m]
  BY <1>1, OpenedFds, SMT DEF RoomInv, StrayInv, Kind
<1>3. ~early /\ ~starved /\ srv \notin Ended
  BY SMT DEF RestartAdvert, SrvStep, Ended, RoomInv, StrayInv, Types, Advert,
     Reads
<1>4. Calm /\ (ThreeInherited => Room)
  BY <1>3, Zenon DEF RoomInv
<1>5. Calm'
  BY <1>2, <1>4, SmallNumbers, SMT DEF RestartAdvert, SrvStep, Calm, Serving
<1>6. ThreeInherited' => ThreeInherited
  BY <1>2, SMT DEF ThreeInherited
<1>7. ASSUME ThreeInherited
      PROVE  Room'
  <2> QED
    BY <1>2, <1>4, <1>7, SmallNumbers, SMT DEF RestartAdvert, SrvStep, Room,
         Owned, DevOpen,
       Serving, SockOpen
<1> QED
  BY <1>5, <1>6, <1>7

LEMMA OpenDevRoom ==
    ASSUME RoomInv, OpenDev, StrayInv', ~early', ~starved', srv' \notin Ended
    PROVE  Calm' /\ (ThreeInherited' => Room')
<1>1. Free # {} /\ Open("hci")
  BY Zenon DEF OpenDev, OpenHci
<1>2. /\ Lowest \in Numbers /\ Lowest \in Int /\ fds[Lowest] = "free"
      /\ \A m \in Numbers : fds'[m] = IF m = Lowest THEN "hci" ELSE fds[m]
  BY <1>1, OpenedFds, SMT DEF RoomInv, StrayInv, Kind
<1>3. ~early /\ ~starved /\ srv \notin Ended
  BY SMT DEF OpenDev, OpenHci, SrvStep, Ended, RoomInv, StrayInv, Types,
     Advert, Reads
<1>4. Calm /\ (ThreeInherited => Room)
  BY <1>3, Zenon DEF RoomInv
<1>5. Calm'
  BY <1>2, <1>4, SmallNumbers, SMT DEF OpenDev, OpenHci, SrvStep, Calm, Serving
<1>6. ThreeInherited' => ThreeInherited
  BY <1>2, SMT DEF ThreeInherited
<1>7. ASSUME ThreeInherited
      PROVE  Room'
  <2>1. Lowest <= 6
    BY <1>4, <1>7, RoomForOne, Zenon DEF RoomInv, OpenDev, OpenHci, SrvStep
  <2> QED
    BY <1>2, <1>4, <1>7, SmallNumbers, <2>1, SMT DEF OpenDev, OpenHci,
         SrvStep, Room, Owned, DevOpen,
       Serving, SockOpen
<1> QED
  BY <1>5, <1>6, <1>7

LEMMA SocketRoom ==
    ASSUME RoomInv, Socket, StrayInv', ~early', ~starved', srv' \notin Ended
    PROVE  Calm' /\ (ThreeInherited' => Room')
<1>1. Free # {} /\ Open("listen")
  BY Zenon DEF Socket
<1>2. /\ Lowest \in Numbers /\ Lowest \in Int /\ fds[Lowest] = "free"
      /\ \A m \in Numbers : fds'[m] = IF m = Lowest THEN "listen" ELSE fds[m]
  BY <1>1, OpenedFds, SMT DEF RoomInv, StrayInv, Kind
<1>3. ~early /\ ~starved /\ srv \notin Ended
  BY SMT DEF Socket, SrvStep, Ended, RoomInv, StrayInv, Types, Advert, Reads
<1>4. Calm /\ (ThreeInherited => Room)
  BY <1>3, Zenon DEF RoomInv
<1>5. Calm'
  BY <1>2, <1>4, SmallNumbers, SMT DEF Socket, SrvStep, Calm, Serving
<1>6. ThreeInherited' => ThreeInherited
  BY <1>2, SMT DEF ThreeInherited
<1>7. ASSUME ThreeInherited
      PROVE  Room'
  <2>1. Lowest <= 6
    BY <1>4, <1>7, RoomForOne, Zenon DEF RoomInv, Socket, SrvStep
  <2> QED
    BY <1>2, <1>4, <1>7, SmallNumbers, <2>1, SMT DEF Socket, SrvStep, Room,
         Owned, DevOpen,
       Serving, SockOpen
<1> QED
  BY <1>5, <1>6, <1>7

LEMMA AcceptRoom ==
    ASSUME RoomInv, Accept, StrayInv', ~early', ~starved', srv' \notin Ended
    PROVE  Calm' /\ (ThreeInherited' => Room')
<1>1. Free # {} /\ Open("conn")
  BY Zenon DEF Accept
<1>2. /\ Lowest \in Numbers /\ Lowest \in Int /\ fds[Lowest] = "free"
      /\ \A m \in Numbers : fds'[m] = IF m = Lowest THEN "conn" ELSE fds[m]
  BY <1>1, OpenedFds, SMT DEF RoomInv, StrayInv, Kind
<1>3. ~early /\ ~starved /\ srv \notin Ended
  BY SMT DEF Accept, SrvStep, Ended, RoomInv, StrayInv, Types, Advert, Reads
<1>4. Calm /\ (ThreeInherited => Room)
  BY <1>3, Zenon DEF RoomInv
<1>5. Calm'
  BY <1>2, <1>4, SmallNumbers, SMT DEF Accept, SrvStep, Calm, Serving
<1>6. ThreeInherited' => ThreeInherited
  BY <1>2, SMT DEF ThreeInherited
<1>7. ASSUME ThreeInherited
      PROVE  Room'
  <2>1. Lowest <= 6
    BY <1>4, <1>7, RoomForOne, Zenon DEF RoomInv, Accept, SrvStep
  <2> QED
    BY <1>2, <1>4, <1>7, SmallNumbers, <2>1, SMT DEF Accept, SrvStep, Room,
         Owned, DevOpen,
       Serving, SockOpen
<1> QED
  BY <1>5, <1>6, <1>7

LEMMA NotifySendRoom ==
    ASSUME RoomInv, NotifySend, StrayInv', ~early', ~starved', srv' \notin Ended
    PROVE  Calm' /\ (ThreeInherited' => Room')
<1>1. Close(note, "notify")
  BY Zenon DEF NotifySend
<1>2. \A m \in Numbers : fds'[m] = IF m = note THEN "free" ELSE fds[m]
  BY <1>1, ClosedFds, SMT DEF RoomInv, StrayInv
<1>3. ~early /\ ~starved /\ srv \notin Ended
  BY SMT DEF NotifySend, MainStep, srvVars, Ended, RoomInv, StrayInv, Types,
     Advert, Reads
<1>4. Calm /\ (ThreeInherited => Room) /\ Tidy
  BY <1>3, Zenon DEF RoomInv, StrayInv, Calm
<1>5. note \notin Numbers \/ fds[note] = "notify"
  <2>1. CASE note = -1
    BY <2>1, NoNumber, Zenon
  <2>2. CASE note # -1
    BY <1>4, <2>2, SMT DEF NotifySend, MainStep, Tidy, Owners, Owned, Advert,
       Reads
  <2> QED
    BY <2>1, <2>2
<1>6. stray' = stray
  BY <1>1, <1>5, Zenon DEF Close
<1>7. Calm'
  BY <1>2, <1>4, <1>5, <1>6, SmallNumbers, SMT DEF NotifySend, MainStep,
       srvVars, Calm, Serving
<1>8. ThreeInherited' => ThreeInherited
  BY <1>2, <1>5, SMT DEF ThreeInherited
<1>9. ASSUME ThreeInherited
      PROVE  Room'
  BY <1>2, <1>4, <1>5, <1>9, SmallNumbers, SMT DEF NotifySend, MainStep,
       srvVars, Room, Owned, DevOpen,
     Serving, SockOpen
<1> QED
  BY <1>7, <1>8, <1>9

LEMMA AdvertisedRoom ==
    ASSUME RoomInv, Advertised, StrayInv', ~early', ~starved', srv' \notin Ended
    PROVE  Calm' /\ (ThreeInherited' => Room')
<1>1. Close(sk, "hci")
  BY Zenon DEF Advertised, AdvertEnds
<1>2. \A m \in Numbers : fds'[m] = IF m = sk THEN "free" ELSE fds[m]
  BY <1>1, ClosedFds, SMT DEF RoomInv, StrayInv
<1>3. ~early /\ ~starved /\ srv \notin Ended
  BY SMT DEF Advertised, SrvStep, Ended, RoomInv, StrayInv, Types, Advert,
     Reads, AdvertEnds
<1>4. Calm /\ (ThreeInherited => Room) /\ Tidy
  BY <1>3, Zenon DEF RoomInv, StrayInv, Calm
<1>5. sk \in Numbers /\ fds[sk] = "hci"
  BY <1>4, SMT DEF Advertised, SrvStep, Tidy, Owners, Remembered, Owned,
       DevOpen,
     Serving, SockOpen, Calm, Advert, Reads, AdvertEnds
<1>6. stray' = stray
  BY <1>1, <1>5, Zenon DEF Close
<1>7. Calm'
  BY <1>2, <1>4, <1>5, <1>6, SmallNumbers, SMT DEF Advertised, SrvStep, Calm,
       Serving, AdvertEnds
<1>8. ThreeInherited' => ThreeInherited
  BY <1>2, <1>5, SMT DEF ThreeInherited
<1>9. ASSUME ThreeInherited
      PROVE  Room'
  <2>1. /\ srv \in Advert /\ srv' \in {"loop", "open"} /\ sk' = -1
        /\ UNCHANGED <<main, dd, fd, epoll>>
    BY Zenon DEF Advertised, AdvertEnds, SrvStep, Advert, Reads
  <2> QED
    BY <1>2, <1>4, <1>5, <1>9, <2>1, SmallNumbers, SMT DEF Room, Owned, DevOpen,
       Serving, SockOpen, Advert, Reads
<1> QED
  BY <1>7, <1>8, <1>9

LEMMA CloseSkRoom ==
    ASSUME RoomInv, CloseSk, StrayInv', ~early', ~starved', srv' \notin Ended
    PROVE  Calm' /\ (ThreeInherited' => Room')
<1>1. Close(sk, "listen")
  BY Zenon DEF CloseSk
<1>2. \A m \in Numbers : fds'[m] = IF m = sk THEN "free" ELSE fds[m]
  BY <1>1, ClosedFds, SMT DEF RoomInv, StrayInv
<1>3. ~early /\ ~starved /\ srv \notin Ended
  BY SMT DEF CloseSk, SrvStep, Ended, RoomInv, StrayInv, Types, Advert, Reads
<1>4. Calm /\ (ThreeInherited => Room) /\ Tidy
  BY <1>3, Zenon DEF RoomInv, StrayInv, Calm
<1>5. sk \in Numbers /\ fds[sk] = "listen"
  BY <1>4, SMT DEF CloseSk, SrvStep, Tidy, Owners, Remembered, Owned, DevOpen,
     Serving, SockOpen, Calm, Advert, Reads
<1>6. stray' = stray
  BY <1>1, <1>5, Zenon DEF Close
<1>7. Calm'
  <2>1. srv' = "init" => main = "joining"
    <3>1. early' = (early \/ (srv' = "init" /\ main # "joining"))
      BY Zenon DEF CloseSk, SrvStep
    <3> QED
      BY <3>1, Zenon
  <2>2. srv' \in {"init", "close_hci"} /\ main' = main
    BY SMT DEF CloseSk, SrvStep
  <2> QED
    BY <1>2, <1>4, <1>5, <1>6, <2>1, <2>2, SmallNumbers, SMT DEF Calm, Serving
<1>8. ThreeInherited' => ThreeInherited
  BY <1>2, <1>5, SMT DEF ThreeInherited
<1>9. ASSUME ThreeInherited
      PROVE  Room'
  BY <1>2, <1>4, <1>5, <1>9, SmallNumbers, SMT DEF CloseSk, SrvStep, Room,
       Owned, DevOpen,
     Serving, SockOpen
<1> QED
  BY <1>7, <1>8, <1>9

LEMMA DisconnectRoom ==
    ASSUME RoomInv, Disconnect, StrayInv', ~early', ~starved', srv' \notin Ended
    PROVE  Calm' /\ (ThreeInherited' => Room')
<1>1. Close(fd, "conn")
  BY Zenon DEF Disconnect
<1>2. \A m \in Numbers : fds'[m] = IF m = fd THEN "free" ELSE fds[m]
  BY <1>1, ClosedFds, SMT DEF RoomInv, StrayInv
<1>3. ~early /\ ~starved /\ srv \notin Ended
  BY SMT DEF Disconnect, SrvStep, Ended, RoomInv, StrayInv, Types, Advert, Reads
<1>4. Calm /\ (ThreeInherited => Room) /\ Tidy
  BY <1>3, Zenon DEF RoomInv, StrayInv, Calm
<1>5. fd \in Numbers /\ fds[fd] = "conn"
  BY <1>4, SMT DEF Disconnect, SrvStep, Tidy, Owners, Remembered, Owned,
       DevOpen,
     Serving, SockOpen, Calm, Advert, Reads
<1>6. stray' = stray
  BY <1>1, <1>5, Zenon DEF Close
<1>7. Calm'
  BY <1>2, <1>4, <1>5, <1>6, SmallNumbers, SMT DEF Disconnect, SrvStep, Calm,
       Serving
<1>8. ThreeInherited' => ThreeInherited
  BY <1>2, <1>5, SMT DEF ThreeInherited
<1>9. ASSUME ThreeInherited
      PROVE  Room'
  BY <1>2, <1>4, <1>5, <1>9, SmallNumbers, SMT DEF Disconnect, SrvStep, Room,
       Owned, DevOpen,
     Serving, SockOpen
<1> QED
  BY <1>7, <1>8, <1>9

LEMMA QuitRoom ==
    ASSUME RoomInv, Quit, StrayInv', ~early', ~starved', srv' \notin Ended
    PROVE  Calm' /\ (ThreeInherited' => Room')
<1>1. Close(epoll, "epoll")
  BY Zenon DEF Quit
<1>2. \A m \in Numbers : fds'[m] = IF m = epoll THEN "free" ELSE fds[m]
  BY <1>1, ClosedFds, SMT DEF RoomInv, StrayInv
<1>3. ~early /\ ~starved /\ srv \notin Ended
  BY SMT DEF Quit, SrvStep, Ended, RoomInv, StrayInv, Types, Advert, Reads
<1>4. Calm /\ (ThreeInherited => Room) /\ Tidy
  BY <1>3, Zenon DEF RoomInv, StrayInv, Calm
<1>5. epoll \in Numbers /\ fds[epoll] = "epoll"
  BY <1>4, SMT DEF Quit, SrvStep, Tidy, Owners, Remembered, Owned, DevOpen,
     Serving, SockOpen, Calm, Advert, Reads
<1>6. stray' = stray
  BY <1>1, <1>5, Zenon DEF Close
<1>7. Calm'
  BY <1>2, <1>4, <1>5, <1>6, SmallNumbers, SMT DEF Quit, SrvStep, Calm, Serving
<1>8. ThreeInherited' => ThreeInherited
  BY <1>2, <1>5, SMT DEF ThreeInherited
<1>9. ASSUME ThreeInherited
      PROVE  Room'
  BY <1>2, <1>4, <1>5, <1>9, SmallNumbers, SMT DEF Quit, SrvStep, Room,
       Owned, DevOpen,
     Serving, SockOpen
<1> QED
  BY <1>7, <1>8, <1>9

LEMMA CloseHciRoom ==
    ASSUME RoomInv, CloseHci, StrayInv', ~early', ~starved', srv' \notin Ended
    PROVE  Calm' /\ (ThreeInherited' => Room')
<1>1. Close(dd, "hci")
  BY Zenon DEF CloseHci
<1>2. \A m \in Numbers : fds'[m] = IF m = dd THEN "free" ELSE fds[m]
  BY <1>1, ClosedFds, SMT DEF RoomInv, StrayInv
<1>3. ~early /\ ~starved /\ srv \notin Ended
  BY SMT DEF CloseHci, SrvStep, Ended, RoomInv, StrayInv, Types, Advert, Reads
<1>4. Calm /\ (ThreeInherited => Room) /\ Tidy
  BY <1>3, Zenon DEF RoomInv, StrayInv, Calm
<1>5. dd \in Numbers /\ fds[dd] = "hci"
  BY <1>4, SMT DEF CloseHci, SrvStep, Tidy, Owners, Remembered, Owned, DevOpen,
     Serving, SockOpen, Calm, Advert, Reads
<1>6. stray' = stray
  BY <1>1, <1>5, Zenon DEF Close
<1>7. Calm'
  BY <1>2, <1>4, <1>5, <1>6, SmallNumbers, SMT DEF CloseHci, SrvStep, Calm,
       Serving
<1>8. ThreeInherited' => ThreeInherited
  BY <1>2, <1>5, SMT DEF ThreeInherited
<1>9. ASSUME ThreeInherited
      PROVE  Room'
  BY <1>2, <1>4, <1>5, <1>9, SmallNumbers, SMT DEF CloseHci, SrvStep, Room,
       Owned, DevOpen,
     Serving, SockOpen
<1> QED
  BY <1>7, <1>8, <1>9

LEMMA CloseFdRoom ==
    ASSUME RoomInv, CloseFd, StrayInv', ~early', ~starved', srv' \notin Ended
    PROVE  Calm' /\ (ThreeInherited' => Room')
<1>1. Close(fd, "conn")
  BY Zenon DEF CloseFd
<1>2. \A m \in Numbers : fds'[m] = IF m = fd THEN "free" ELSE fds[m]
  BY <1>1, ClosedFds, SMT DEF RoomInv, StrayInv
<1>3. ~early /\ ~starved /\ srv \notin Ended
  BY SMT DEF CloseFd, SrvStep, Ended, RoomInv, StrayInv, Types, Advert, Reads
<1>4. Calm /\ (ThreeInherited => Room) /\ Tidy
  BY <1>3, Zenon DEF RoomInv, StrayInv, Calm
<1>5. fd \notin Numbers \/ fds[fd] = "free"
  BY <1>4, SMT DEF CloseFd, SrvStep, Tidy, Owners, Remembered, Owned, DevOpen,
     Serving, SockOpen, Calm, Advert, Reads
<1>6. stray' = stray
  BY <1>1, <1>5, Zenon DEF Close
<1>7. Calm'
  BY <1>2, <1>4, <1>5, <1>6, SmallNumbers, SMT DEF CloseFd, SrvStep, Calm,
       Serving
<1>8. ThreeInherited' => ThreeInherited
  BY <1>2, <1>5, SMT DEF ThreeInherited
<1>9. ASSUME ThreeInherited
      PROVE  Room'
  BY <1>2, <1>4, <1>5, <1>9, SmallNumbers, SMT DEF CloseFd, SrvStep, Room,
       Owned, DevOpen,
     Serving, SockOpen
<1> QED
  BY <1>7, <1>8, <1>9

LEMMA LoopInitRoom ==
    ASSUME RoomInv, LoopInit, StrayInv', ~early', ~starved', srv' \notin Ended
    PROVE  Calm' /\ (ThreeInherited' => Room')
<1>1. epoll' = Opened /\ Open("epoll")
  BY Zenon DEF LoopInit
<1>2. ~early /\ ~starved /\ srv \notin Ended
  BY SMT DEF LoopInit, SrvStep, Ended, RoomInv, StrayInv, Types, Advert, Reads
<1>3. Calm /\ (ThreeInherited => Room)
  BY <1>2, Zenon DEF RoomInv
<1>4. \A m \in Numbers :
         fds'[m] = fds[m] \/ (fds[m] = "free" /\ fds'[m] = "epoll")
  <2>1. CASE Free = {}
    BY <1>1, <2>1, SMT DEF Open
  <2>2. CASE Free # {}
    BY <1>1, <2>2, OpenedFds, SMT DEF RoomInv, StrayInv, Kind
  <2> QED
    BY <2>1, <2>2
<1>5. Calm'
  BY <1>3, <1>4, SmallNumbers, SMT DEF LoopInit, SrvStep, Calm, Serving
<1>6. ThreeInherited' => ThreeInherited
  BY <1>4, SMT DEF ThreeInherited
<1>7. ASSUME ThreeInherited
      PROVE  Room'
  <2>1. Free # {} /\ Lowest <= 6
    BY <1>3, <1>7, RoomForOne, Zenon DEF RoomInv, LoopInit, SrvStep
  <2>2. epoll' = Lowest
    BY <1>1, <2>1, Zenon DEF Opened
  <2>3. /\ Lowest \in Numbers /\ fds[Lowest] = "free"
        /\ \A m \in Numbers : fds'[m] = IF m = Lowest THEN "epoll" ELSE fds[m]
    BY <1>1, <2>1, OpenedFds, SMT DEF RoomInv, StrayInv, Kind
  <2> QED
    BY <1>3, <1>7, <2>1, <2>2, <2>3, SmallNumbers, SMT DEF LoopInit, SrvStep,
       Room, Owned, DevOpen, Serving, SockOpen
<1> QED
  BY <1>5, <1>6, <1>7

\* The three numbers a new client's bt_crypto takes: of 3 to 6, the device, the
\* connection and the epoll descriptor leave one
LEMMA CreateRoom ==
    ASSUME RoomInv, Create, StrayInv', ~early', ~starved', srv' \notin Ended
    PROVE  Calm' /\ (ThreeInherited' => Room')
<1>1. \A n \in Numbers :
         fds'[n] = fds[n] \/ (fds[n] = "free" /\ fds'[n] = "crypto")
  BY CreateFds, Zenon DEF RoomInv, StrayInv
<1>2. /\ srv = "create" /\ srv' = "run" /\ early' = early /\ starved' = starved
      /\ UNCHANGED <<main, note, dd, fd, sk, epoll, stray>>
  BY SMT DEF Create, SrvStep, RoomInv, StrayInv, Types, Advert, Reads
<1>3. ~early /\ ~starved /\ srv \notin Ended
  BY <1>2, Zenon DEF Ended
<1>4. Calm /\ (ThreeInherited => Room) /\ Tidy
  BY <1>3, Zenon DEF RoomInv, StrayInv, Calm
<1>5. Calm'
  BY <1>1, <1>2, <1>4, SmallNumbers, SMT DEF Calm, Serving
<1>6. ThreeInherited' => ThreeInherited
  BY <1>1, SMT DEF ThreeInherited
<1>7. ASSUME ThreeInherited
      PROVE  Room'
  <2>1. /\ dd \in 3 .. 6 /\ fd \in 3 .. 6 /\ epoll \in 3 .. 6
        /\ fds[dd] = "hci" /\ fds[fd] = "conn" /\ fds[epoll] = "epoll"
    <3>1. /\ dd \in Numbers /\ fd \in Numbers /\ epoll \in Numbers
          /\ fds[dd] = "hci" /\ fds[fd] = "conn" /\ fds[epoll] = "epoll"
      BY <1>2, <1>4, <1>7, SMT DEF Tidy, Owners, Owned, Room, DevOpen, Serving,
         Advert, Reads
    <3>2. dd \notin 0 .. 2 /\ fd \notin 0 .. 2 /\ epoll \notin 0 .. 2
      BY <1>4, <3>1, Zenon DEF Calm
    <3>3. dd <= 6 /\ fd <= 6 /\ epoll <= 6
      BY <1>2, <1>4, <1>7, SMT DEF Room, DevOpen, Serving
    <3> QED
      BY <3>1, <3>2, <3>3, NoNumber, SMT
  <2>2. \A m, n \in 3 .. 6 : fds'[m] = "crypto" /\ fds'[n] = "crypto" => m = n
    BY <1>1, <2>1, SmallNumbers, SMT
  <2>3. \A n \in Numbers : fds'[n] = "epoll" <=> fds[n] = "epoll"
    BY <1>1, SMT
  <2>4. main = "joining"
    BY <1>2, <1>4, SMT DEF Calm, Serving
  <2> QED
    BY <1>2, <1>4, <1>7, <2>2, <2>3, <2>4, SMT DEF Room, Owned, DevOpen,
       Serving, SockOpen
<1> QED
  BY <1>5, <1>6, <1>7

\* The invariant promises what mainloop_add_fd asks for
LEMMA RoomWatchable ==
    ASSUME RoomInv, srv = "create", ~early, ~starved, ThreeInherited
    PROVE  Watchable
<1>1. Room
  BY Zenon DEF RoomInv, Ended
<1>2. epoll \in Numbers /\ fd <= 6 /\ fd \in Int
  BY <1>1, SMT DEF Room, Owned, Serving, RoomInv, StrayInv, Types, Advert, Reads
<1>3. epoll >= 0
  BY <1>2, NoNumber, SMT
<1> QED
  BY <1>2, <1>3, RoomAssumption, TableAssumption, SMT DEF Watchable

LEMMA CreateFailsRoom ==
    ASSUME RoomInv, CreateFails, StrayInv', ~early', ~starved',
    srv' \notin Ended
    PROVE  Calm' /\ (ThreeInherited' => Room')
<1>1. Close(fd, "conn")
  BY Zenon DEF CreateFails
<1>2. \A m \in Numbers : fds'[m] = IF m = fd THEN "free" ELSE fds[m]
  BY <1>1, ClosedFds, SMT DEF RoomInv, StrayInv
<1>3. ~early /\ ~starved /\ srv \notin Ended
  BY SMT DEF CreateFails, SrvStep, Ended, RoomInv, StrayInv, Types, Advert,
     Reads
<1>4. Calm /\ (ThreeInherited => Room) /\ Tidy
  BY <1>3, Zenon DEF RoomInv, StrayInv, Calm
<1>5. fd \in Numbers /\ fds[fd] = "conn"
  BY <1>4, SMT DEF CreateFails, SrvStep, Tidy, Owners, Owned, Serving, Advert,
     Reads
<1>6. stray' = stray
  BY <1>1, <1>5, Zenon DEF Close
<1>7. Calm'
  BY <1>2, <1>4, <1>5, <1>6, SmallNumbers, SMT DEF CreateFails, SrvStep, Calm,
     Serving
<1>8. ThreeInherited' => ThreeInherited
  BY <1>2, <1>5, SMT DEF ThreeInherited
<1>9. ~ThreeInherited
  BY <1>3, RoomWatchable, Zenon DEF CreateFails, SrvStep
<1> QED
  BY <1>7, <1>8, <1>9

LEMMA NotifyOpenRoom ==
    ASSUME RoomInv, NotifyOpen, StrayInv', ~early', ~starved', srv' \notin Ended
    PROVE  Calm' /\ (ThreeInherited' => Room')
<1>1. \A m \in Numbers :
         fds'[m] = fds[m] \/ (fds[m] = "free" /\ fds'[m] = "notify")
  <2>1. Open("notify")
    BY Zenon DEF NotifyOpen
  <2>2. CASE Free = {}
    BY <2>1, <2>2, SMT DEF Open
  <2>3. CASE Free # {}
    BY <2>1, <2>3, OpenedFds, SMT DEF RoomInv, StrayInv, Kind
  <2> QED
    BY <2>2, <2>3
<1>2. /\ main = "handling" /\ main' = "notifying"
      /\ UNCHANGED <<srv, early, starved, dd, fd, sk, epoll, stray>>
  BY Zenon DEF NotifyOpen, MainStep, srvVars
<1>3. Calm /\ (ThreeInherited => Room)
  BY <1>2, Zenon DEF RoomInv
<1>4. Calm'
  BY <1>1, <1>2, <1>3, SmallNumbers, SMT DEF Calm
<1>5. ThreeInherited' => ThreeInherited
  BY <1>1, SMT DEF ThreeInherited
<1>6. ASSUME ThreeInherited
      PROVE  Room'
  BY <1>1, <1>2, <1>3, <1>6, SmallNumbers, SMT DEF Room, Owned, Calm
<1> QED
  BY <1>4, <1>5, <1>6

LEMMA RoomInit == Init => RoomInv
<1> SUFFICES ASSUME Init
             PROVE  RoomInv
  OBVIOUS
<1>1. PICK k \in Inherited :
         fds = [n \in Numbers |-> IF n < k THEN "std" ELSE "free"]
  BY Zenon DEF Init
<1>2. k >= 3 /\ k \in Int
  BY TableAssumption, SMT
<1>3. /\ \A n \in 0 .. 2 : fds[n] = "std"
      /\ \A n \in Numbers : fds[n] \in {"std", "free"}
  BY <1>1, <1>2, SmallNumbers, SMT
<1>4. Calm
  BY <1>3, SMT DEF Init, Calm, Serving
<1>5. Room
  BY <1>3, SmallNumbers, SMT DEF Init, Room, Owned, DevOpen, Serving, SockOpen
<1> QED
  BY <1>4, <1>5, StrayInit, Zenon DEF RoomInv

LEMMA RoomStep == RoomInv /\ [Next]_vars => RoomInv'
<1> SUFFICES ASSUME RoomInv, [Next]_vars
             PROVE  RoomInv'
  OBVIOUS
<1>0. StrayInv'
  BY StrayStep DEF RoomInv
<1> SUFFICES ASSUME ~early', ~starved', srv' \notin Ended
             PROVE  Calm' /\ (ThreeInherited' => Room')
  BY <1>0, Zenon DEF RoomInv, Ended
<1>1. CASE NotifyOpen
  BY <1>0, <1>1, NotifyOpenRoom
<1>2. CASE NotifySend
  BY <1>0, <1>2, NotifySendRoom
<1>3. CASE RestartAdvert
  BY <1>0, <1>3, RestartAdvertRoom
<1>4. CASE Advertised
  BY <1>0, <1>4, AdvertisedRoom
<1>5. CASE OpenDev
  BY <1>0, <1>5, OpenDevRoom
<1>6. CASE Socket
  BY <1>0, <1>6, SocketRoom
<1>7. CASE Accept
  BY <1>0, <1>7, AcceptRoom
<1>8. CASE CloseSk
  BY <1>0, <1>8, CloseSkRoom
<1>9. CASE LoopInit
  BY <1>0, <1>9, LoopInitRoom
<1>10. CASE Create
  BY <1>0, <1>10, CreateRoom
<1>11. CASE CreateFails
  BY <1>0, <1>11, CreateFailsRoom
<1>12. CASE Disconnect
  BY <1>0, <1>12, DisconnectRoom
<1>13. CASE Quit
  BY <1>0, <1>13, QuitRoom
<1>14. CASE CloseFd
  BY <1>0, <1>14, CloseFdRoom
<1>15. CASE CloseHci
  BY <1>0, <1>15, CloseHciRoom
<1>16. CASE UnblockTerm
  BY <1>16, NoNumber, SMT DEF UnblockTerm, RoomInv, StrayInv, Types,
       SrvAt, MainAt, Calm, Room, Owned, ThreeInherited, DevOpen, Serving,
       SockOpen, SrvStep, MainStep, srvVars, Ended, Advert, Reads
<1>17. CASE InstallTerm
  BY <1>17, NoNumber, SMT DEF InstallTerm, RoomInv, StrayInv, Types,
       SrvAt, MainAt, Calm, Room, Owned, ThreeInherited, DevOpen, Serving,
       SockOpen, SrvStep, MainStep, srvVars, Ended, Advert, Reads
<1>18. CASE Join
  BY <1>18, NoNumber, SMT DEF Join, RoomInv, StrayInv, Types,
       SrvAt, MainAt, Calm, Room, Owned, ThreeInherited, DevOpen, Serving,
       SockOpen, SrvStep, MainStep, srvVars, Ended, Advert, Reads
<1>19. CASE UnblockUsr1
  BY <1>19, NoNumber, SMT DEF UnblockUsr1, RoomInv, StrayInv, Types,
       SrvAt, MainAt, Calm, Room, Owned, ThreeInherited, DevOpen, Serving,
       SockOpen, SrvStep, MainStep, srvVars, Ended, Advert, Reads
<1>20. CASE InstallUsr1
  BY <1>20, NoNumber, SMT DEF InstallUsr1, RoomInv, StrayInv, Types,
       SrvAt, MainAt, Calm, Room, Owned, ThreeInherited, DevOpen, Serving,
       SockOpen, SrvStep, MainStep, srvVars, Ended, Advert, Reads
<1>21. CASE LoopEnd
  BY <1>21, NoNumber, SMT DEF LoopEnd, RoomInv, StrayInv, Types,
       SrvAt, MainAt, Calm, Room, Owned, ThreeInherited, DevOpen, Serving,
       SockOpen, SrvStep, MainStep, srvVars, Ended, Advert, Reads
<1>22. CASE AdvertFails
  BY <1>22, NoNumber, SMT DEF AdvertFails, ExitAt, RoomInv, StrayInv, Types,
       SrvAt, MainAt, Calm, Room, Owned, ThreeInherited, DevOpen, Serving,
       SockOpen, SrvStep, MainStep, srvVars, Ended, Advert, Reads
<1>23. CASE OpenFails
  BY <1>23, NoNumber, SMT DEF OpenFails, ExitAt, RoomInv, StrayInv, Types,
       SrvAt, MainAt, Calm, Room, Owned, ThreeInherited, DevOpen, Serving,
       SockOpen, SrvStep, MainStep, srvVars, Ended, Advert, Reads
<1>24. CASE Bind
  BY <1>24, NoNumber, SMT DEF Bind, RoomInv, StrayInv, Types,
       SrvAt, MainAt, Calm, Room, Owned, ThreeInherited, DevOpen, Serving,
       SockOpen, SrvStep, MainStep, srvVars, Ended, Advert, Reads
<1>25. CASE BindFails
  BY <1>25, NoNumber, SMT DEF BindFails, RoomInv, StrayInv, Types,
       SrvAt, MainAt, Calm, Room, Owned, ThreeInherited, DevOpen, Serving,
       SockOpen, SrvStep, MainStep, srvVars, Ended, Advert, Reads
<1>26. CASE SelectFails
  BY <1>26, NoNumber, SMT DEF SelectFails, RoomInv, StrayInv, Types,
       SrvAt, MainAt, Calm, Room, Owned, ThreeInherited, DevOpen, Serving,
       SockOpen, SrvStep, MainStep, srvVars, Ended, Advert, Reads
<1>27. CASE CommandExit
  BY <1>27, NoNumber, SMT DEF CommandExit, RoomInv, StrayInv, Types,
       SrvAt, MainAt, Calm, Room, Owned, ThreeInherited, DevOpen, Serving,
       SockOpen, SrvStep, MainStep, srvVars, Ended, Advert, Reads
<1>28. CASE Stop
  BY <1>28, NoNumber, SMT DEF Stop, RoomInv, StrayInv, Types,
       SrvAt, MainAt, Calm, Room, Owned, ThreeInherited, DevOpen, Serving,
       SockOpen, SrvStep, MainStep, srvVars, Ended, Advert, Reads
<1>29. CASE DeliverTerm
  BY <1>29, NoNumber, SMT DEF DeliverTerm, RoomInv, StrayInv, Types,
       SrvAt, MainAt, Calm, Room, Owned, ThreeInherited, DevOpen, Serving,
       SockOpen, SrvStep, MainStep, srvVars, Ended, Advert, Reads
<1>30. CASE DeliverUsr1
  BY <1>30, NoNumber, SMT DEF DeliverUsr1, RoomInv, StrayInv, Types,
       SrvAt, MainAt, Calm, Room, Owned, ThreeInherited, DevOpen, Serving,
       SockOpen, SrvStep, MainStep, srvVars, Ended, Advert, Reads
<1>31. CASE CreateThread
  BY <1>31, NoNumber, SMT DEF CreateThread, RoomInv, StrayInv, Types,
       SrvAt, MainAt, Calm, Room, Owned, ThreeInherited, DevOpen, Serving,
       SockOpen, SrvStep, MainStep, srvVars, Ended, Advert, Reads
<1>32. CASE SocketFails
  BY <1>32, NoNumber, SMT DEF SocketFails, RoomInv, StrayInv, Types,
       SrvAt, MainAt, Calm, Room, Owned, ThreeInherited, DevOpen, Serving,
       SockOpen, SrvStep, MainStep, srvVars, Ended, Advert, Reads
<1>33. CASE FinalFd \/ FinalHci
  BY <1>33, SMT DEF FinalFd, FinalHci, SrvStep, Ended
<1>34. CASE UNCHANGED vars
  BY <1>34, SMT DEF vars, RoomInv, StrayInv, Types,
       SrvAt, MainAt, Calm, Room, Owned, ThreeInherited, DevOpen, Serving,
       SockOpen, SrvStep, MainStep, srvVars, Ended, Advert, Reads
<1>35. CASE AdvertSends
  BY <1>35, NoNumber, SMT DEF AdvertSends, RoomInv, StrayInv, Types,
       SrvAt, MainAt, Calm, Room, Owned, ThreeInherited, DevOpen, Serving,
       SockOpen, SrvStep, MainStep, srvVars, Ended, Advert, Reads
<1>36. CASE HciEvent
  BY <1>36, NoNumber, SMT DEF HciEvent, RoomInv, StrayInv, Types,
       SrvAt, MainAt, Calm, Room, Owned, ThreeInherited, DevOpen, Serving,
       SockOpen, SrvStep, MainStep, srvVars, Ended, Advert, Reads
<1>37. CASE ReadFails
  BY <1>37, NoNumber, SMT DEF ReadFails, RoomInv, StrayInv, Types,
       SrvAt, MainAt, Calm, Room, Owned, ThreeInherited, DevOpen, Serving,
       SockOpen, SrvStep, MainStep, srvVars, Ended, Advert, Reads
<1>38. CASE CreateExits
  BY <1>38, NoNumber, SMT DEF CreateExits, ExitAt, RoomInv, StrayInv, Types,
       SrvAt, MainAt, Calm, Room, Owned, ThreeInherited, DevOpen, Serving,
       SockOpen, SrvStep, MainStep, srvVars, Ended, Advert, Reads
<1> QED
  BY <1>1, <1>2, <1>3, <1>4, <1>5, <1>6, <1>7, <1>8, <1>9, <1>10, <1>11,
       <1>12, <1>13, <1>14, <1>15, <1>16, <1>17, <1>18, <1>19, <1>20, <1>21,
         <1>22, <1>23, <1>24, <1>25, <1>26, <1>27, <1>28, <1>29, <1>30,
         <1>31, <1>32, <1>33, <1>34, <1>35, <1>36, <1>37, <1>38,
     Zenon DEF Next, MainThread, ServerRuns, Client, Controller

\* The inductive invariant of the numbers a client needs
LEMMA RoomInvariant == Spec => []RoomInv
<1>1. Init => RoomInv
  BY RoomInit
<1>2. RoomInv /\ [Next]_vars => RoomInv'
  BY RoomStep
<1> QED
  BY <1>1, <1>2, PTL DEF Spec

(* However many clients came before and whatever their bt_crypto holds, a  *)
(* client that was accepted after READY=1 gets an epoll descriptor and a   *)
(* number that mainloop_add_fd takes.                                      *)
THEOREM EveryClientIsServed == Spec => []ClientServed
<1>1. RoomInv => ClientServed
  BY RoomWatchable, Zenon DEF ClientServed
<1> QED
  BY <1>1, RoomInvariant, PTL

(* When server_thread starts its loop over, every descriptor it opened is  *)
(* closed again, on the paths of failure too, but for those of bt_crypto.  *)
THEOREM TheLoopReleases == Spec => []LoopReleases
<1>1. ASSUME RoomInv, srv = "loop", ~early, ~starved, ThreeInherited, NEW n \in Numbers
      PROVE  fds[n] \in {"free", "std", "crypto", "notify"}
  <2>1. Calm /\ Room
    BY <1>1, Zenon DEF RoomInv, Ended
  <2>2. Owners /\ fds[n] \in Kind \cup {"free"}
    BY <1>1, <2>1, Zenon DEF RoomInv, StrayInv, Types, Calm, Tidy, Advert, Reads
  <2>3. fds[n] \notin {"hci", "listen", "conn", "epoll"}
    BY <1>1, <2>1, <2>2, SMT DEF Owners, Owned, Room, DevOpen, Serving,
       SockOpen, Advert, Reads
  <2> QED
    BY <2>2, <2>3, Zenon DEF Kind
<1>2. RoomInv => LoopReleases
  BY <1>1, Zenon DEF LoopReleases
<1> QED
  BY <1>2, RoomInvariant, PTL

=============================================================================
