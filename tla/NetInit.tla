------------------------------ MODULE NetInit -------------------------------
(***************************************************************************)
(* Bringing the network up: Mynet_init (mod/source/net/network_wii.cpp),   *)
(* retried by initializeNetwork (mod/source/netmemoryaccess.cpp) on the    *)
(* receiver's thread, while the game's thread asks for the address to draw *)
(* it on the title screen.  Both use one global handle, net_ip_top_fd.     *)
(*                                                                         *)
(* The two threads have the same priority and change places only in an IOS *)
(* call: a step is a call and what follows it up to the next.              *)
(***************************************************************************)
EXTENDS Integers

CONSTANTS Fds,              \* the handles IOS gives out
          InitTries,        \* MAX_INIT_RETRIES
          MAX_IP_RETRIES

ASSUME NetInitAssumption ==
    /\ Fds \subseteq Nat
    /\ InitTries \in Nat \ {0} /\ MAX_IP_RETRIES \in Nat \ {0}

EAGAIN == 11
ETIMEDOUT == 116
IPC_ENOENT == -6
NoFd == -1
Closed == "closed"
Devices == {"manage", "top", "request"}

\* Errors of IOS: one the socket library has a code for, and one it has not.
IosErrors == {IPC_ENOENT, -4}
_net_convert_error(ret) == IF ret >= 0 THEN ret
                           ELSE IF ret = IPC_ENOENT THEN -EAGAIN
                           ELSE -10000 + ret

VARIABLES
  initPc,        \* the receiver's next IOS call
  initTry,       \* i of initializeNetwork
  initRes,       \* ret of Mynet_init
  net_ip_top_fd,
  localFd,       \* ncd_fd or kd_fd
  ipTry,         \* retries of the receiver's Mynet_gethostip
  titleFd,       \* the handle of the request the game's thread waits for
  titleTry,      \* retries of the game's Mynet_gethostip
  iosOpen,       \* IOS: the device behind each handle
  iosStarted     \* IOS: the socket device was started since its handle was opened

titleVars == <<titleFd, titleTry>>
netInitVars == <<initPc, initTry, initRes, net_ip_top_fd, localFd, ipTry, titleVars, iosOpen,
                 iosStarted>>

NetInitInit ==
    /\ initPc = "init" /\ initTry = 0 /\ initRes = 0
    /\ net_ip_top_fd = NoFd /\ localFd = NoFd /\ ipTry = 0
    /\ titleFd = NoFd /\ titleTry = 0
    /\ iosOpen = [f \in Fds |-> Closed] /\ iosStarted = FALSE
-----------------------------------------------------------------------------
(* IOS.                                                                    *)

OpenFails(ret) == ret \in IosErrors /\ UNCHANGED iosOpen
Opens(fd, device) ==
    /\ fd \in Fds /\ iosOpen[fd] = Closed
    /\ iosOpen' = [iosOpen EXCEPT ![fd] = device]
Closes(fd) == iosOpen' = [iosOpen EXCEPT ![fd] = Closed]

\* An ioctl of a handle of that device succeeds or fails.
IoctlReturns(ret, fd, device) ==
    \/ ret = 0 /\ fd \in Fds /\ iosOpen[fd] = device
    \/ ret \in IosErrors
-----------------------------------------------------------------------------
(* The receiver's thread.                                                  *)

\* Mutant: one attempt too many.
MynetInitReturnsOneMore(ret) ==
    /\ initRes' = ret
    /\ IF ret \in {-EAGAIN, -ETIMEDOUT} /\ initTry + 1 <= InitTries
       THEN initPc' = "init" /\ initTry' = initTry + 1
       ELSE initPc' = "ended" /\ UNCHANGED initTry

\* initializeNetwork gets `ret` from Mynet_init: it tries again or ends.
MynetInitReturns(ret) ==
    /\ initRes' = ret
    /\ IF ret \in {-EAGAIN, -ETIMEDOUT} /\ initTry + 1 < InitTries
       THEN initPc' = "init" /\ initTry' = initTry + 1
       ELSE initPc' = "ended" /\ UNCHANGED initTry

Goes(pc) == initPc' = pc /\ UNCHANGED initTry

BeginInit ==
    /\ initPc = "init"
    /\ IF net_ip_top_fd >= 0 THEN MynetInitReturns(0) ELSE Goes("openManage") /\ UNCHANGED initRes
    /\ UNCHANGED <<net_ip_top_fd, localFd, ipTry, titleVars, iosOpen, iosStarted>>

\* The loop asks for the code of IOS, but the code was converted: it runs once.
OpenManage ==
    /\ initPc = "openManage"
    /\ \/ \E fd \in Fds : /\ Opens(fd, "manage") /\ localFd' = fd
                          /\ Goes("linkStatus") /\ UNCHANGED initRes
       \/ \E ret \in IosErrors :
            /\ OpenFails(ret) /\ UNCHANGED localFd
            /\ IF _net_convert_error(ret) = IPC_ENOENT THEN Goes("openManage") /\ UNCHANGED initRes
               ELSE MynetInitReturns(_net_convert_error(ret))
    /\ UNCHANGED <<net_ip_top_fd, ipTry, titleVars, iosStarted>>

LinkStatus ==
    /\ initPc = "linkStatus"
    /\ \E ret \in IosErrors \cup {0} : /\ IoctlReturns(ret, localFd, "manage")
                                       /\ initRes' = _net_convert_error(ret)
    /\ Goes("closeManage")
    /\ UNCHANGED <<net_ip_top_fd, localFd, ipTry, titleVars, iosOpen, iosStarted>>

CloseManage ==
    /\ initPc = "closeManage"
    /\ Closes(localFd) /\ localFd' = NoFd
    /\ IF initRes < 0 THEN MynetInitReturns(initRes) ELSE Goes("openTop") /\ UNCHANGED initRes
    /\ UNCHANGED <<net_ip_top_fd, ipTry, titleVars, iosStarted>>

\* The error code stays in net_ip_top_fd.
OpenTop ==
    /\ initPc = "openTop"
    /\ \/ \E fd \in Fds : /\ Opens(fd, "top") /\ net_ip_top_fd' = fd
                          /\ Goes("openRequest") /\ UNCHANGED initRes
       \/ \E ret \in IosErrors : /\ OpenFails(ret) /\ net_ip_top_fd' = _net_convert_error(ret)
                                 /\ MynetInitReturns(_net_convert_error(ret))
    /\ iosStarted' = FALSE
    /\ UNCHANGED <<localFd, ipTry, titleVars>>

OpenRequest ==
    /\ initPc = "openRequest"
    /\ \/ \E fd \in Fds : /\ Opens(fd, "request") /\ localFd' = fd
                          /\ Goes("nwc24Startup") /\ UNCHANGED initRes
       \/ \E ret \in IosErrors : /\ OpenFails(ret) /\ UNCHANGED localFd
                                 /\ initRes' = _net_convert_error(ret) /\ Goes("closeTop")
    /\ UNCHANGED <<net_ip_top_fd, ipTry, titleVars, iosStarted>>

\* Mutant: the function returns its error before it closes the handle.
Nwc24StartupLeaks ==
    /\ initPc = "nwc24Startup"
    /\ \E ret \in IosErrors \cup {0} : /\ IoctlReturns(ret, localFd, "request")
                                       /\ initRes' = _net_convert_error(ret)
                                       /\ Goes(IF ret < 0 THEN "closeTop" ELSE "closeRequest")
    /\ UNCHANGED <<net_ip_top_fd, localFd, ipTry, titleVars, iosOpen, iosStarted>>

Nwc24Startup ==
    /\ initPc = "nwc24Startup"
    /\ \E ret \in IosErrors \cup {0} : /\ IoctlReturns(ret, localFd, "request")
                                       /\ initRes' = _net_convert_error(ret)
    /\ Goes("closeRequest")
    /\ UNCHANGED <<net_ip_top_fd, localFd, ipTry, titleVars, iosOpen, iosStarted>>

CloseRequest ==
    /\ initPc = "closeRequest"
    /\ Closes(localFd) /\ localFd' = NoFd
    /\ Goes(IF initRes < 0 THEN "closeTop" ELSE "soStartup")
    /\ UNCHANGED <<initRes, net_ip_top_fd, ipTry, titleVars, iosStarted>>

SoStartup ==
    /\ initPc = "soStartup"
    /\ \E ret \in IosErrors \cup {0} :
         /\ IoctlReturns(ret, net_ip_top_fd, "top")
         /\ initRes' = _net_convert_error(ret)
         /\ iosStarted' = (ret = 0)
         /\ Goes(IF ret < 0 THEN "closeTop" ELSE "getHostId")
    /\ ipTry' = 0
    /\ UNCHANGED <<net_ip_top_fd, localFd, titleVars, iosOpen>>

\* Mynet_gethostip: the address is unsigned, so an error code is an address too.
GetHostId ==
    /\ initPc = "getHostId"
    /\ \/ MynetInitReturns(0) /\ UNCHANGED ipTry
       \/ IF ipTry + 1 < MAX_IP_RETRIES
          THEN ipTry' = ipTry + 1 /\ Goes("getHostId") /\ UNCHANGED initRes
          ELSE initRes' = -ETIMEDOUT /\ Goes("closeTop") /\ UNCHANGED ipTry
    /\ UNCHANGED <<net_ip_top_fd, localFd, titleVars, iosOpen, iosStarted>>

\* Mutant: net_ip_top_fd keeps the handle that was closed.
CloseTopKeepsFd ==
    /\ initPc = "closeTop"
    /\ Closes(net_ip_top_fd)
    /\ MynetInitReturns(initRes)
    /\ UNCHANGED <<net_ip_top_fd, localFd, ipTry, titleVars, iosStarted>>

CloseTop ==
    /\ initPc = "closeTop"
    /\ Closes(net_ip_top_fd) /\ net_ip_top_fd' = NoFd
    /\ MynetInitReturns(initRes)
    /\ UNCHANGED <<localFd, ipTry, titleVars, iosStarted>>

Bring == \/ BeginInit \/ OpenManage \/ LinkStatus \/ CloseManage \/ OpenTop \/ OpenRequest
         \/ Nwc24Startup \/ CloseRequest \/ SoStartup \/ GetHostId \/ CloseTop
-----------------------------------------------------------------------------
(* The game's thread: Mynet_gethostip for the title screen, once a frame.  *)

TitleAsks ==
    /\ titleFd = NoFd /\ net_ip_top_fd >= 0
    /\ titleFd' = net_ip_top_fd /\ titleTry' = 0
    /\ UNCHANGED <<initPc, initTry, initRes, net_ip_top_fd, localFd, ipTry, iosOpen, iosStarted>>

\* Only an answer of 0 is asked for again, with the handle there is by then: a call
\* with a negative one comes back at once.
TitleAnswered ==
    /\ titleFd # NoFd
    /\ \/ titleFd' = NoFd
       \/ /\ iosOpen[titleFd] = "top" /\ iosStarted
          /\ titleFd' = IF titleTry + 1 < MAX_IP_RETRIES /\ net_ip_top_fd >= 0
                        THEN net_ip_top_fd ELSE NoFd
    /\ titleTry' = IF titleFd' = NoFd THEN 0 ELSE titleTry + 1
    /\ UNCHANGED <<initPc, initTry, initRes, net_ip_top_fd, localFd, ipTry, iosOpen, iosStarted>>

NetInitNext == Bring \/ TitleAsks \/ TitleAnswered
NetInitSpec == NetInitInit /\ [][NetInitNext]_netInitVars
-----------------------------------------------------------------------------
(* Properties.                                                             *)

\* Types, with the bounds of the three retry counters; net_ip_top_fd holds a handle, -1 or a
\* converted error.
NetInitTypeOK ==
    /\ initPc \in {"init", "openManage", "linkStatus", "closeManage", "openTop", "openRequest",
                   "nwc24Startup", "closeRequest", "soStartup", "getHostId", "closeTop", "ended"}
    /\ initTry \in 0 .. InitTries - 1 /\ ipTry \in 0 .. MAX_IP_RETRIES - 1
    /\ titleTry \in 0 .. MAX_IP_RETRIES - 1 /\ titleFd \in Fds \cup {NoFd}
    /\ net_ip_top_fd \in Fds \cup {NoFd} \cup {_net_convert_error(e) : e \in IosErrors}
    /\ localFd \in Fds \cup {NoFd}
    /\ iosOpen \in [Fds -> Devices \cup {Closed}] /\ iosStarted \in BOOLEAN

\* When initializeNetwork reports success, whatever attempts failed before at whatever
\* call, the socket device is open behind net_ip_top_fd and was started: an attempt that
\* fails half way leaves nothing that makes the next one think it has nothing to do.
ReadyMeansStarted ==
    initPc = "ended" /\ initRes >= 0 =>
        /\ net_ip_top_fd \in Fds /\ iosOpen[net_ip_top_fd] = "top"
        /\ iosStarted

\* No handle is lost on any path: the open ones are the two the code knows, and once
\* initializeNetwork has ended only the socket device's, which is closed on failure.
HandlesAccounted ==
    \A f \in Fds : iosOpen[f] # Closed =>
        \/ f = net_ip_top_fd /\ iosOpen[f] = "top" /\ (initPc = "ended" => initRes >= 0)
        \/ f = localFd /\ iosOpen[f] # "top" /\ initPc # "ended"
=============================================================================
