------------------------- MODULE ConsolePartsProof --------------------------
(***************************************************************************)
(* Theorems about the parts of the console's program that share no state   *)
(* with the server's threads: bringing the network up, the payload of a    *)
(* command and the table of effects.  They hold for any handles IOS gives  *)
(* out and any number of attempts, for packets of any length and           *)
(* parameters of any size, and for tables and lists of any length.         *)
(***************************************************************************)
EXTENDS NetInit, Payload, EffTracker, NatRecursion, FiniteSetTheorems, SequenceTheorems

-----------------------------------------------------------------------------
(* Bringing the network up.                                                *)

\* From the call that opened the socket device to the one that closes it, and after
\* an attempt that succeeded.
TopHeld ==
    \/ initPc \in {"openRequest", "nwc24Startup", "closeRequest", "soStartup", "getHostId",
                   "closeTop"}
    \/ initPc = "ended" /\ initRes >= 0
ManageHeld == initPc \in {"linkStatus", "closeManage"}
RequestHeld == initPc \in {"nwc24Startup", "closeRequest"}

TopInv == IF TopHeld THEN net_ip_top_fd \in Fds /\ iosOpen[net_ip_top_fd] = "top"
                     ELSE net_ip_top_fd < 0

LocalInv ==
    /\ ManageHeld => localFd \in Fds /\ iosOpen[localFd] = "manage"
    /\ RequestHeld => localFd \in Fds /\ iosOpen[localFd] = "request"
    /\ ~ManageHeld /\ ~RequestHeld => localFd = NoFd

OpenInv == \A f \in Fds : iosOpen[f] # Closed =>
               \/ f = net_ip_top_fd /\ TopHeld
               \/ f = localFd /\ (ManageHeld \/ RequestHeld)

\* The socket device was started when the address is asked for, and an attempt that
\* closes it again has failed.
ProgressInv ==
    /\ initPc = "getHostId" \/ (initPc = "ended" /\ initRes >= 0) => iosStarted
    /\ initPc = "closeTop" => initRes < 0

UpInv == NetInitTypeOK /\ initRes \in Int /\ TopInv /\ LocalInv /\ OpenInv /\ ProgressInv

LEMMA ErrorsAreNegative ==
    /\ \A ret \in IosErrors : _net_convert_error(ret) \in Int /\ _net_convert_error(ret) < 0
    /\ _net_convert_error(0) = 0
BY DEF IosErrors, _net_convert_error, IPC_ENOENT, EAGAIN

\* What initializeNetwork does with the result of an attempt.
LEMMA ReturnsNextAttemptOrEnd ==
    ASSUME NetInitTypeOK, NEW ret \in Int, MynetInitReturns(ret)
    PROVE  /\ initRes' = ret /\ initTry' \in 0 .. InitTries - 1
           /\ initPc' = "ended" \/ (initPc' = "init" /\ ret < 0)
BY NetInitAssumption DEF NetInitTypeOK, MynetInitReturns, EAGAIN, ETIMEDOUT

LEMMA InitUpInv == NetInitInit => UpInv
<1> SUFFICES ASSUME NetInitInit PROVE UpInv
  OBVIOUS
<1> USE DEF NetInitInit
<1>1. NetInitTypeOK
  <2>1. net_ip_top_fd \in Fds \cup {NoFd} /\ localFd \in Fds \cup {NoFd}
        /\ titleFd \in Fds \cup {NoFd}
    OBVIOUS
  <2>2. /\ initTry \in 0 .. InitTries - 1 /\ ipTry \in 0 .. MAX_IP_RETRIES - 1
        /\ titleTry \in 0 .. MAX_IP_RETRIES - 1
    BY NetInitAssumption DEF titleVars
  <2>3. iosOpen \in [Fds -> Devices \cup {Closed}] /\ iosStarted \in BOOLEAN
    OBVIOUS
  <2> QED BY <2>1, <2>2, <2>3 DEF NetInitTypeOK
<1>2. TopInv /\ LocalInv /\ ProgressInv
  BY DEF TopInv, TopHeld, LocalInv, ManageHeld, RequestHeld, ProgressInv, NoFd
<1>3. OpenInv /\ initRes \in Int
  BY DEF OpenInv
<1> QED BY <1>1, <1>2, <1>3 DEF UpInv

LEMMA NextUpInv == UpInv /\ [NetInitNext]_netInitVars => UpInv'
<1> SUFFICES ASSUME UpInv, [NetInitNext]_netInitVars PROVE UpInv'
  OBVIOUS
<1> USE NetInitAssumption, ErrorsAreNegative
<1>t. NetInitTypeOK /\ initRes \in Int
  BY DEF UpInv
<1> USE DEF UpInv, TopInv, TopHeld, LocalInv, ManageHeld, RequestHeld, OpenInv, ProgressInv,
            NetInitTypeOK, NoFd, Closed, Devices
<1>1. CASE BeginInit
  <2>1. net_ip_top_fd < 0
    BY <1>1 DEF BeginInit
  <2> QED BY <1>1, <2>1 DEF BeginInit, Goes, titleVars
<1>2. CASE OpenManage
  <2>1. ASSUME NEW fd \in Fds, Opens(fd, "manage"), localFd' = fd, Goes("linkStatus"),
               UNCHANGED initRes
        PROVE  UpInv'
    BY <1>2, <2>1 DEF OpenManage, Opens, Goes, titleVars
  <2>2. ASSUME NEW ret \in IosErrors, OpenFails(ret), UNCHANGED localFd,
               MynetInitReturns(_net_convert_error(ret))
        PROVE  UpInv'
    <3>1. /\ initRes' < 0 /\ initRes' \in Int /\ initTry' \in 0 .. InitTries - 1
          /\ initPc' \in {"init", "ended"}
      BY <2>2, <1>t, ReturnsNextAttemptOrEnd
    <3> QED BY <1>2, <2>2, <3>1 DEF OpenManage, OpenFails, titleVars
  <2>3. ASSUME NEW ret \in IosErrors, OpenFails(ret), UNCHANGED localFd, Goes("openManage"),
               UNCHANGED initRes
        PROVE  UpInv'
    BY <1>2, <2>3 DEF OpenManage, OpenFails, Goes, titleVars
  <2> QED BY <1>2, <2>1, <2>2, <2>3 DEF OpenManage
<1>3. CASE LinkStatus
  <2>1. initRes' \in Int
    BY <1>3 DEF LinkStatus
  <2> QED BY <1>3, <2>1 DEF LinkStatus, Goes, titleVars
<1>4. CASE CloseManage
  <2>1. localFd \in Fds /\ net_ip_top_fd < 0
    BY <1>4 DEF CloseManage
  <2>2. iosOpen' \in [Fds -> Devices \cup {Closed}] /\ \A f \in Fds : iosOpen'[f] = Closed
    BY <1>4, <2>1 DEF CloseManage, Closes
  <2>3. CASE initRes < 0
    <3>1. /\ initRes' < 0 /\ initRes' \in Int /\ initTry' \in 0 .. InitTries - 1
          /\ initPc' \in {"init", "ended"}
      BY <1>4, <2>3, <1>t, ReturnsNextAttemptOrEnd DEF CloseManage
    <3> QED BY <1>4, <2>2, <3>1 DEF CloseManage, titleVars
  <2>4. CASE ~(initRes < 0)
    BY <1>4, <2>2, <2>4 DEF CloseManage, Goes, titleVars
  <2> QED BY <2>3, <2>4
<1>5. CASE OpenTop
  <2>1. ASSUME NEW fd \in Fds, Opens(fd, "top"), net_ip_top_fd' = fd, Goes("openRequest"),
               UNCHANGED initRes
        PROVE  UpInv'
    BY <1>5, <2>1 DEF OpenTop, Opens, Goes, titleVars
  <2>2. ASSUME NEW ret \in IosErrors, OpenFails(ret),
               net_ip_top_fd' = _net_convert_error(ret),
               MynetInitReturns(_net_convert_error(ret))
        PROVE  UpInv'
    <3>1. /\ initRes' < 0 /\ initRes' \in Int /\ initTry' \in 0 .. InitTries - 1
          /\ initPc' \in {"init", "ended"}
      BY <2>2, <1>t, ReturnsNextAttemptOrEnd
    <3>2. /\ net_ip_top_fd' < 0
          /\ net_ip_top_fd' \in {_net_convert_error(e) : e \in IosErrors}
      BY <2>2
    <3>3. /\ ipTry' = ipTry /\ titleFd' = titleFd /\ titleTry' = titleTry
          /\ localFd' = localFd /\ iosOpen' = iosOpen /\ iosStarted' = FALSE
      BY <1>5, <2>2 DEF OpenTop, OpenFails, titleVars
    <3>4. NetInitTypeOK'
      BY <3>1, <3>2, <3>3
    <3>5. localFd = NoFd /\ \A f \in Fds : iosOpen[f] = Closed
      BY <1>5 DEF OpenTop
    <3>6. TopInv' /\ LocalInv' /\ OpenInv' /\ ProgressInv'
      BY <3>1, <3>2, <3>3, <3>5
    <3> QED BY <3>1, <3>4, <3>6
  <2> QED BY <1>5, <2>1, <2>2 DEF OpenTop
<1>6. CASE OpenRequest
  <2>1. ASSUME NEW fd \in Fds, Opens(fd, "request"), localFd' = fd, Goes("nwc24Startup"),
               UNCHANGED initRes
        PROVE  UpInv'
    BY <1>6, <2>1 DEF OpenRequest, Opens, Goes, titleVars
  <2>2. ASSUME NEW ret \in IosErrors, OpenFails(ret), UNCHANGED localFd,
               initRes' = _net_convert_error(ret), Goes("closeTop")
        PROVE  UpInv'
    BY <1>6, <2>2 DEF OpenRequest, OpenFails, Goes, titleVars
  <2> QED BY <1>6, <2>1, <2>2 DEF OpenRequest
<1>7. CASE Nwc24Startup
  <2>1. initRes' \in Int
    BY <1>7 DEF Nwc24Startup
  <2> QED BY <1>7, <2>1 DEF Nwc24Startup, Goes, titleVars
<1>8. CASE CloseRequest
  BY <1>8 DEF CloseRequest, Closes, Goes, titleVars
<1>9. CASE SoStartup
  <2>1. PICK ret \in IosErrors \cup {0} :
               /\ initRes' = _net_convert_error(ret) /\ iosStarted' = (ret = 0)
               /\ Goes(IF ret < 0 THEN "closeTop" ELSE "getHostId")
    BY <1>9 DEF SoStartup
  <2>2. ret < 0 <=> ret # 0
    BY DEF IosErrors, IPC_ENOENT
  <2>3. /\ initPc = "soStartup" /\ ipTry' = 0 /\ initTry' = initTry /\ initRes' \in Int
        /\ UNCHANGED <<net_ip_top_fd, localFd, titleFd, titleTry, iosOpen>>
    BY <1>9, <2>1 DEF SoStartup, Goes, titleVars
  <2>4. CASE ret = 0
    <3>1. initPc' = "getHostId"
      BY <2>1, <2>4 DEF Goes
    <3>2. iosStarted' = TRUE
      BY <2>1, <2>4
    <3>3. NetInitTypeOK'
      BY <2>3, <3>1, <3>2, <2>1
    <3>4. TopInv' /\ LocalInv' /\ OpenInv'
      BY <2>3, <3>1
    <3>5. ProgressInv'
      BY <3>1, <3>2
    <3> QED BY <2>3, <3>3, <3>4, <3>5
  <2>5. CASE ret < 0
    BY <2>1, <2>2, <2>3, <2>5 DEF Goes
  <2> QED BY <2>2, <2>4, <2>5, <2>1
<1>10. CASE GetHostId
  <2>1. CASE MynetInitReturns(0) /\ UNCHANGED ipTry
    <3>1. initRes' = 0 /\ initTry' \in 0 .. InitTries - 1 /\ initPc' = "ended"
      BY <2>1, <1>t, ReturnsNextAttemptOrEnd
    <3> QED BY <1>10, <2>1, <3>1 DEF GetHostId, titleVars
  <2>2. CASE ipTry + 1 < MAX_IP_RETRIES /\ ipTry' = ipTry + 1 /\ Goes("getHostId")
             /\ UNCHANGED initRes
    BY <1>10, <2>2 DEF GetHostId, Goes, titleVars
  <2>3. CASE initRes' = -ETIMEDOUT /\ Goes("closeTop") /\ UNCHANGED ipTry
    BY <1>10, <2>3 DEF GetHostId, Goes, titleVars, ETIMEDOUT
  <2> QED BY <1>10, <2>1, <2>2, <2>3 DEF GetHostId
<1>11. CASE CloseTop
  <2>1. /\ initRes' < 0 /\ initRes' \in Int /\ initTry' \in 0 .. InitTries - 1
        /\ initPc' \in {"init", "ended"}
    BY <1>11, <1>t, ReturnsNextAttemptOrEnd DEF CloseTop
  <2> QED BY <1>11, <2>1 DEF CloseTop, Closes, titleVars
<1>12. CASE TitleAsks
  BY <1>12 DEF TitleAsks
<1>13. CASE TitleAnswered
  <2>1. /\ titleFd' = NoFd \/ (titleTry + 1 < MAX_IP_RETRIES /\ net_ip_top_fd >= 0
                               /\ titleFd' = net_ip_top_fd)
        /\ titleTry' = IF titleFd' = NoFd THEN 0 ELSE titleTry + 1
    BY <1>13 DEF TitleAnswered
  <2>2. titleFd' \in Fds \cup {NoFd} /\ titleTry' \in 0 .. MAX_IP_RETRIES - 1
    BY <2>1
  <2> QED BY <1>13, <2>2 DEF TitleAnswered
<1>14. CASE UNCHANGED netInitVars
  BY <1>14 DEF netInitVars, titleVars
<1> QED
  BY <1>1, <1>2, <1>3, <1>4, <1>5, <1>6, <1>7, <1>8, <1>9, <1>10, <1>11, <1>12, <1>13, <1>14
     DEF NetInitNext, Bring

LEMMA IInvHolds == NetInitSpec => []UpInv
BY InitUpInv, NextUpInv, PTL DEF NetInitSpec

\* Whatever fails and however often, retries stay within their bounds and no variable
\* leaves its type.
THEOREM NetInitTypeCorrect == NetInitSpec => []NetInitTypeOK
<1>1. UpInv => NetInitTypeOK
  BY DEF UpInv
<1> QED BY <1>1, IInvHolds, PTL

\* An attempt that fails half way gives the global handle back: when initializeNetwork
\* reports success the socket device is open behind it and was started.
THEOREM ReadyMeansStartedCorrect == NetInitSpec => []ReadyMeansStarted
<1>1. UpInv => ReadyMeansStarted
  BY DEF UpInv, ReadyMeansStarted, TopInv, TopHeld, ProgressInv
<1> QED BY <1>1, IInvHolds, PTL

\* No path through Mynet_init loses a handle of IOS.
THEOREM HandlesAccountedCorrect == NetInitSpec => []HandlesAccounted
<1>1. UpInv => HandlesAccounted
  BY DEF UpInv, HandlesAccounted, OpenInv, TopInv, TopHeld, LocalInv, ManageHeld, RequestHeld
<1> QED BY <1>1, IInvHolds, PTL
-----------------------------------------------------------------------------
(* The payload of a command.                                               *)

\* The two bytes of a half, and a half from its two bytes.
LEMMA PackHFacts ==
    ASSUME NEW h \in Half
    PROVE  /\ PackH(h) \in Seq(Byte) /\ Len(PackH(h)) = 2
           /\ 256 * PackH(h)[1] + PackH(h)[2] = h
<1>1. h \in Int /\ 0 <= h /\ h <= 65535
  BY DEF Half
<1>2. h \div 256 \in Byte /\ h % 256 \in Byte
  BY <1>1 DEF Byte
<1>3. h % 256 = h - 256 * (h \div 256)
  BY <1>1
<1> DEFINE hi == h \div 256
           lo == h % 256
<1>4. hi \in Byte /\ lo \in Byte /\ 256 * hi + lo = h
  <2>1. hi \in Int /\ lo \in Int
    BY <1>2 DEF Byte
  <2> HIDE DEF hi
  <2> QED BY <1>1, <1>2, <1>3, <2>1 DEF hi
<1>5. PackH(h) = <<hi, lo>>
  BY DEF PackH
<1> HIDE DEF hi, lo
<1> QED BY <1>4, <1>5

LEMMA PackHalvesFacts ==
    ASSUME NEW hs \in Seq(Half)
    PROVE  /\ PackHalves(hs) \in Seq(Byte) /\ Len(PackHalves(hs)) = 2 * Len(hs)
           /\ \A k \in 1 .. Len(hs) :
                256 * PackHalves(hs)[2 * k - 1] + PackHalves(hs)[2 * k] = hs[k]
<1> DEFINE s == [k \in 1 .. Len(hs) |-> PackH(hs[k])]
<1>1. s \in Seq(Seq(Byte)) /\ Len(s) = Len(hs) /\ Len(hs) \in Nat
      /\ \A k \in 1 .. Len(hs) : s[k] = PackH(hs[k]) /\ hs[k] \in Half
  <2>1. \A k \in 1 .. Len(hs) : hs[k] \in Half /\ PackH(hs[k]) \in Seq(Byte)
    BY PackHFacts, ElementOfSeq
  <2>2. Len(hs) \in Nat
    OBVIOUS
  <2> QED BY <2>1, <2>2
<1>2. PackHalves(hs) = FlattenSeq(s)
  BY DEF PackHalves
<1> HIDE DEF s
<1>3. PICK g : Joins(g, s, Byte)
  BY <1>1, JoinsExists
<1>4. PackHalves(hs) = g[Len(hs)]
  BY <1>1, <1>2, <1>3, FlattenJoins
<1> DEFINE Packed(n) == /\ Len(g[n]) = 2 * n
                        /\ \A k \in 1 .. n : 256 * g[n][2 * k - 1] + g[n][2 * k] = hs[k]
           T == {n \in Nat : n <= Len(hs) => Packed(n)}
<1>5. 0 \in T
  BY <1>3 DEF Joins
<1>6. ASSUME NEW n \in T PROVE n + 1 \in T
  <2> SUFFICES ASSUME n + 1 <= Len(hs) PROVE Packed(n + 1)
    BY <1>6
  <2> DEFINE m == n + 1
             x == PackH(hs[m])
  <2>1. n \in Nat /\ m \in 1 .. Len(hs) /\ m - 1 = n /\ n <= Len(hs)
    BY <1>1, <1>6
  <2>2. g[m] = g[n] \o x
    BY <1>1, <1>3, <2>1 DEF Joins
  <2>3. Packed(n)
    BY <1>6, <2>1
  <2>4. g[n] \in Seq(Byte)
    BY <1>3, <2>1 DEF Joins
  <2>5. x \in Seq(Byte) /\ Len(x) = 2 /\ 256 * x[1] + x[2] = hs[m]
    BY <1>1, <2>1, PackHFacts
  <2> HIDE DEF x
  <2>6. /\ Len(g[m]) = 2 * n + 2
        /\ \A i \in 1 .. 2 * n + 2 : g[m][i] = IF i <= 2 * n THEN g[n][i] ELSE x[i - 2 * n]
    <3> DEFINE a == g[n]
    <3>1. a \in Seq(Byte) /\ Len(a) = 2 * n /\ 2 * n \in Nat
      BY <2>1, <2>3, <2>4
    <3> HIDE DEF a
    <3>2. /\ Len(a \o x) = Len(a) + Len(x)
          /\ \A i \in 1 .. Len(a) + Len(x) :
               (a \o x)[i] = IF i <= Len(a) THEN a[i] ELSE x[i - Len(a)]
      BY <2>5, <3>1, ConcatProperties, ZenonT(60)
    <3> QED BY <2>2, <2>5, <3>1, <3>2 DEF a
  <2>7. ASSUME NEW k \in 1 .. m PROVE 256 * g[m][2 * k - 1] + g[m][2 * k] = hs[k]
    <3>1. CASE k <= n
      <4>1. g[m][2 * k - 1] = g[n][2 * k - 1] /\ g[m][2 * k] = g[n][2 * k]
        <5>1. 2 * k - 1 \in 1 .. 2 * n + 2 /\ 2 * k \in 1 .. 2 * n + 2
              /\ 2 * k - 1 <= 2 * n /\ 2 * k <= 2 * n
          BY <2>1, <3>1
        <5> QED BY <2>6, <5>1
      <4> QED BY <2>1, <2>3, <3>1, <4>1
    <3>2. CASE k = m
      <4>1. 2 * k - 1 \in 1 .. 2 * n + 2 /\ 2 * k \in 1 .. 2 * n + 2
            /\ (2 * k - 1) - 2 * n = 1 /\ 2 * k - 2 * n = 2
        BY <2>1, <3>2
      <4>2. g[m][2 * k - 1] = x[1] /\ g[m][2 * k] = x[2]
        BY <2>1, <2>6, <4>1
      <4> QED BY <2>5, <3>2, <4>2
    <3> QED BY <2>1, <3>1, <3>2
  <2>8. Len(g[m]) = 2 * m
    BY <2>1, <2>6
  <2> QED BY <2>7, <2>8
<1>7. T \in SUBSET Nat
  OBVIOUS
<1>8. Len(hs) \in T
  <2> HIDE DEF T
  <2> QED BY <1>1, <1>5, <1>6, <1>7, SetInduction
<1>9. g[Len(hs)] \in Seq(Byte)
  BY <1>1, <1>3 DEF Joins
<1> QED BY <1>1, <1>4, <1>8, <1>9

Wide(arg) == arg.tag \in {"i", "f", "d", "p"}
WellTyped(arg) ==
    /\ arg.tag \in Tags
    /\ Wide(arg) => arg.value \in Seq(Half) /\ Len(arg.value) = IF arg.tag = "d" THEN 4 ELSE 2
    /\ ~Wide(arg) => arg.value \in Seq(Byte) /\ Len(arg.value) \in Half

\* What is on the wire for a parameter.
LEMMA EncodedFacts ==
    ASSUME NEW arg, WellTyped(arg)
    PROVE  LET e == Encoded(arg) n == Len(arg.value) IN
           /\ e \in Seq(Byte) /\ n \in Nat /\ e[1] = Tag[arg.tag]
           /\ Wide(arg) => /\ Len(e) = 1 + 2 * n
                           /\ \A k \in 1 .. n : 256 * e[2 * k] + e[2 * k + 1] = arg.value[k]
           /\ ~Wide(arg) => /\ Len(e) = 3 + n /\ 256 * e[2] + e[3] = n
                            /\ \A k \in 1 .. n : e[3 + k] = arg.value[k]
<1> DEFINE e == Encoded(arg)
           n == Len(arg.value)
           tag == <<Tag[arg.tag]>>
<1>1. tag \in Seq(Byte) /\ Len(tag) = 1 /\ tag[1] = Tag[arg.tag]
  <2>1. Tag[arg.tag] \in Byte
    <3>1. Tag \in [Tags -> 0 .. 255]
      BY DEF Tag, Tags
    <3> QED BY <3>1 DEF WellTyped, Byte
  <2> HIDE DEF Tag
  <2> QED BY <2>1
<1>2. CASE Wide(arg)
  <2> DEFINE b == PackHalves(arg.value)
  <2>1. e = tag \o b
    BY <1>2 DEF Encoded, Wide
  <2>2. b \in Seq(Byte) /\ Len(b) = 2 * n /\ n \in Nat
        /\ \A k \in 1 .. n : 256 * b[2 * k - 1] + b[2 * k] = arg.value[k]
    BY <1>2, PackHalvesFacts DEF WellTyped
  <2> HIDE DEF b, tag, e
  <2>3. /\ e \in Seq(Byte) /\ Len(e) = 1 + 2 * n
        /\ \A i \in 1 .. 1 + 2 * n : e[i] = IF i <= 1 THEN tag[i] ELSE b[i - 1]
    <3>1. /\ tag \o b \in Seq(Byte) /\ Len(tag \o b) = Len(tag) + Len(b)
          /\ \A i \in 1 .. Len(tag) + Len(b) :
               (tag \o b)[i] = IF i <= Len(tag) THEN tag[i] ELSE b[i - Len(tag)]
      BY <1>1, <2>2, ConcatProperties
    <3> QED BY <1>1, <2>1, <2>2, <3>1
  <2>4. ASSUME NEW k \in 1 .. n PROVE 256 * e[2 * k] + e[2 * k + 1] = arg.value[k]
    <3>1. 2 * k \in 1 .. 1 + 2 * n /\ 2 * k + 1 \in 1 .. 1 + 2 * n /\ ~(2 * k <= 1)
          /\ ~(2 * k + 1 <= 1) /\ (2 * k + 1) - 1 = 2 * k
      BY <2>2
    <3>2. e[2 * k] = b[2 * k - 1] /\ e[2 * k + 1] = b[2 * k]
      BY <2>3, <3>1
    <3> QED BY <2>2, <3>2
  <2>5. e[1] = Tag[arg.tag]
    BY <1>1, <2>2, <2>3
  <2> QED BY <1>2, <2>2, <2>3, <2>4, <2>5 DEF e
<1>3. CASE ~Wide(arg)
  <2> DEFINE l == PackH(n)
             b == l \o arg.value
  <2>1. e = tag \o b
    BY <1>3 DEF Encoded, Wide, WellTyped, Tags
  <2>2. n \in Half /\ n \in Nat /\ arg.value \in Seq(Byte)
    <3>1. n \in Half /\ arg.value \in Seq(Byte)
      BY <1>3 DEF WellTyped
    <3>2. n \in Nat
      <4> HIDE DEF n
      <4> QED BY <3>1 DEF Half
    <3> QED BY <3>1, <3>2
  <2>3. l \in Seq(Byte) /\ Len(l) = 2 /\ 256 * l[1] + l[2] = n
    BY <2>2, PackHFacts
  <2> HIDE DEF l, n, tag, e
  <2>4. b \in Seq(Byte) /\ Len(b) = 2 + n
        /\ \A i \in 1 .. 2 + n : b[i] = IF i <= 2 THEN l[i] ELSE arg.value[i - 2]
    <3>1. /\ b \in Seq(Byte) /\ Len(b) = Len(l) + Len(arg.value)
          /\ \A i \in 1 .. Len(l) + Len(arg.value) :
               b[i] = IF i <= Len(l) THEN l[i] ELSE arg.value[i - Len(l)]
      BY <2>2, <2>3, ConcatProperties
    <3> QED BY <2>2, <2>3, <3>1 DEF n
  <2> HIDE DEF b
  <2>5. /\ e \in Seq(Byte) /\ Len(e) = 1 + (2 + n)
        /\ \A i \in 1 .. 1 + (2 + n) : e[i] = IF i <= 1 THEN tag[i] ELSE b[i - 1]
    <3>1. /\ tag \o b \in Seq(Byte) /\ Len(tag \o b) = Len(tag) + Len(b)
          /\ \A i \in 1 .. Len(tag) + Len(b) :
               (tag \o b)[i] = IF i <= Len(tag) THEN tag[i] ELSE b[i - Len(tag)]
      BY <1>1, <2>4, ConcatProperties
    <3> QED BY <1>1, <2>1, <2>2, <2>4, <3>1
  <2>6. e[1] = tag[1] /\ e[2] = l[1] /\ e[3] = l[2]
    BY <2>2, <2>4, <2>5
  <2>7. ASSUME NEW k \in 1 .. n PROVE e[3 + k] = arg.value[k]
    <3>1. 3 + k \in 1 .. 1 + (2 + n) /\ 2 + k \in 1 .. 2 + n /\ (3 + k) - 1 = 2 + k
          /\ (2 + k) - 2 = k /\ ~(3 + k <= 1) /\ ~(2 + k <= 2)
      BY <2>2
    <3>2. e[3 + k] = b[2 + k]
      BY <2>5, <3>1
    <3>3. b[2 + k] = arg.value[k]
      BY <2>4, <3>1
    <3> QED BY <3>2, <3>3
  <2>8. Len(e) = 3 + n
    BY <2>2, <2>5
  <2> QED BY <1>1, <1>3, <2>2, <2>3, <2>5, <2>6, <2>7, <2>8 DEF e, n
<1> QED BY <1>2, <1>3

LEMMA ArgumentsAreWellTyped == \A arg \in Args : WellTyped(arg)
<1> SUFFICES ASSUME NEW arg \in Args PROVE WellTyped(arg)
  OBVIOUS
<1>1. CASE arg \in [tag : {"i", "f", "p"}, value : [1 .. 2 -> Half]]
  <2>1. arg.tag \in {"i", "f", "p"} /\ arg.value \in [1 .. 2 -> Half]
    BY <1>1
  <2>2. arg.value \in Seq(Half) /\ Len(arg.value) = 2
    <3> DEFINE v == [k \in 1 .. 2 |-> arg.value[k]]
    <3>1. v \in Seq(Half) /\ Len(v) = 2
      <4>1. \A k \in 1 .. 2 : arg.value[k] \in Half
        BY <2>1
      <4> QED BY <4>1
    <3>2. arg.value = v
      BY <2>1
    <3> QED BY <3>1, <3>2
  <2> QED BY <2>1, <2>2 DEF WellTyped, Wide, Tags
<1>2. CASE arg \in [tag : {"d"}, value : [1 .. 4 -> Half]]
  <2>1. arg.tag = "d" /\ arg.value \in [1 .. 4 -> Half]
    BY <1>2
  <2>2. arg.value \in Seq(Half) /\ Len(arg.value) = 4
    <3> DEFINE v == [k \in 1 .. 4 |-> arg.value[k]]
    <3>1. v \in Seq(Half) /\ Len(v) = 4
      <4>1. \A k \in 1 .. 4 : arg.value[k] \in Half
        BY <2>1
      <4> QED BY <4>1
    <3>2. arg.value = v
      BY <2>1
    <3> QED BY <3>1, <3>2
  <2> QED BY <2>1, <2>2 DEF WellTyped, Wide, Tags
<1>3. CASE arg \in [tag : {"s", "b"}, value : Seq(Byte)] /\ Len(arg.value) \in Half
  BY <1>3 DEF WellTyped, Wide, Tags
<1> QED BY <1>1, <1>2, <1>3, PayloadAssumption DEF ArgumentAssumption

\* The packet of the first n of the parameters.
Packet(args, n) == setup_packet(SubSeq(args, 1, n))

LEMMA PacketGrows ==
    ASSUME NEW args \in Seq(Args)
    PROVE  /\ Packet(args, 0) = <<>> /\ Packet(args, Len(args)) = setup_packet(args)
           /\ \A n \in 0 .. Len(args) : Packet(args, n) \in Seq(Byte)
           /\ \A n \in 0 .. Len(args) - 1 :
                Packet(args, n + 1) = Packet(args, n) \o Encoded(args[n + 1])
<1> DEFINE enc(n) == [k \in 1 .. n |-> Encoded(args[k])]
<1>1. Len(args) \in Nat /\ \A k \in 1 .. Len(args) : Encoded(args[k]) \in Seq(Byte)
  <2>1. ASSUME NEW k \in 1 .. Len(args) PROVE Encoded(args[k]) \in Seq(Byte)
    <3>1. WellTyped(args[k])
      BY ElementOfSeq, ArgumentsAreWellTyped
    <3> QED BY <3>1, EncodedFacts
  <2> QED BY <2>1
<1>2. ASSUME NEW n \in 0 .. Len(args)
      PROVE  enc(n) \in Seq(Seq(Byte)) /\ Len(enc(n)) = n /\ Packet(args, n) = FlattenSeq(enc(n))
  <2>1. n \in Nat /\ \A k \in 1 .. n : k \in 1 .. Len(args)
    BY <1>1
  <2>2. enc(n) \in Seq(Seq(Byte)) /\ Len(enc(n)) = n
    BY <1>1, <2>1
  <2> DEFINE s == SubSeq(args, 1, n)
  <2>3. \A i \in 1 .. n : args[i] \in Args
    BY <2>1, ElementOfSeq
  <2>4. Len(s) = n /\ \A k \in 1 .. n : s[k] = args[k]
    <3>1. /\ Len(s) = IF 1 <= n THEN n - 1 + 1 ELSE 0
          /\ \A i \in 1 .. n - 1 + 1 : s[i] = args[1 + i - 1]
      BY <2>1, <2>3, SubSeqProperties
    <3> HIDE DEF s
    <3> QED BY <2>1, <3>1
  <2> HIDE DEF s
  <2>5. [k \in 1 .. Len(s) |-> Encoded(s[k])] = enc(n)
    BY <2>4
  <2> QED BY <2>2, <2>5 DEF Packet, setup_packet, s
<1>3. \A n \in 0 .. Len(args) : Packet(args, n) \in Seq(Byte)
  <2> SUFFICES ASSUME NEW n \in 0 .. Len(args) PROVE Packet(args, n) \in Seq(Byte)
    OBVIOUS
  <2> HIDE DEF enc
  <2>1. <<>> \in Seq(Byte)
    OBVIOUS
  <2> QED BY <1>2, <2>1, FlattenGrows
<1>4. Packet(args, 0) = <<>>
  <2>1. enc(0) = <<>> /\ 0 \in 0 .. Len(args)
    BY <1>1
  <2> HIDE DEF enc
  <2> QED BY <1>2, <2>1, FlattenEmpty
<1>5. Packet(args, Len(args)) = setup_packet(args)
  BY SubSeqFull DEF Packet
<1>6. ASSUME NEW n \in 0 .. Len(args) - 1
      PROVE  Packet(args, n + 1) = Packet(args, n) \o Encoded(args[n + 1])
  <2>1. n \in 0 .. Len(args) /\ n + 1 \in 0 .. Len(args) /\ n + 1 \in 1 .. Len(args)
    BY <1>1
  <2>2. enc(n + 1) = Append(enc(n), Encoded(args[n + 1]))
    <3>1. \A k \in 1 .. n : k # n + 1
      BY <2>1
    <3>2. enc(n) \in Seq(Seq(Byte)) /\ Len(enc(n)) = n
      BY <1>2, <2>1
    <3>3. enc(n + 1) \in Seq(Seq(Byte)) /\ Len(enc(n + 1)) = n + 1
      BY <1>2, <2>1
    <3>4. \A k \in 1 .. n + 1 :
             enc(n + 1)[k] = IF k = n + 1 THEN Encoded(args[n + 1]) ELSE enc(n)[k]
      BY <2>1
    <3>5. Encoded(args[n + 1]) \in Seq(Byte)
      BY <1>1, <2>1
    <3> HIDE DEF enc
    <3>6. /\ Append(enc(n), Encoded(args[n + 1])) \in Seq(Seq(Byte))
          /\ Len(Append(enc(n), Encoded(args[n + 1]))) = n + 1
          /\ \A k \in 1 .. n + 1 : Append(enc(n), Encoded(args[n + 1]))[k]
                                     = IF k = n + 1 THEN Encoded(args[n + 1]) ELSE enc(n)[k]
      BY <2>1, <3>2, <3>5
    <3> QED BY <3>3, <3>4, <3>6, SeqEqual
  <2>3. Encoded(args[n + 1]) \in Seq(Byte)
    BY <1>1, <2>1
  <2> HIDE DEF enc
  <2> QED BY <1>2, <2>1, <2>2, <2>3, FlattenGrows
<1> QED BY <1>3, <1>4, <1>5, <1>6

\* A packet of fewer parameters is shorter, and the start of the longer one.
LEMMA PacketsNest ==
    ASSUME NEW args \in Seq(Args), NEW m \in 0 .. Len(args), NEW n \in 0 .. Len(args), m <= n
    PROVE  /\ Len(Packet(args, m)) \in Nat /\ Len(Packet(args, m)) <= Len(Packet(args, n))
           /\ m < n => Len(Packet(args, m)) < Len(Packet(args, n))
           /\ \A i \in 1 .. Len(Packet(args, m)) : Packet(args, n)[i] = Packet(args, m)[i]
<1> DEFINE p(k) == Packet(args, k)
           Nested(k) == /\ Len(p(m)) <= Len(p(k)) /\ (m < k => Len(p(m)) < Len(p(k)))
                        /\ \A i \in 1 .. Len(p(m)) : p(k)[i] = p(m)[i]
           T == {k \in Nat : m <= k /\ k <= Len(args) => Nested(k)}
<1>1. Len(args) \in Nat /\ m \in Nat /\ n \in Nat
  OBVIOUS
<1>2. \A k \in 0 .. Len(args) : p(k) \in Seq(Byte) /\ Len(p(k)) \in Nat
  BY PacketGrows
<1> HIDE DEF p
<1>3. Nested(m)
  BY <1>1, <1>2
<1>4. 0 \in T
  BY <1>1, <1>3
<1>5. ASSUME NEW k \in T PROVE k + 1 \in T
  <2> SUFFICES ASSUME m <= k + 1, k + 1 <= Len(args) PROVE Nested(k + 1)
    BY <1>5
  <2>1. CASE m = k + 1
    BY <1>3, <2>1
  <2>2. CASE m # k + 1
    <3> DEFINE e == Encoded(args[k + 1])
    <3>1. k \in 0 .. Len(args) - 1 /\ m <= k /\ k \in 0 .. Len(args) /\ k + 1 \in 1 .. Len(args)
      BY <1>1, <1>5, <2>2
    <3>2. Nested(k)
      BY <1>5, <3>1
    <3>3. p(k + 1) = p(k) \o e
      BY <3>1, PacketGrows DEF p
    <3>4. e \in Seq(Byte) /\ Len(e) \in Nat /\ Len(e) >= 1
      <4>1. WellTyped(args[k + 1])
        BY <3>1, ElementOfSeq, ArgumentsAreWellTyped
      <4>2. e \in Seq(Byte) /\ Len(args[k + 1].value) \in Nat
            /\ (Len(e) = 1 + 2 * Len(args[k + 1].value) \/ Len(e) = 3 + Len(args[k + 1].value))
        BY <4>1, EncodedFacts
      <4> HIDE DEF e
      <4> QED BY <4>2
    <3> HIDE DEF e
    <3>5. p(k) \in Seq(Byte) /\ Len(p(k)) \in Nat
      BY <1>2, <3>1
    <3>6. /\ Len(p(k) \o e) = Len(p(k)) + Len(e)
          /\ \A i \in 1 .. Len(p(k)) + Len(e) :
               (p(k) \o e)[i] = IF i <= Len(p(k)) THEN p(k)[i] ELSE e[i - Len(p(k))]
      BY <3>4, <3>5, ConcatProperties
    <3>7. Len(p(m)) \in Nat
      BY <1>2
    <3>8. Len(p(m)) < Len(p(k + 1))
      BY <3>2, <3>3, <3>4, <3>5, <3>6, <3>7
    <3>9. ASSUME NEW i \in 1 .. Len(p(m)) PROVE p(k + 1)[i] = p(m)[i]
      <4>1. i \in 1 .. Len(p(k)) + Len(e) /\ i <= Len(p(k))
        BY <3>2, <3>4, <3>5, <3>7
      <4> QED BY <3>2, <3>3, <3>6, <4>1
    <3>10. Len(p(k + 1)) \in Nat
      BY <3>3, <3>4, <3>5, <3>6
    <3> QED BY <3>7, <3>8, <3>9, <3>10
  <2> QED BY <2>1, <2>2
<1>6. T \in SUBSET Nat
  OBVIOUS
<1>7. n \in T
  <2> HIDE DEF T
  <2> QED BY <1>1, <1>4, <1>5, <1>6, SetInduction
<1>8. Nested(n)
  BY <1>1, <1>7
<1> QED BY <1>2, <1>8 DEF p

\* In the packet, a parameter stands where the parameters before it end.
LEMMA ParameterInPacket ==
    ASSUME NEW args \in Seq(Args), NEW n \in 0 .. Len(args) - 1
    PROVE  LET e == Encoded(args[n + 1])
               start == Len(Packet(args, n))
               whole == Packet(args, Len(args))
           IN /\ WellTyped(args[n + 1]) /\ Len(e) \in Nat /\ start \in Nat
              /\ Len(whole) \in Nat /\ start + Len(e) <= Len(whole)
              /\ Len(Packet(args, n + 1)) = start + Len(e)
              /\ \A i \in 1 .. Len(e) : whole[start + i] = e[i]
<1> DEFINE e == Encoded(args[n + 1])
           p == Packet(args, n)
           q == Packet(args, n + 1)
           whole == Packet(args, Len(args))
<1>1. Len(args) \in Nat /\ n \in 0 .. Len(args) /\ n + 1 \in 0 .. Len(args)
      /\ n + 1 \in 1 .. Len(args) /\ Len(args) \in 0 .. Len(args) /\ n + 1 <= Len(args)
  OBVIOUS
<1>2. WellTyped(args[n + 1])
  BY <1>1, ElementOfSeq, ArgumentsAreWellTyped
<1>3. e \in Seq(Byte)
  BY <1>2, EncodedFacts
<1>4. p \in Seq(Byte) /\ whole \in Seq(Byte) /\ q = p \o e
  BY <1>1, PacketGrows
<1>5. Len(q) \in Nat /\ Len(q) <= Len(whole) /\ \A i \in 1 .. Len(q) : whole[i] = q[i]
  BY <1>1, PacketsNest
<1> HIDE DEF e, p, q, whole
<1>6. Len(e) \in Nat /\ Len(p) \in Nat /\ Len(whole) \in Nat
  BY <1>3, <1>4
<1>7. /\ Len(p \o e) = Len(p) + Len(e)
      /\ \A i \in 1 .. Len(p) + Len(e) :
           (p \o e)[i] = IF i <= Len(p) THEN p[i] ELSE e[i - Len(p)]
  BY <1>3, <1>4, ConcatProperties
<1>8. ASSUME NEW i \in 1 .. Len(e) PROVE whole[Len(p) + i] = e[i]
  <2>1. Len(p) + i \in 1 .. Len(q) /\ Len(p) + i \in 1 .. Len(p) + Len(e)
        /\ ~(Len(p) + i <= Len(p)) /\ (Len(p) + i) - Len(p) = i
    BY <1>4, <1>6, <1>7
  <2> QED BY <1>4, <1>5, <1>7, <2>1
<1>9. Len(q) = Len(p) + Len(e)
  BY <1>4, <1>7
<1> QED BY <1>2, <1>5, <1>6, <1>8, <1>9 DEF e, p, q, whole

LEMMA TagsDiffer ==
    /\ \A s, t \in Tags : Tag[s] = Tag[t] => s = t
    /\ \A t \in Tags : Tag[t] # Untagged
BY DEF Tag, Tags, Untagged

\* A round of the parser where the bytes of a parameter begin: it takes the parameter
\* if they are all there and it is acceptable, and refuses it otherwise.
LEMMA ParserReadsParameter ==
    ASSUME NEW arg, WellTyped(arg), payload \in Seq(Byte), at \in Nat, at < Len(payload),
           \A i \in 1 .. Len(Encoded(arg)) :
             at + i <= Len(payload) => payload[at + i] = Encoded(arg)[i],
           payloadProcess
    PROVE  LET length == Len(Encoded(arg)) IN
           \/ /\ at + length <= Len(payload) /\ Acceptable(arg)
              /\ at' = at + length /\ valid' = valid
              /\ arg.tag = "b" => UNCHANGED <<params, overrun>>
              /\ arg.tag # "b" => Stores(arg.tag, arg.value)
           \/ /\ ~(at + length <= Len(payload) /\ Acceptable(arg))
              /\ Refuses
<1> DEFINE e == Encoded(arg)
           n == Len(arg.value)
<1>1. /\ e \in Seq(Byte) /\ n \in Nat /\ e[1] = Tag[arg.tag]
      /\ Wide(arg) => /\ Len(e) = 1 + 2 * n
                      /\ \A k \in 1 .. n : 256 * e[2 * k] + e[2 * k + 1] = arg.value[k]
      /\ ~Wide(arg) => /\ Len(e) = 3 + n /\ 256 * e[2] + e[3] = n
                       /\ \A k \in 1 .. n : e[3 + k] = arg.value[k]
  BY EncodedFacts
<1> HIDE DEF e
<1>2. Len(payload) \in Nat /\ arg.tag \in Tags /\ Len(e) \in Nat /\ Len(e) >= 1
  BY <1>1 DEF WellTyped
<1>3. \A i \in 1 .. Len(e) : at + i <= Len(payload) => payload[at + i] = e[i]
  BY DEF e
<1>4. payload[at + 1] = Tag[arg.tag]
  <2>1. 1 \in 1 .. Len(e) /\ at + 1 <= Len(payload)
    BY <1>2
  <2> QED BY <1>1, <1>3, <2>1
<1>5. \A t \in Tags : payload[at + 1] = Tag[t] => t = arg.tag
  BY <1>2, <1>4, TagsDiffer
<1>6. ~UnknownTag
  BY <1>2, <1>4 DEF UnknownTag
<1>7. ASSUME Wide(arg), at + Len(e) <= Len(payload)
      PROVE  /\ arg.tag # "d" => n = 2 /\ Halves(at + 1, 4) = arg.value
             /\ arg.tag = "d" => n = 4 /\ Halves(at + 1, 8) = arg.value
  <2> DEFINE b(j) == 256 * payload[at + 1 + 2 * j - 1] + payload[at + 1 + 2 * j]
  <2>1. \A j \in 1 .. n : b(j) = arg.value[j]
    <3> SUFFICES ASSUME NEW j \in 1 .. n PROVE b(j) = arg.value[j]
      OBVIOUS
    <3>1. 2 * j \in 1 .. Len(e) /\ 2 * j + 1 \in 1 .. Len(e) /\ at + 1 + 2 * j - 1 = at + 2 * j
          /\ at + 1 + 2 * j = at + (2 * j + 1)
          /\ at + 2 * j <= Len(payload) /\ at + (2 * j + 1) <= Len(payload)
      <4>1. Len(e) = 1 + 2 * n /\ n \in Nat
        BY <1>1, <1>7
      <4> HIDE DEF n
      <4> QED BY <1>2, <1>7, <4>1
    <3>2. payload[at + 2 * j] = e[2 * j] /\ payload[at + (2 * j + 1)] = e[2 * j + 1]
      BY <1>3, <3>1
    <3> QED BY <1>1, <1>7, <3>1, <3>2
  <2>2. arg.value = [j \in 1 .. n |-> arg.value[j]]
    BY <1>7 DEF WellTyped
  <2>3. arg.value = [j \in 1 .. n |-> b(j)]
    BY <2>1, <2>2
  <2>4. n = IF arg.tag = "d" THEN 4 ELSE 2
    BY <1>7 DEF WellTyped
  <2>5. 4 \div 2 = 2 /\ 8 \div 2 = 4
    OBVIOUS
  <2>6. Halves(at + 1, 4) = [j \in 1 .. 2 |-> b(j)] /\ Halves(at + 1, 8) = [j \in 1 .. 4 |-> b(j)]
    BY <2>5 DEF Halves
  <2> HIDE DEF b, n
  <2> QED BY <2>3, <2>4, <2>6
<1>8. Wide(arg) => Len(e) = IF arg.tag = "d" THEN 9 ELSE 5
  <2> SUFFICES ASSUME Wide(arg) PROVE Len(e) = IF arg.tag = "d" THEN 9 ELSE 5
    OBVIOUS
  <2>1. n = IF arg.tag = "d" THEN 4 ELSE 2
    BY DEF WellTyped
  <2>2. Len(e) = 1 + 2 * n
    BY <1>1
  <2> HIDE DEF n
  <2> QED BY <2>1, <2>2
<1>9. ASSUME ~Wide(arg), Fits(3) PROVE Length = n
  <2>1. 2 \in 1 .. Len(e) /\ 3 \in 1 .. Len(e) /\ at + 2 <= Len(payload) /\ at + 3 <= Len(payload)
    BY <1>1, <1>2, <1>9 DEF Fits
  <2>2. payload[at + 2] = e[2] /\ payload[at + 3] = e[3]
    BY <1>3, <2>1
  <2>3. at + 1 + 2 * 1 - 1 = at + 2 /\ at + 1 + 2 * 1 = at + 3 /\ 2 \div 2 = 1 /\ 1 \in 1 .. 1
    OBVIOUS
  <2>4. Length = 256 * payload[at + 1 + 2 * 1 - 1] + payload[at + 1 + 2 * 1]
    BY <2>3 DEF Length, Halves
  <2> QED BY <1>1, <1>9, <2>2, <2>3, <2>4
<1>10. ASSUME ~Wide(arg), at + Len(e) <= Len(payload), Length = n
       PROVE  SubSeq(payload, at + 4, at + 3 + Length) = arg.value
  <2> DEFINE s == SubSeq(payload, at + 4, at + 3 + n)
  <2>0. Len(e) = 3 + n /\ n \in Nat /\ arg.value \in Seq(Byte) /\ Len(arg.value) = n
        /\ \A k \in 1 .. n : e[3 + k] = arg.value[k]
    BY <1>1, <1>10 DEF WellTyped
  <2> HIDE DEF n
  <2>1. \A i \in at + 4 .. at + 3 + n : payload[i] \in Byte
    <3>1. \A i \in at + 4 .. at + 3 + n : i \in 1 .. Len(payload)
      BY <1>2, <1>10, <2>0
    <3> QED BY <3>1, ElementOfSeq
  <2>2. /\ s \in Seq(Byte)
        /\ Len(s) = IF at + 4 <= at + 3 + n THEN (at + 3 + n) - (at + 4) + 1 ELSE 0
        /\ \A i \in 1 .. (at + 3 + n) - (at + 4) + 1 : s[i] = payload[at + 4 + i - 1]
    <3>1. at + 4 \in Int /\ at + 3 + n \in Int
      BY <2>0
    <3> QED BY <2>1, <3>1, SubSeqProperties
  <2> HIDE DEF s
  <2>3. Len(s) = n
    BY <2>0, <2>2
  <2>4. ASSUME NEW k \in 1 .. n PROVE s[k] = arg.value[k]
    <3>1. k \in 1 .. (at + 3 + n) - (at + 4) + 1 /\ at + 4 + k - 1 = at + (3 + k)
          /\ 3 + k \in 1 .. Len(e) /\ at + (3 + k) <= Len(payload)
      BY <1>2, <1>10, <2>0
    <3>2. s[k] = payload[at + (3 + k)]
      BY <2>2, <3>1
    <3>3. payload[at + (3 + k)] = e[3 + k]
      BY <1>3, <3>1
    <3> QED BY <2>0, <3>2, <3>3
  <2>5. s = arg.value
    BY <2>0, <2>2, <2>3, <2>4, SeqEqual
  <2> QED BY <1>10, <2>5 DEF s
<1>11. CASE \E t \in {"i", "f", "d"}, k \in {4, 8} : (k = 8 <=> t = "d") /\ Number(t, k)
  <2>1. PICK t \in {"i", "f", "d"}, k \in {4, 8} : (k = 8 <=> t = "d") /\ Number(t, k)
    BY <1>11
  <2>2. t = arg.tag /\ Wide(arg) /\ Acceptable(arg) /\ arg.tag # "b"
    BY <1>5, <2>1 DEF Number, Tags, Wide, Acceptable
  <2>3. Len(e) = 1 + k
    <3>1. Len(e) = IF t = "d" THEN 9 ELSE 5
      BY <1>8, <2>2
    <3>2. k = IF t = "d" THEN 8 ELSE 4
      BY <2>1
    <3> QED BY <3>1, <3>2
  <2>4. CASE at + Len(e) <= Len(payload)
    <3>1. Halves(at + 1, k) = arg.value
      BY <1>7, <2>1, <2>2, <2>4
    <3>2. Takes(1 + k) /\ Stores(t, arg.value)
      BY <2>1, <2>3, <2>4, <3>1 DEF Number, Fits
    <3> QED BY <2>2, <2>3, <2>4, <3>2 DEF Takes, Stores, e
  <2>5. CASE ~(at + Len(e) <= Len(payload))
    BY <2>1, <2>3, <2>5 DEF Number, Fits, e
  <2> QED BY <2>4, <2>5
<1>12. CASE Pointer
  <2>1. arg.tag = "p" /\ Wide(arg)
    BY <1>5, <1>12 DEF Pointer, Tags, Wide
  <2>2. Len(e) = 5
    BY <1>8, <2>1
  <2>3. CASE at + Len(e) <= Len(payload)
    <3>1. Halves(at + 1, 4) = arg.value
      BY <1>7, <2>1, <2>3
    <3>2. Fits(5) /\ (Acceptable(arg) <=> isValidGamePtr(Halves(at + 1, 4)))
      BY <2>1, <2>2, <2>3, <3>1 DEF Fits, Acceptable
    <3>3. CASE Acceptable(arg)
      <4>1. Takes(5) /\ Stores("p", arg.value)
        BY <1>12, <3>1, <3>2, <3>3 DEF Pointer
      <4> QED BY <2>1, <2>2, <2>3, <3>3, <4>1 DEF Takes, Stores, e
    <3>4. CASE ~Acceptable(arg)
      BY <1>12, <3>2, <3>4 DEF Pointer, e
    <3> QED BY <3>3, <3>4
  <2>4. CASE ~(at + Len(e) <= Len(payload))
    BY <1>12, <2>2, <2>4 DEF Pointer, Fits, e
  <2> QED BY <2>3, <2>4
<1>13. CASE String \/ Block
  <2>1. arg.tag \in {"s", "b"} /\ ~Wide(arg) /\ Acceptable(arg)
        /\ (String => arg.tag = "s") /\ (Block => arg.tag = "b")
    BY <1>5, <1>13 DEF String, Block, Tags, Wide, Acceptable
  <2>2. Fits(3) => Length = n
    BY <1>9, <2>1
  <2>3. Len(e) = 3 + n
    BY <1>1, <2>1
  <2>4. CASE at + Len(e) <= Len(payload)
    <3>1. Fits(3) /\ Length = n /\ Fits(3 + Length)
      <4>1. Fits(3)
        BY <1>1, <1>2, <2>3, <2>4 DEF Fits
      <4> QED BY <2>2, <2>3, <2>4, <4>1 DEF Fits
    <3>2. SubSeq(payload, at + 4, at + 3 + Length) = arg.value
      BY <1>10, <2>1, <2>4, <3>1
    <3>3. CASE String
      <4>1. Takes(3 + Length) /\ Stores("s", arg.value)
        BY <3>1, <3>2, <3>3 DEF String
      <4> QED BY <2>1, <2>3, <2>4, <3>1, <3>3, <4>1 DEF Takes, Stores, e
    <3>4. CASE Block
      <4>1. Takes(3 + Length) /\ UNCHANGED <<params, valid, overrun>>
        BY <3>1, <3>4 DEF Block
      <4> QED BY <2>1, <2>3, <2>4, <3>1, <3>4, <4>1 DEF Takes, e
    <3> QED BY <1>13, <3>3, <3>4
  <2>5. CASE ~(at + Len(e) <= Len(payload))
    <3>1. ~(Fits(3) /\ Fits(3 + Length))
      BY <2>2, <2>3, <2>5 DEF Fits
    <3>2. Refuses
      BY <1>13, <3>1 DEF String, Block
    <3> QED BY <2>5, <3>2 DEF e
  <2> QED BY <2>4, <2>5
<1>14. CASE Number("i", 4) \/ Number("f", 4) \/ Number("d", 8)
  <2>1. ASSUME NEW t \in {"i", "f", "d"}, NEW k \in {4, 8}, k = 8 <=> t = "d", Number(t, k)
        PROVE  \E u \in {"i", "f", "d"}, j \in {4, 8} : (j = 8 <=> u = "d") /\ Number(u, j)
    BY <2>1
  <2>2. \E u \in {"i", "f", "d"}, j \in {4, 8} : (j = 8 <=> u = "d") /\ Number(u, j)
    <3>1. CASE Number("i", 4)
      BY <2>1, <3>1
    <3>2. CASE Number("f", 4)
      BY <2>1, <3>2
    <3>3. CASE Number("d", 8)
      BY <2>1, <3>3
    <3> QED BY <1>14, <3>1, <3>2, <3>3
  <2> QED BY <1>11, <2>2
<1> QED BY <1>6, <1>12, <1>13, <1>14 DEF payloadProcess

Whole == Packet(typed, Len(typed))
Values == {arg.value : arg \in Args}

\* The parser stands at the end of the first n parameters and has handed them over; if
\* it has given up, what follows is no parameter it may take.
ReadUpTo(n) ==
    /\ at = Len(Packet(typed, n)) /\ at <= Len(payload)
    /\ \A k \in 1 .. n : Acceptable(typed[k])
    /\ \A t \in Kinds : HandedOver(t, n)
    /\ ~valid => /\ at < Len(payload)
                 /\ \/ n = Len(typed)
                    \/ Len(payload) < Len(Packet(typed, n + 1))
                    \/ ~Acceptable(typed[n + 1])

PayloadInv ==
    /\ typed \in Seq(Args) /\ payload \in Seq(Byte) /\ Len(payload) <= Len(Whole) + 1
    /\ \A i \in 1 .. Len(payload) : payload[i] = IF i <= Len(Whole) THEN Whole[i] ELSE Untagged
    /\ valid \in BOOLEAN /\ params \in [Kinds -> Seq(Values)] /\ overrun = FALSE
    /\ \E n \in 0 .. Len(typed) : ReadUpTo(n)

\* A value was written behind its array, of a packet with more of its type than fit.
Overran ==
    /\ overrun = TRUE /\ at \in 0 .. Len(payload) /\ valid \in BOOLEAN
    /\ \E t \in Kinds : Cardinality(SentOf(t, Len(typed))) > SLOTS

LEMMA SentOfGrows ==
    ASSUME typed \in Seq(Args), NEW n \in 0 .. Len(typed), NEW t
    PROVE  /\ Cardinality(SentOf(t, 0)) = 0
           /\ Cardinality(SentOf(t, n)) \in Nat
           /\ n < Len(typed) =>
                Cardinality(SentOf(t, n + 1))
                  = Cardinality(SentOf(t, n)) + IF typed[n + 1].tag = t THEN 1 ELSE 0
           /\ \A k \in SentOf(t, n) : Cardinality(SentOf(t, k)) \in 1 .. Cardinality(SentOf(t, n))
<1> DEFINE S == SentOf(t, n)
<1>1. Len(typed) \in Nat /\ n \in Nat
  OBVIOUS
<1>2. \A k \in Nat : IsFiniteSet(SentOf(t, k))
  <2> SUFFICES ASSUME NEW k \in Nat PROVE IsFiniteSet(SentOf(t, k))
    OBVIOUS
  <2>1. IsFiniteSet(1 .. k) /\ SentOf(t, k) \in SUBSET (1 .. k)
    BY FS_Interval DEF SentOf
  <2> QED BY <2>1, FS_Subset
<1>3. Cardinality(SentOf(t, 0)) = 0
  <2>1. SentOf(t, 0) = {}
    BY DEF SentOf
  <2> QED BY <2>1, FS_EmptySet
<1>4. Cardinality(S) \in Nat
  BY <1>1, <1>2, FS_CardinalityType
<1>5. ASSUME n < Len(typed)
      PROVE  Cardinality(SentOf(t, n + 1))
               = Cardinality(S) + IF typed[n + 1].tag = t THEN 1 ELSE 0
  <2>1. n + 1 \notin S
    BY <1>1 DEF SentOf
  <2>2. CASE typed[n + 1].tag = t
    <3>1. SentOf(t, n + 1) = S \cup {n + 1}
      BY <1>1, <2>2 DEF SentOf
    <3>2. Cardinality(S \cup {n + 1}) = Cardinality(S) + 1
      BY <1>1, <1>2, <2>1, FS_AddElement
    <3> HIDE DEF S
    <3> QED BY <2>2, <3>1, <3>2
  <2>3. CASE typed[n + 1].tag # t
    <3>1. SentOf(t, n + 1) = S
      BY <1>1, <2>3 DEF SentOf
    <3> HIDE DEF S
    <3> QED BY <1>4, <2>3, <3>1
  <2> QED BY <2>2, <2>3
<1>6. ASSUME NEW k \in S PROVE Cardinality(SentOf(t, k)) \in 1 .. Cardinality(S)
  <2>1. k \in Nat /\ k <= n /\ k \in SentOf(t, k)
    BY <1>1 DEF SentOf
  <2>2. SentOf(t, k) \in SUBSET S
    BY <1>1, <2>1 DEF SentOf
  <2>3. Cardinality(SentOf(t, k)) \in Nat /\ Cardinality(SentOf(t, k)) <= Cardinality(S)
    BY <1>1, <1>2, <2>1, <2>2, FS_Subset, FS_CardinalityType
  <2>4. Cardinality(SentOf(t, k)) # 0
    BY <1>2, <2>1, FS_EmptySet
  <2> HIDE DEF S
  <2> QED BY <1>4, <2>3, <2>4
<1> QED BY <1>3, <1>4, <1>5, <1>6

LEMMA PayloadInitInv == PayloadInit => PayloadInv
<1> SUFFICES ASSUME PayloadInit PROVE PayloadInv
  OBVIOUS
<1>1. typed \in Seq(Args)
  <2>1. PICK m \in 0 .. MaxArgs : typed \in [1 .. m -> Args]
    BY DEF PayloadInit, SeqOf
  <2>2. typed = [k \in 1 .. m |-> typed[k]] /\ m \in Nat
    BY <2>1, PayloadAssumption
  <2>3. [k \in 1 .. m |-> typed[k]] \in Seq(Args)
    BY <2>1, <2>2
  <2> QED BY <2>2, <2>3
<1>2. Whole = setup_packet(typed) /\ Whole \in Seq(Byte) /\ Len(Whole) \in Nat
      /\ Packet(typed, 0) = <<>> /\ Len(typed) \in Nat
  <2>1. Len(typed) \in 0 .. Len(typed) /\ Len(typed) \in Nat
    BY <1>1
  <2> QED BY <1>1, <2>1, PacketGrows DEF Whole
<1>3. /\ payload \in Seq(Byte) /\ Len(payload) <= Len(Whole) + 1
      /\ \A i \in 1 .. Len(payload) : payload[i] = IF i <= Len(Whole) THEN Whole[i] ELSE Untagged
  <2>1. CASE \E n \in 0 .. Len(Whole) : payload = SubSeq(Whole, 1, n)
    <3>1. PICK n \in 0 .. Len(Whole) : payload = SubSeq(Whole, 1, n)
      BY <2>1
    <3>2. \A i \in 1 .. n : Whole[i] \in Byte
      <4>1. \A i \in 1 .. n : i \in 1 .. Len(Whole)
        BY <1>2
      <4> QED BY <1>2, <4>1, ElementOfSeq
    <3>3. /\ payload \in Seq(Byte) /\ Len(payload) = IF 1 <= n THEN n - 1 + 1 ELSE 0
          /\ \A i \in 1 .. n - 1 + 1 : payload[i] = Whole[1 + i - 1]
      <4>1. n \in Int
        BY <1>2
      <4> QED BY <3>1, <3>2, <4>1, SubSeqProperties
    <3>4. Len(payload) = n /\ \A i \in 1 .. n : payload[i] = Whole[i]
      BY <1>2, <3>3
    <3> QED BY <1>2, <3>3, <3>4
  <2>2. CASE payload = Append(Whole, Untagged)
    <3>1. Untagged \in Byte
      BY DEF Untagged, Byte
    <3> HIDE DEF Whole
    <3> QED BY <1>2, <2>2, <3>1
  <2> QED BY <1>2, <2>1, <2>2 DEF PayloadInit
<1>4. params \in [Kinds -> Seq(Values)] /\ \A t \in Kinds : params[t] = <<>>
  BY DEF PayloadInit, NoParams, Kinds
<1>5. ReadUpTo(0)
  <2>1. \A t \in Kinds : HandedOver(t, 0)
    <3> SUFFICES ASSUME NEW t \in Kinds PROVE HandedOver(t, 0)
      OBVIOUS
    <3>1. Cardinality(SentOf(t, 0)) = 0
      <4>1. 0 \in 0 .. Len(typed)
        BY <1>2
      <4> QED BY <1>1, <4>1, SentOfGrows
    <3>2. SentOf(t, 0) = {}
      BY DEF SentOf
    <3> QED BY <1>4, <3>1, <3>2 DEF HandedOver
  <2>2. at = 0 /\ valid = TRUE /\ Len(payload) \in Nat
    BY <1>3 DEF PayloadInit
  <2> QED BY <1>2, <2>1, <2>2 DEF ReadUpTo
<1>6. 0 \in 0 .. Len(typed) /\ valid \in BOOLEAN /\ overrun = FALSE
  BY <1>2 DEF PayloadInit
<1> QED BY <1>1, <1>3, <1>4, <1>5, <1>6 DEF PayloadInv

\* A parameter more is handed over.
LEMMA HandsOverNext ==
    ASSUME PayloadInv, NEW n \in 0 .. Len(typed) - 1, \A t \in Kinds : HandedOver(t, n),
           typed' = typed,
           typed[n + 1].tag = "b" => params' = params,
           typed[n + 1].tag # "b" =>
             params' = [params EXCEPT ![typed[n + 1].tag] = Append(@, typed[n + 1].value)]
    PROVE  params' \in [Kinds -> Seq(Values)] /\ \A t \in Kinds : HandedOver(t, n + 1)'
<1> DEFINE arg == typed[n + 1]
<1>1. /\ typed \in Seq(Args) /\ Len(typed) \in Nat /\ n \in 0 .. Len(typed) /\ n < Len(typed)
      /\ n + 1 \in 1 .. Len(typed) /\ params \in [Kinds -> Seq(Values)] /\ n \in Nat
  BY DEF PayloadInv
<1>2. arg.value \in Values /\ arg.tag \in Tags
  <2>1. arg \in Args
    BY <1>1, ElementOfSeq
  <2> QED BY <2>1, ArgumentsAreWellTyped DEF Values, WellTyped
<1>3. params' \in [Kinds -> Seq(Values)]
  <2>1. CASE arg.tag = "b"
    BY <1>1, <2>1
  <2>2. CASE arg.tag # "b"
    <3>1. arg.tag \in Kinds
      BY <1>2, <2>2 DEF Kinds
    <3>2. Append(params[arg.tag], arg.value) \in Seq(Values)
      BY <1>1, <1>2, <3>1
    <3> QED BY <1>1, <2>2, <3>1, <3>2
  <2> QED BY <2>1, <2>2
<1>4. ASSUME NEW t \in Kinds PROVE HandedOver(t, n + 1)'
  <2> DEFINE c(k) == Cardinality(SentOf(t, k))
  <2>1. c(n) \in Nat /\ c(n + 1) = c(n) + (IF arg.tag = t THEN 1 ELSE 0)
        /\ \A k \in SentOf(t, n) : c(k) \in 1 .. c(n)
    BY <1>1, SentOfGrows
  <2>2. /\ params[t] \in Seq(Values) /\ Len(params[t]) = c(n)
        /\ \A k \in SentOf(t, n) : params[t][c(k)] = typed[k].value
    BY <1>1 DEF HandedOver
  <2>3. \A k : SentOf(t, k)' = SentOf(t, k)
    BY DEF SentOf
  <2>4. SUFFICES /\ Len(params'[t]) = c(n + 1)
                 /\ \A k \in SentOf(t, n + 1) : params'[t][c(k)] = typed[k].value
    <3> HIDE DEF c
    <3>1. \A k : Cardinality(SentOf(t, k)') = c(k)
      BY <2>3 DEF c
    <3> QED BY <2>3, <2>4, <3>1 DEF HandedOver
  <2>5. CASE arg.tag = t
    <3>1. params'[t] = Append(params[t], arg.value)
      BY <1>1, <2>5 DEF Kinds
    <3>2. /\ Len(params'[t]) = c(n) + 1 /\ params'[t][c(n) + 1] = arg.value
          /\ \A j \in 1 .. c(n) : params'[t][j] = params[t][j]
      BY <1>2, <2>2, <3>1
    <3>3. ASSUME NEW k \in SentOf(t, n + 1) PROVE params'[t][c(k)] = typed[k].value
      <4>1. CASE k = n + 1
        <5>1. c(k) = c(n) + 1
          BY <2>1, <2>5, <4>1
        <5> QED BY <3>2, <4>1, <5>1
      <4>2. CASE k # n + 1
        <5>1. k \in SentOf(t, n)
          BY <1>1, <4>2 DEF SentOf
        <5> QED BY <2>1, <2>2, <3>2, <5>1
      <4> QED BY <4>1, <4>2
    <3> QED BY <2>1, <2>5, <3>2, <3>3
  <2>6. CASE arg.tag # t
    <3>1. params'[t] = params[t]
      <4>1. CASE arg.tag = "b"
        BY <4>1
      <4>2. CASE arg.tag # "b"
        BY <1>1, <2>6, <4>2
      <4> QED BY <4>1, <4>2
    <3>2. SentOf(t, n + 1) = SentOf(t, n)
      BY <1>1, <2>6 DEF SentOf
    <3> QED BY <2>1, <2>2, <2>6, <3>1, <3>2
  <2> QED BY <2>5, <2>6
<1> QED BY <1>3, <1>4

\* One more than the array has slots.
LEMMA OneTooMany ==
    ASSUME PayloadInv, NEW n \in 0 .. Len(typed) - 1, \A t \in Kinds : HandedOver(t, n),
           NEW u \in Kinds, typed[n + 1].tag = u, ~(Len(params[u]) < SLOTS)
    PROVE  \E t \in Kinds : Cardinality(SentOf(t, Len(typed))) > SLOTS
<1> DEFINE c(k) == Cardinality(SentOf(u, k))
<1>1. /\ typed \in Seq(Args) /\ Len(typed) \in Nat /\ n \in 0 .. Len(typed) /\ n < Len(typed)
      /\ n + 1 \in 1 .. Len(typed) /\ Len(typed) \in 0 .. Len(typed) /\ n \in Nat
  BY DEF PayloadInv
<1>2. n + 1 \in SentOf(u, Len(typed))
  BY <1>1 DEF SentOf
<1>3. c(n + 1) \in 1 .. c(Len(typed)) /\ c(Len(typed)) \in Nat
  BY <1>1, <1>2, SentOfGrows
<1>4. c(n + 1) = c(n) + 1 /\ c(n) \in Nat
  BY <1>1, SentOfGrows
<1>5. Len(params[u]) = c(n)
  BY DEF HandedOver
<1>6. c(Len(typed)) > SLOTS
  <2> HIDE DEF c
  <2> QED BY <1>3, <1>4, <1>5, PayloadAssumption
<1> QED BY <1>6

LEMMA PayloadNextInv == PayloadInv /\ [payloadProcess]_payloadVars => PayloadInv' \/ Overran'
<1> SUFFICES ASSUME PayloadInv, [payloadProcess]_payloadVars PROVE PayloadInv' \/ Overran'
  OBVIOUS
<1>1. CASE UNCHANGED payloadVars
  <2>1. /\ typed' = typed /\ payload' = payload /\ at' = at /\ valid' = valid
        /\ params' = params /\ overrun' = overrun
    BY <1>1 DEF payloadVars
  <2>2. Whole' = Whole
    BY <2>1 DEF Whole, Packet
  <2>3. PICK n \in 0 .. Len(typed) : ReadUpTo(n)
    BY DEF PayloadInv
  <2>4. \A t \in Kinds : HandedOver(t, n)'
    BY <2>1, <2>3 DEF ReadUpTo, HandedOver, SentOf
  <2>5. ReadUpTo(n)'
    BY <2>1, <2>3, <2>4 DEF ReadUpTo, Packet, Acceptable
  <2> QED BY <2>1, <2>2, <2>5 DEF PayloadInv
<1>2. CASE payloadProcess
  <2>1. typed' = typed /\ payload' = payload /\ valid /\ at < Len(payload)
    BY <1>2 DEF payloadProcess
  <2>2. PICK n \in 0 .. Len(typed) : ReadUpTo(n)
    BY DEF PayloadInv
  <2>3. typed \in Seq(Args) /\ Len(typed) \in Nat /\ payload \in Seq(Byte) /\ Len(payload) \in Nat
    BY DEF PayloadInv
  <2>4. at \in Nat /\ at = Len(Packet(typed, n))
    <3>1. Packet(typed, n) \in Seq(Byte)
      BY <2>3, PacketGrows
    <3> QED BY <2>2, <3>1 DEF ReadUpTo
  <2>5. Whole' = Whole
    BY <2>1 DEF Whole, Packet
  <2>6. ASSUME Refuses, n = Len(typed) \/ Len(payload) < Len(Packet(typed, n + 1))
                        \/ ~Acceptable(typed[n + 1])
        PROVE  PayloadInv'
    <3>1. at' = at /\ params' = params /\ valid' = FALSE /\ overrun' = overrun
      BY <2>6 DEF Refuses
    <3>2. \A t \in Kinds : HandedOver(t, n)'
      BY <2>1, <2>2, <3>1 DEF ReadUpTo, HandedOver, SentOf
    <3>3. ReadUpTo(n)'
      BY <2>1, <2>2, <2>6, <3>1, <3>2 DEF ReadUpTo, Packet, Acceptable
    <3> QED BY <2>1, <2>5, <3>1, <3>3 DEF PayloadInv
  <2>7. CASE n = Len(typed)
    <3>1. payload[at + 1] = Untagged
      <4>1. at = Len(Whole) /\ at + 1 \in 1 .. Len(payload)
        BY <2>1, <2>3, <2>4, <2>7 DEF Whole
      <4> QED BY <2>4, <4>1 DEF PayloadInv
    <3>2. \A t \in Tags : payload[at + 1] # Tag[t]
      BY <3>1, TagsDiffer
    <3>3. UnknownTag
      BY <1>2, <3>2 DEF payloadProcess, Number, Pointer, String, Block, Tags
    <3> QED BY <2>6, <2>7, <3>3 DEF UnknownTag
  <2>8. CASE n # Len(typed)
    <3> DEFINE arg == typed[n + 1]
               e == Encoded(arg)
    <3>1. n \in 0 .. Len(typed) - 1 /\ n + 1 \in 0 .. Len(typed)
      BY <2>3, <2>8
    <3>2. /\ WellTyped(arg) /\ Len(e) \in Nat /\ Len(Whole) \in Nat
          /\ at + Len(e) <= Len(Whole) /\ Len(Packet(typed, n + 1)) = at + Len(e)
          /\ \A i \in 1 .. Len(e) : Whole[at + i] = e[i]
      BY <2>3, <2>4, <3>1, ParameterInPacket DEF Whole
    <3>3. \A i \in 1 .. Len(e) : at + i <= Len(payload) => payload[at + i] = e[i]
      <4> SUFFICES ASSUME NEW i \in 1 .. Len(e), at + i <= Len(payload)
                   PROVE  payload[at + i] = e[i]
        OBVIOUS
      <4> HIDE DEF e
      <4>1. at + i \in 1 .. Len(payload) /\ at + i <= Len(Whole)
        BY <2>3, <2>4, <3>2
      <4> QED BY <3>2, <4>1 DEF PayloadInv
    <3>4. \/ /\ at + Len(e) <= Len(payload) /\ Acceptable(arg)
             /\ at' = at + Len(e) /\ valid' = valid
             /\ arg.tag = "b" => UNCHANGED <<params, overrun>>
             /\ arg.tag # "b" => Stores(arg.tag, arg.value)
          \/ /\ ~(at + Len(e) <= Len(payload) /\ Acceptable(arg))
             /\ Refuses
      BY <1>2, <2>1, <2>3, <2>4, <3>2, <3>3, ParserReadsParameter
    <3> HIDE DEF e
    <3>5. CASE ~(at + Len(e) <= Len(payload) /\ Acceptable(arg))
      <4>1. Refuses
        BY <3>4, <3>5
      <4>2. Len(payload) < Len(Packet(typed, n + 1)) \/ ~Acceptable(arg)
        BY <2>3, <2>4, <3>2, <3>5
      <4> QED BY <2>6, <4>1, <4>2
    <3>6. ASSUME at + Len(e) <= Len(payload), Acceptable(arg), overrun' = overrun,
                 arg.tag = "b" => params' = params,
                 arg.tag # "b" => params' = [params EXCEPT ![arg.tag] = Append(@, arg.value)]
          PROVE  PayloadInv'
      <4>1. at' = at + Len(e) /\ valid' = valid
        BY <3>4, <3>6
      <4>2. params' \in [Kinds -> Seq(Values)] /\ \A t \in Kinds : HandedOver(t, n + 1)'
        BY <2>1, <2>2, <3>1, <3>6, HandsOverNext DEF ReadUpTo
      <4>3. \A k \in 1 .. n + 1 : Acceptable(typed[k])'
        <5>1. \A k \in 1 .. n + 1 : k = n + 1 \/ k \in 1 .. n
          BY <3>1
        <5>2. \A k \in 1 .. n + 1 : Acceptable(typed[k])
          BY <2>2, <3>6, <5>1 DEF ReadUpTo
        <5> QED BY <2>1, <5>2 DEF Acceptable
      <4>4. Packet(typed, n + 1)' = Packet(typed, n + 1)
        BY <2>1 DEF Packet
      <4>5. ReadUpTo(n + 1)'
        BY <2>1, <3>2, <3>6, <4>1, <4>2, <4>3, <4>4 DEF ReadUpTo
      <4> QED BY <2>1, <2>5, <3>1, <3>6, <4>1, <4>2, <4>5 DEF PayloadInv
    <3>7. CASE at + Len(e) <= Len(payload) /\ Acceptable(arg) /\ arg.tag = "b"
      <4>1. params' = params /\ overrun' = overrun
        BY <3>4, <3>7
      <4> QED BY <3>6, <3>7, <4>1
    <3>8. CASE at + Len(e) <= Len(payload) /\ Acceptable(arg) /\ arg.tag # "b"
      <4>1. Stores(arg.tag, arg.value) /\ at' = at + Len(e) /\ valid' = valid
        BY <3>4, <3>8
      <4>2. CASE Len(params[arg.tag]) < SLOTS
        <5>1. params' = [params EXCEPT ![arg.tag] = Append(@, arg.value)] /\ overrun' = overrun
          BY <4>1, <4>2 DEF Stores
        <5> QED BY <3>6, <3>8, <5>1
      <4>3. CASE ~(Len(params[arg.tag]) < SLOTS)
        <5>1. overrun' = TRUE
          BY <4>1, <4>3 DEF Stores
        <5>2. arg.tag \in Kinds
          BY <3>2, <3>8 DEF WellTyped, Kinds
        <5>3. \A t \in Kinds : HandedOver(t, n)
          BY <2>2 DEF ReadUpTo
        <5>4. \E t \in Kinds : Cardinality(SentOf(t, Len(typed))) > SLOTS
          BY <3>1, <4>3, <5>2, <5>3, OneTooMany
        <5>5. (\E t \in Kinds : Cardinality(SentOf(t, Len(typed))) > SLOTS)'
          BY <2>1, <5>4 DEF SentOf
        <5>6. at' \in 0 .. Len(payload)' /\ valid' \in BOOLEAN
          BY <2>1, <2>3, <2>4, <3>2, <3>8, <4>1 DEF PayloadInv
        <5> QED BY <5>1, <5>5, <5>6 DEF Overran
      <4> QED BY <4>2, <4>3
    <3> QED BY <3>5, <3>7, <3>8
  <2> QED BY <2>7, <2>8
<1> QED BY <1>1, <1>2

LEMMA OverrunStays == Overran /\ [payloadProcess]_payloadVars => Overran'
<1> SUFFICES ASSUME Overran, [payloadProcess]_payloadVars PROVE Overran'
  OBVIOUS
<1>1. /\ typed' = typed /\ payload' = payload /\ at' = at /\ valid' = valid
      /\ overrun' = overrun
  BY DEF Overran, payloadProcess, payloadVars
<1> QED BY <1>1 DEF Overran, SentOf

LEMMA OverranMeansTyped == Overran => PayloadTypeOK /\ ParamsAreTyped
BY DEF Overran, PayloadTypeOK, ParamsAreTyped

LEMMA PayloadInvHolds == PayloadSpec => [](PayloadInv \/ Overran)
<1> DEFINE Inv == PayloadInv \/ Overran
<1>1. PayloadInit => Inv
  BY PayloadInitInv
<1>2. Inv /\ [payloadProcess]_payloadVars => Inv'
  BY PayloadNextInv, OverrunStays
<1> QED BY <1>1, <1>2, PTL DEF PayloadSpec

LEMMA PayloadInvMeansTyped == PayloadInv => PayloadTypeOK /\ ParamsAreTyped
<1> SUFFICES ASSUME PayloadInv PROVE PayloadTypeOK /\ ParamsAreTyped
  OBVIOUS
<1>1. PICK n \in 0 .. Len(typed) : ReadUpTo(n)
  BY DEF PayloadInv
<1>2. /\ typed \in Seq(Args) /\ Len(typed) \in Nat /\ payload \in Seq(Byte) /\ Len(payload) \in Nat
      /\ Len(typed) \in 0 .. Len(typed)
  BY DEF PayloadInv
<1>3. at = Len(Packet(typed, n)) /\ at \in Nat /\ at <= Len(payload)
      /\ Packet(typed, n) \in Seq(Byte)
  <2>1. Packet(typed, n) \in Seq(Byte)
    BY <1>2, PacketGrows
  <2> QED BY <1>1, <2>1 DEF ReadUpTo
<1>4. PayloadTypeOK
  BY <1>2, <1>3 DEF PayloadTypeOK, PayloadInv
<1>5. /\ overrun = FALSE
      /\ \E m \in 0 .. Len(typed) : \A t \in Kinds : HandedOver(t, m)
  BY <1>1 DEF ReadUpTo, PayloadInv
<1> DEFINE Handed(m) == /\ payload = setup_packet(SubSeq(typed, 1, m))
                        /\ \A k \in 1 .. m : Acceptable(typed[k])
                        /\ \A t \in Kinds : Len(params[t]) = Cardinality(SentOf(t, m))
<1>6. ASSUME valid, Finished PROVE \E m \in 0 .. Len(typed) : Handed(m)
  <2>1. at = Len(payload)
    BY <1>6 DEF Finished
  <2>2. /\ at <= Len(Whole) /\ Len(Whole) \in Nat
        /\ \A i \in 1 .. at : Whole[i] = Packet(typed, n)[i]
    <3>1. /\ Len(Packet(typed, n)) <= Len(Packet(typed, Len(typed)))
          /\ \A i \in 1 .. Len(Packet(typed, n)) :
               Packet(typed, Len(typed))[i] = Packet(typed, n)[i]
          /\ Len(Packet(typed, Len(typed))) \in Nat
      BY <1>2, PacketsNest
    <3> QED BY <1>3, <3>1 DEF Whole
  <2>3. ASSUME NEW i \in 1 .. Len(payload) PROVE payload[i] = Packet(typed, n)[i]
    <3>1. i \in 1 .. at /\ i <= Len(Whole)
      BY <1>3, <2>1, <2>2
    <3> QED BY <2>2, <3>1 DEF PayloadInv
  <2>4. payload = Packet(typed, n)
    BY <1>2, <1>3, <2>1, <2>3, SeqEqual
  <2>5. Handed(n)
    BY <1>1, <2>4 DEF ReadUpTo, HandedOver, Packet
  <2> QED BY <2>5
<1>7. ASSUME ~valid, NEW m \in 0 .. Len(typed), payload = Packet(typed, m),
             \A k \in 1 .. m : Acceptable(typed[k])
      PROVE  FALSE
  <2>1. /\ at < Len(payload)
        /\ \/ n = Len(typed) \/ Len(payload) < Len(Packet(typed, n + 1))
           \/ ~Acceptable(typed[n + 1])
    BY <1>1, <1>7 DEF ReadUpTo
  <2>2. n < m
    <3> SUFFICES ASSUME m <= n PROVE FALSE
      BY <1>2
    <3>1. Len(Packet(typed, m)) <= Len(Packet(typed, n))
      BY <1>2, PacketsNest
    <3> QED BY <1>2, <1>3, <1>7, <2>1, <3>1
  <2>3. n # Len(typed) /\ n + 1 \in 1 .. m /\ n + 1 \in 0 .. Len(typed) /\ n + 1 <= m
    BY <1>2, <2>2
  <2>4. Len(Packet(typed, n + 1)) <= Len(Packet(typed, m)) /\ Len(Packet(typed, n + 1)) \in Nat
    BY <1>2, <2>3, PacketsNest
  <2>5. ~(Len(payload) < Len(Packet(typed, n + 1)))
    BY <1>2, <1>7, <2>4
  <2> QED BY <1>7, <2>1, <2>3, <2>5
<1>8. ParamsAreTyped
  <2>1. ASSUME Finished PROVE valid <=> \E m \in 0 .. Len(typed) : Handed(m)
    <3>1. ASSUME NEW m \in 0 .. Len(typed), Handed(m) PROVE valid
      BY <1>7, <3>1 DEF Packet
    <3> HIDE DEF Handed
    <3> QED BY <1>6, <2>1, <3>1
  <2> QED BY <1>5, <2>1 DEF ParamsAreTyped
<1> QED BY <1>4, <1>8

\* Wherever the packet is cut, payloadProcess never reads past its end.
THEOREM PayloadTypeCorrect == PayloadSpec => []PayloadTypeOK
<1>1. PayloadInv \/ Overran => PayloadTypeOK
  BY PayloadInvMeansTyped, OverranMeansTyped
<1> QED BY <1>1, PayloadInvHolds, PTL

\* What the console reads as numbers, texts and addresses is, in order and value by value,
\* what the client packed, for parameters of any types and contents, in any number up to
\* the slots there are for a type, and a packet cut at any byte; no packet with so many
\* is written past the end of an array.
THEOREM ParamsAreTypedCorrect == PayloadSpec => []ParamsAreTyped
<1>1. PayloadInv \/ Overran => ParamsAreTyped
  BY PayloadInvMeansTyped, OverranMeansTyped
<1> QED BY <1>1, PayloadInvHolds, PTL
-----------------------------------------------------------------------------
(* The table of effects.                                                   *)

Rows == [entry : Effs \cup {Null}, mainFunc : MainFuncs \cup {Null},
         userWork : Works \cup {Null}]
Tables == [rows : Seq(Rows), i : Nat, pending : Seq(Works \cup {Null})]
EffRecords == [mainFunc : MainFuncs \cup {Null}, userWork : Works \cup {Null}]

\* The row i of a table is overwritten by its last one, which is cut off.
LEMMA SwapRemoveFacts ==
    ASSUME NEW S, NEW s \in Seq(S), NEW i \in 1 .. Len(s)
    PROVE  /\ SwapRemove(s, i) \in Seq(S) /\ Len(SwapRemove(s, i)) = Len(s) - 1
           /\ \A j \in 1 .. Len(s) - 1 :
                SwapRemove(s, i)[j] = IF j = i THEN s[Len(s)] ELSE s[j]
<1> DEFINE t == [s EXCEPT ![i] = s[Len(s)]]
<1>1. Len(s) \in Nat /\ s[Len(s)] \in S
  OBVIOUS
<1>2. t \in Seq(S) /\ Len(t) = Len(s)
      /\ \A j \in 1 .. Len(s) : t[j] = IF j = i THEN s[Len(s)] ELSE s[j]
  BY <1>1, ExceptSeq
<1>3. SwapRemove(s, i) = SubSeq(t, 1, Len(t) - 1)
  BY DEF SwapRemove, Front, Last
<1> HIDE DEF t
<1>4. \A j \in 1 .. Len(t) - 1 : t[j] \in S
  BY <1>1, <1>2
<1>5. /\ SubSeq(t, 1, Len(t) - 1) \in Seq(S)
      /\ Len(SubSeq(t, 1, Len(t) - 1)) = IF 1 <= Len(t) - 1 THEN Len(t) - 1 - 1 + 1 ELSE 0
      /\ \A j \in 1 .. Len(t) - 1 - 1 + 1 : SubSeq(t, 1, Len(t) - 1)[j] = t[1 + j - 1]
  BY <1>1, <1>2, <1>4, SubSeqProperties
<1> QED BY <1>1, <1>2, <1>3, <1>5

\* Taken off at no row of the table it still leaves a table.
LEMMA SwapRemoveType ==
    ASSUME NEW S, NEW s \in Seq(S), NEW i \in Nat
    PROVE  SwapRemove(s, i) \in Seq(S)
<1>1. CASE i \in 1 .. Len(s)
  BY <1>1, SwapRemoveFacts
<1>2. CASE i \notin 1 .. Len(s)
  <2>1. [s EXCEPT ![i] = Last(s)] = s
    BY <1>2
  <2>2. SwapRemove(s, i) = SubSeq(s, 1, Len(s) - 1)
    BY <2>1 DEF SwapRemove, Front
  <2>3. \A j \in 1 .. Len(s) - 1 : s[j] \in S
    OBVIOUS
  <2> QED BY <2>2, <2>3, SubSeqProperties
<1> QED BY <1>1, <1>2

\* A round of the walk leaves the tables well formed, whatever it was given.
LEMMA VisitType ==
    ASSUME effs \in [Effs -> EffRecords], NEW w \in Tables
    PROVE  Visit(w) \in Tables
<1> DEFINE row == w.rows[w.i]
           work == effs[row.entry].userWork
           found == {j \in 1 .. Len(w.pending) : w.pending[j] = work}
<1>1. w.rows \in Seq(Rows) /\ w.i \in Nat /\ w.pending \in Seq(Works \cup {Null})
  BY DEF Tables
<1>2. CASE Unchanged(row)
  BY <1>1, <1>2 DEF Visit, Tables
<1>3. CASE ~Unchanged(row) /\ Outdated(row)
  <2>1. Visit(w) = [w EXCEPT !.rows = SwapRemove(@, w.i)]
    BY <1>3 DEF Visit
  <2>2. SwapRemove(w.rows, w.i) \in Seq(Rows)
    BY <1>1, SwapRemoveType
  <2> QED BY <1>1, <2>1, <2>2 DEF Tables
<1>4. CASE ~Unchanged(row) /\ ~Outdated(row)
  <2> DEFINE rows2 == [w.rows EXCEPT ![w.i].userWork = work]
             pending2 == IF found = {} THEN w.pending
                 ELSE SwapRemove(w.pending, CHOOSE j \in found : \A k \in found : j <= k)
  <2>1. Visit(w) = [rows |-> rows2, i |-> w.i + 1, pending |-> pending2]
    BY <1>4 DEF Visit
  <2>2. rows2 \in Seq(Rows)
    <3>1. CASE w.i \in 1 .. Len(w.rows)
      <4>1. row \in Rows /\ row.entry \in Effs
        <5>1. row \in Rows
          BY <1>1, <3>1, ElementOfSeq
        <5>2. row.entry # Null
          BY <1>4 DEF Unchanged
        <5> QED BY <5>1, <5>2 DEF Rows
      <4>2. work \in Works \cup {Null}
        BY <4>1 DEF EffRecords
      <4>3. [row EXCEPT !.userWork = work] \in Rows
        BY <4>1, <4>2 DEF Rows
      <4>4. rows2 = [w.rows EXCEPT ![w.i] = [row EXCEPT !.userWork = work]]
        OBVIOUS
      <4> HIDE DEF rows2, work
      <4> QED BY <1>1, <3>1, <4>3, <4>4, ExceptSeq
    <3>2. CASE w.i \notin 1 .. Len(w.rows)
      <4>1. rows2 = w.rows
        BY <1>1, <3>2
      <4> QED BY <1>1, <4>1
    <3> QED BY <3>1, <3>2
  <2>3. pending2 \in Seq(Works \cup {Null})
    <3>1. CASE found = {}
      BY <1>1, <3>1
    <3>2. CASE found # {}
      <4>1. \E j \in found : \A k \in found : j <= k
        <5>1. found \in SUBSET Nat
          OBVIOUS
        <5> HIDE DEF found
        <5> QED BY <3>2, <5>1, SmallestIn
      <4>2. (CHOOSE j \in found : \A k \in found : j <= k) \in Nat
        BY <4>1
      <4> HIDE DEF found
      <4> QED BY <1>1, <3>2, <4>2, SwapRemoveType
    <3> QED BY <3>1, <3>2
  <2> HIDE DEF rows2, pending2
  <2> QED BY <1>1, <2>1, <2>2, <2>3 DEF Tables
<1> QED BY <1>2, <1>3, <1>4

\* The table as effDebug finds it.
Start == [rows |-> tracked, i |-> 1, pending |-> pendingAllocs]

\* The recursive definition of the walk has the values it says.
LEMMA WalkValues ==
    ASSUME effs \in [Effs -> EffRecords], Start \in Tables
    PROVE  /\ Walk \in [Nat -> Tables] /\ Walk[0] = Start
           /\ \A n \in Nat : Walk[n + 1] = Visit(Walk[n])
<1> DEFINE F == [n \in Nat |-> [w \in Tables |-> Visit(w)]]
           Def(f) == [n \in Nat |-> IF n = 0 THEN Start ELSE Visit(f[n - 1])]
<1>1. F \in [Nat -> [Tables -> Tables]]
  BY VisitType
<1>2. \A n \in Nat, w \in Tables : F[n][w] = Visit(w)
  OBVIOUS
<1> HIDE DEF F
<1>3. PICK f : Recurs(f, Tables, Start, F)
  BY <1>1, FunctionByRecursion
<1>4. f \in [Nat -> Tables] /\ f[0] = Start /\ \A n \in Nat : f[n + 1] = Visit(f[n])
  BY <1>2, <1>3 DEF Recurs
<1>5. f = Def(f)
  <2>1. \A n \in Nat : f[n] = IF n = 0 THEN Start ELSE Visit(f[n - 1])
    <3> SUFFICES ASSUME NEW n \in Nat, n # 0 PROVE f[n] = Visit(f[n - 1])
      BY <1>4
    <3>1. n - 1 \in Nat /\ (n - 1) + 1 = n
      OBVIOUS
    <3> QED BY <1>4, <3>1
  <2> HIDE DEF Start
  <2> QED BY <1>4, <2>1
<1>6. Walk = CHOOSE g : g = Def(g)
  BY DEF Walk, Start
<1>7. Walk = Def(Walk)
  <2> HIDE DEF Def
  <2> QED BY <1>5, <1>6
<1> DEFINE Typed == {n \in Nat : Walk[n] \in Tables}
<1>8. \A n \in Nat : Walk[n] = IF n = 0 THEN Start ELSE Visit(Walk[n - 1])
  <2> HIDE DEF Walk
  <2> QED BY <1>7
<1> HIDE DEF Def
<1>9. Walk[0] = Start /\ \A n \in Nat : Walk[n + 1] = Visit(Walk[n])
  <2> SUFFICES ASSUME NEW n \in Nat PROVE Walk[n + 1] = Visit(Walk[n])
    BY <1>8
  <2>1. n + 1 \in Nat /\ n + 1 # 0 /\ (n + 1) - 1 = n
    OBVIOUS
  <2> QED BY <1>8, <2>1
<1>10. Typed = Nat
  <2>1. 0 \in Typed
    BY <1>9
  <2>2. ASSUME NEW n \in Typed PROVE n + 1 \in Typed
    BY <1>9, <2>2, VisitType
  <2>3. Typed \in SUBSET Nat
    OBVIOUS
  <2> HIDE DEF Typed
  <2> QED BY <2>1, <2>2, <2>3, SetInduction
<1>11. Walk \in [Nat -> Tables]
  <2>1. Walk = [n \in Nat |-> Walk[n]]
    BY <1>7 DEF Def
  <2>2. \A n \in Nat : Walk[n] \in Tables
    BY <1>10
  <2> HIDE DEF Walk
  <2> QED BY <2>1, <2>2
<1> QED BY <1>9, <1>11

\* The rows below i that are in Done, with the rows from i on that are in Todo.
Indices(s, i, Done, Todo) ==
    {j \in 1 .. Len(s) : IF j < i THEN s[j] \in Done ELSE s[j] \in Todo}
Count(s, i, Done, Todo) == Cardinality(Indices(s, i, Done, Todo))
One(v, S) == IF v \in S THEN 1 ELSE 0

LEMMA CountIsNumber ==
    ASSUME NEW S, NEW s \in Seq(S), NEW i \in Nat, NEW Done, NEW Todo
    PROVE  /\ IsFiniteSet(Indices(s, i, Done, Todo))
           /\ Count(s, i, Done, Todo) \in Nat
<1>1. IsFiniteSet(1 .. Len(s))
  BY FS_Interval
<1>2. Indices(s, i, Done, Todo) \in SUBSET (1 .. Len(s))
  BY DEF Indices
<1>3. IsFiniteSet(Indices(s, i, Done, Todo))
  BY <1>1, <1>2, FS_Subset
<1> QED BY <1>3, FS_CardinalityType DEF Count

\* A round that moves on takes its row from those to do to those done.
LEMMA CountAdvances ==
    ASSUME NEW S, NEW s \in Seq(S), NEW i \in 1 .. Len(s), NEW new \in S,
           NEW Done, NEW Todo
    PROVE  Count([s EXCEPT ![i] = new], i + 1, Done, Todo)
             = Count(s, i, Done, Todo) + One(new, Done) - One(s[i], Todo)
<1> DEFINE t == [s EXCEPT ![i] = new]
           A == Indices(s, i, Done, Todo)
           B == Indices(t, i + 1, Done, Todo)
<1>1. t \in Seq(S) /\ Len(t) = Len(s) /\ Len(s) \in Nat
      /\ \A j \in 1 .. Len(s) : t[j] = IF j = i THEN new ELSE s[j]
  BY ExceptSeq, LenProperties
<1> HIDE DEF t
<1>2. A \ {i} = B \ {i}
  <2>1. \A j \in 1 .. Len(s) : j # i => (j \in A <=> j \in B)
    BY <1>1 DEF Indices
  <2>2. A \subseteq 1 .. Len(s) /\ B \subseteq 1 .. Len(s)
    BY <1>1 DEF Indices
  <2> HIDE DEF A, B
  <2> QED BY <2>1, <2>2
<1>3. (i \in A <=> s[i] \in Todo) /\ (i \in B <=> new \in Done)
  BY <1>1 DEF Indices
<1>4. IsFiniteSet(A) /\ IsFiniteSet(B) /\ Cardinality(A) \in Nat /\ Cardinality(B) \in Nat
  <2>1. i \in Nat /\ i + 1 \in Nat
    OBVIOUS
  <2> QED BY <1>1, <2>1, CountIsNumber DEF Count
<1> HIDE DEF A, B
<1>5. /\ Cardinality(A \ {i}) = IF i \in A THEN Cardinality(A) - 1 ELSE Cardinality(A)
      /\ Cardinality(B \ {i}) = IF i \in B THEN Cardinality(B) - 1 ELSE Cardinality(B)
  BY <1>4, FS_RemoveElement
<1>6. Cardinality(B) = Cardinality(A) + One(new, Done) - One(s[i], Todo)
  <2>1. Cardinality(A \ {i}) = Cardinality(A) - One(s[i], Todo)
    BY <1>3, <1>4, <1>5 DEF One
  <2>2. Cardinality(B \ {i}) = Cardinality(B) - One(new, Done)
    BY <1>3, <1>4, <1>5 DEF One
  <2>3. One(s[i], Todo) \in Int /\ One(new, Done) \in Int
    BY DEF One
  <2>4. Cardinality(A \ {i}) = Cardinality(B \ {i})
    BY <1>2
  <2> QED BY <1>4, <2>1, <2>2, <2>3, <2>4
<1> QED BY <1>6 DEF t, A, B, Count

\* A row that is taken away is counted no more, and the one moved into its place is.
LEMMA CountDrops ==
    ASSUME NEW S, NEW s \in Seq(S), NEW i \in 1 .. Len(s), NEW Done, NEW Todo
    PROVE  Count(SwapRemove(s, i), i, Done, Todo)
             = Count(s, i, Done, Todo) - One(s[i], Todo)
<1> DEFINE t == SwapRemove(s, i)
           n == Len(s)
           A == Indices(s, i, Done, Todo)
           B == Indices(t, i, Done, Todo)
<1>1. /\ n \in Nat /\ n >= 1 /\ t \in Seq(S) /\ Len(t) = n - 1
      /\ \A j \in 1 .. n - 1 : t[j] = IF j = i THEN s[n] ELSE s[j]
  BY SwapRemoveFacts
<1> HIDE DEF t
<1>2. B \ {i} = A \ {i, n}
  <2>1. \A j \in 1 .. n - 1 : j # i => (j \in A <=> j \in B)
    BY <1>1 DEF Indices
  <2>2. A \subseteq 1 .. n /\ B \subseteq 1 .. n - 1
    BY <1>1 DEF Indices
  <2>3. \A j \in 1 .. n : j # n => j \in 1 .. n - 1
    BY <1>1
  <2> HIDE DEF A, B, n
  <2>4. ASSUME NEW j \in B \ {i} PROVE j \in A \ {i, n}
    BY <1>1, <2>1, <2>2
  <2>5. ASSUME NEW j \in A \ {i, n} PROVE j \in B \ {i}
    BY <2>1, <2>2, <2>3
  <2> QED BY <2>4, <2>5
<1>3. (i \in A <=> s[i] \in Todo) /\ (i \in B <=> i # n /\ n \in A)
  <2>1. i \in A <=> s[i] \in Todo
    BY DEF Indices
  <2>2. n \in A <=> s[n] \in Todo
    BY <1>1 DEF Indices
  <2>3. i \in B <=> i # n /\ s[n] \in Todo
    BY <1>1 DEF Indices
  <2> QED BY <2>1, <2>2, <2>3
<1>4. IsFiniteSet(A) /\ IsFiniteSet(B) /\ Cardinality(A) \in Nat /\ Cardinality(B) \in Nat
  <2>1. i \in Nat
    OBVIOUS
  <2> QED BY <1>1, <2>1, CountIsNumber DEF Count
<1> HIDE DEF A, B, n
<1>5. /\ IsFiniteSet(A \ {i})
      /\ Cardinality(A \ {i}) = IF i \in A THEN Cardinality(A) - 1 ELSE Cardinality(A)
      /\ Cardinality(B \ {i}) = IF i \in B THEN Cardinality(B) - 1 ELSE Cardinality(B)
  BY <1>4, FS_RemoveElement
<1>6. Cardinality((A \ {i}) \ {n})
        = IF n \in A \ {i} THEN Cardinality(A \ {i}) - 1 ELSE Cardinality(A \ {i})
  BY <1>5, FS_RemoveElement
<1>7. (A \ {i}) \ {n} = A \ {i, n} /\ (n \in A \ {i} <=> i # n /\ n \in A)
  OBVIOUS
<1>8. Cardinality(B) = Cardinality(A) - One(s[i], Todo)
  <2>1. Cardinality(A \ {i}) = Cardinality(A) - One(s[i], Todo)
    BY <1>3, <1>4, <1>5 DEF One
  <2>2. CASE i \in B
    <3>1. Cardinality(B) - 1 = Cardinality(A \ {i}) - 1
      BY <1>2, <1>3, <1>5, <1>6, <1>7, <2>2
    <3> QED BY <1>4, <2>1, <3>1 DEF One
  <2>3. CASE i \notin B
    <3>1. Cardinality(B) = Cardinality(A \ {i})
      BY <1>2, <1>3, <1>5, <1>6, <1>7, <2>3
    <3> QED BY <2>1, <3>1
  <2> QED BY <2>2, <2>3
<1> QED BY <1>8 DEF A, B, t, Count

Keep == {row \in Rows : ~Outdated(row)}
KeptAs(v) == {row \in Keep : Refreshed(row) = v}
BoundFor(work) == {row \in Keep : ~Unchanged(row) /\ effs[row.entry].userWork = work}

\* What a round does to a table it has not finished.
LEMMA VisitCases ==
    ASSUME effs \in [Effs -> EffRecords], NEW w \in Tables, w.i \in 1 .. Len(w.rows)
    PROVE  LET row == w.rows[w.i]
               work == effs[row.entry].userWork
               found == {j \in 1 .. Len(w.pending) : w.pending[j] = work}
           IN /\ row \in Rows
              /\ row \notin Keep => /\ Visit(w).rows = SwapRemove(w.rows, w.i)
                                    /\ Visit(w).i = w.i /\ Visit(w).pending = w.pending
              /\ row \in Keep => /\ Refreshed(row) \in Rows
                                 /\ Visit(w).rows = [w.rows EXCEPT ![w.i] = Refreshed(row)]
                                 /\ Visit(w).i = w.i + 1
              /\ row \in Keep /\ Unchanged(row) => Visit(w).pending = w.pending
              /\ row \in Keep /\ ~Unchanged(row) =>
                   /\ work \in Works \cup {Null}
                   /\ found = {} => Visit(w).pending = w.pending
                   /\ found # {} => \E j \in found : Visit(w).pending = SwapRemove(w.pending, j)
<1> DEFINE row == w.rows[w.i]
           work == effs[row.entry].userWork
           found == {j \in 1 .. Len(w.pending) : w.pending[j] = work}
           first == CHOOSE j \in found : \A k \in found : j <= k
<1>1. w.rows \in Seq(Rows) /\ w.i \in Nat /\ w.pending \in Seq(Works \cup {Null})
  BY DEF Tables
<1>2. row \in Rows
  BY <1>1, ElementOfSeq
<1>3. CASE row \notin Keep
  <2>1. ~Unchanged(row) /\ Outdated(row)
    BY <1>2, <1>3 DEF Keep, Outdated
  <2>2. Visit(w) = [w EXCEPT !.rows = SwapRemove(@, w.i)]
    BY <2>1 DEF Visit
  <2> QED BY <1>2, <1>3, <2>2 DEF Tables
<1>4. CASE row \in Keep /\ Unchanged(row)
  <2>1. Visit(w) = [w EXCEPT !.i = @ + 1] /\ Refreshed(row) = row
    BY <1>4 DEF Visit, Refreshed
  <2>2. [w.rows EXCEPT ![w.i] = row] = w.rows
    BY <1>1
  <2> QED BY <1>2, <1>4, <2>1, <2>2 DEF Tables
<1>5. CASE row \in Keep /\ ~Unchanged(row)
  <2>1. ~Outdated(row)
    BY <1>5 DEF Keep
  <2>2. Visit(w) = [rows |-> [w.rows EXCEPT ![w.i].userWork = work], i |-> w.i + 1,
                    pending |-> IF found = {} THEN w.pending ELSE SwapRemove(w.pending, first)]
    BY <1>5, <2>1 DEF Visit
  <2>3. row.entry \in Effs /\ work # Null
    BY <1>2, <1>5 DEF Unchanged, Rows
  <2>4. work \in Works \cup {Null}
    BY <2>3 DEF EffRecords
  <2>5. Refreshed(row) = [row EXCEPT !.userWork = work]
    BY <1>5 DEF Refreshed
  <2>6. Refreshed(row) \in Rows
    BY <1>2, <2>4, <2>5 DEF Rows
  <2>7. [w.rows EXCEPT ![w.i].userWork = work] = [w.rows EXCEPT ![w.i] = Refreshed(row)]
    BY <2>5
  <2>8. ASSUME found # {} PROVE first \in found
    <3>1. found \in SUBSET Nat
      OBVIOUS
    <3> HIDE DEF found
    <3>2. \E j \in found : \A k \in found : j <= k
      BY <2>8, <3>1, SmallestIn
    <3> QED BY <3>2
  <2>9. /\ Visit(w).rows = [w.rows EXCEPT ![w.i] = Refreshed(row)]
        /\ Visit(w).i = w.i + 1
    BY <2>2, <2>7
  <2>10. found = {} => Visit(w).pending = w.pending
    BY <2>2
  <2>11. found # {} => \E j \in found : Visit(w).pending = SwapRemove(w.pending, j)
    <3> HIDE DEF first, found
    <3> QED BY <2>2, <2>8
  <2> QED BY <1>2, <1>5, <2>4, <2>6, <2>9, <2>10, <2>11
<1> QED BY <1>3, <1>4, <1>5

\* One allocation of the address less, when one of that address is taken away.
LEMMA TimesDrops ==
    ASSUME NEW S, NEW s \in Seq(S), NEW i \in 1 .. Len(s), NEW v
    PROVE  Times(v, SwapRemove(s, i)) = Times(v, s) - One(s[i], {v})
<1>1. \A t : Times(v, t) = Count(t, i, {v}, {v})
  BY DEF Times, Count, Indices
<1>2. Count(SwapRemove(s, i), i, {v}, {v}) = Count(s, i, {v}, {v}) - One(s[i], {v})
  BY CountDrops
<1> QED BY <1>1, <1>2

LEMMA TimesIsNumber ==
    ASSUME NEW S, NEW s \in Seq(S), NEW v
    PROVE  /\ Times(v, s) \in Nat
           /\ Times(v, s) = 0 <=> {j \in 1 .. Len(s) : s[j] = v} = {}
<1> DEFINE T == {j \in 1 .. Len(s) : s[j] = v}
<1>1. IsFiniteSet(1 .. Len(s)) /\ T \in SUBSET (1 .. Len(s))
  BY FS_Interval
<1>2. IsFiniteSet(T)
  BY <1>1, FS_Subset
<1> HIDE DEF T
<1>3. Cardinality(T) \in Nat /\ (Cardinality(T) = 0 <=> T = {})
  BY <1>2, FS_CardinalityType, FS_EmptySet
<1> QED BY <1>3 DEF T, Times

\* The loop invariant of the walk after n rounds: as many rows are left to visit as
\* rounds, the rows that stay are those it began with, and each allocation taken was
\* taken by a row that has been visited.
RowsInv(w) ==
    /\ Count(w.rows, w.i, Rows, Keep) = Count(tracked, 1, Rows, Keep)
    /\ \A v \in Rows : Count(w.rows, w.i, {v}, KeptAs(v)) = Count(tracked, 1, {v}, KeptAs(v))
PendingInv(w) == \A work \in Works \cup {Null} :
    Times(work, w.pending)
      = Atleast0(Times(work, pendingAllocs) - (Count(tracked, 1, {}, BoundFor(work))
                                                - Count(w.rows, w.i, {}, BoundFor(work))))
LoopInv(w, n) ==
    /\ w.i \in 1 .. Len(w.rows) + 1
    /\ Len(w.rows) - w.i + 1 = Len(tracked) - n
    /\ Len(w.rows) <= Len(tracked) /\ Len(w.pending) <= Len(pendingAllocs)
    /\ RowsInv(w) /\ PendingInv(w)

\* How a round changes what is counted.
LEMMA VisitCounts ==
    ASSUME effs \in [Effs -> EffRecords], NEW w \in Tables, w.i \in 1 .. Len(w.rows),
           NEW Done, NEW Todo
    PROVE  LET row == w.rows[w.i]
               before == Count(w.rows, w.i, Done, Todo)
               after == Count(Visit(w).rows, Visit(w).i, Done, Todo)
           IN /\ before \in Nat /\ after \in Nat
              /\ row \notin Keep => after = before - One(row, Todo)
              /\ row \in Keep => after = before + One(Refreshed(row), Done) - One(row, Todo)
<1> DEFINE row == w.rows[w.i]
           u == Visit(w)
<1>1. w.rows \in Seq(Rows) /\ row \in Rows /\ w.i \in Nat
  BY VisitCases DEF Tables
<1>2. CASE row \notin Keep
  <2>1. u.rows = SwapRemove(w.rows, w.i) /\ u.i = w.i
    BY <1>2, VisitCases
  <2>2. Count(u.rows, u.i, Done, Todo) = Count(w.rows, w.i, Done, Todo) - One(row, Todo)
    BY <1>1, <2>1, CountDrops
  <2>3. u.rows \in Seq(Rows)
    BY <2>1, <1>1, SwapRemoveFacts
  <2> QED BY <1>1, <1>2, <2>1, <2>2, <2>3, CountIsNumber
<1>3. CASE row \in Keep
  <2> DEFINE new == Refreshed(row)
  <2>1. u.rows = [w.rows EXCEPT ![w.i] = new] /\ u.i = w.i + 1 /\ new \in Rows
    BY <1>3, VisitCases
  <2>2. u.rows \in Seq(Rows) /\ u.i \in Nat
    BY <1>1, <2>1, ExceptSeq
  <2> HIDE DEF u, new
  <2>3. Count([w.rows EXCEPT ![w.i] = new], w.i + 1, Done, Todo)
          = Count(w.rows, w.i, Done, Todo) + One(new, Done) - One(row, Todo)
    BY <1>1, <2>1, CountAdvances
  <2>4. Count(u.rows, u.i, Done, Todo)
          = Count(w.rows, w.i, Done, Todo) + One(new, Done) - One(row, Todo)
    BY <2>1, <2>3
  <2>5. Count(w.rows, w.i, Done, Todo) \in Nat /\ Count(u.rows, u.i, Done, Todo) \in Nat
    BY <1>1, <2>2, CountIsNumber
  <2> QED BY <1>3, <2>4, <2>5 DEF u, new
<1> QED BY <1>2, <1>3

LEMMA VisitKeepsRows ==
    ASSUME effs \in [Effs -> EffRecords], NEW w \in Tables, w.i \in 1 .. Len(w.rows),
           tracked \in Seq(Rows), RowsInv(w)
    PROVE  RowsInv(Visit(w))
<1> DEFINE row == w.rows[w.i]
           u == Visit(w)
<1>1. w.rows \in Seq(Rows) /\ row \in Rows
  BY VisitCases DEF Tables
<1> DEFINE before(Done, Todo) == Count(w.rows, w.i, Done, Todo)
           after(Done, Todo) == Count(u.rows, u.i, Done, Todo)
           new == Refreshed(row)
<1>2. CASE row \notin Keep
  <2>1. \A Done, Todo : /\ before(Done, Todo) \in Nat
                        /\ after(Done, Todo) = before(Done, Todo) - One(row, Todo)
    BY <1>2, VisitCounts
  <2>2. One(row, Keep) = 0 /\ \A v : One(row, KeptAs(v)) = 0
    BY <1>2 DEF One, KeptAs
  <2> HIDE DEF before, after
  <2>3. /\ after(Rows, Keep) = before(Rows, Keep)
        /\ \A v : after({v}, KeptAs(v)) = before({v}, KeptAs(v))
    BY <2>1, <2>2
  <2> QED BY <2>3 DEF RowsInv, before, after
<1>3. CASE row \in Keep
  <2>1. \A Done, Todo : /\ before(Done, Todo) \in Nat
                        /\ after(Done, Todo)
                             = before(Done, Todo) + One(new, Done) - One(row, Todo)
    BY <1>3, VisitCounts
  <2>2. new \in Rows
    BY <1>3, VisitCases
  <2>3. One(new, Rows) = One(row, Keep) /\ \A v : One(new, {v}) = One(row, KeptAs(v))
    BY <1>3, <2>2 DEF One, KeptAs
  <2>4. \A v, T : One(v, T) \in Nat
    BY DEF One
  <2> HIDE DEF before, after, new
  <2>5. /\ after(Rows, Keep) = before(Rows, Keep)
        /\ \A v : after({v}, KeptAs(v)) = before({v}, KeptAs(v))
    BY <2>1, <2>3, <2>4
  <2> QED BY <2>5 DEF RowsInv, before, after
<1> QED BY <1>2, <1>3

LEMMA VisitKeepsPending ==
    ASSUME effs \in [Effs -> EffRecords], NEW w \in Tables, w.i \in 1 .. Len(w.rows),
           tracked \in Seq(Rows), pendingAllocs \in Seq(Works \cup {Null}), PendingInv(w)
    PROVE  PendingInv(Visit(w))
<1> DEFINE row == w.rows[w.i]
           u == Visit(w)
           c(work) == Count(w.rows, w.i, {}, BoundFor(work))
           d(work) == Count(u.rows, u.i, {}, BoundFor(work))
           all(work) == Count(tracked, 1, {}, BoundFor(work))
<1>1. w.rows \in Seq(Rows) /\ row \in Rows /\ w.pending \in Seq(Works \cup {Null}) /\ w.i \in Nat
  BY VisitCases DEF Tables
<1>2. u \in Tables
  BY VisitType
<1>3. u.rows \in Seq(Rows) /\ u.pending \in Seq(Works \cup {Null}) /\ u.i \in Nat
  BY <1>2 DEF Tables
<1>4. \A work : c(work) \in Nat /\ d(work) \in Nat /\ all(work) \in Nat
  <2>1. \A work : c(work) \in Nat
    BY <1>1, CountIsNumber
  <2>2. \A work : d(work) \in Nat
    BY <1>3, CountIsNumber
  <2>3. \A work : all(work) \in Nat
    BY CountIsNumber
  <2> QED BY <2>1, <2>2, <2>3
<1>5. \A work : d(work) = c(work) - One(row, BoundFor(work))
  <2> SUFFICES ASSUME NEW work PROVE d(work) = c(work) - One(row, BoundFor(work))
    OBVIOUS
  <2>1. CASE row \notin Keep
    BY <2>1, VisitCounts
  <2>2. CASE row \in Keep
    <3>1. d(work) = c(work) + One(Refreshed(row), {}) - One(row, BoundFor(work))
      BY <2>2, VisitCounts
    <3>2. One(Refreshed(row), {}) = 0 /\ One(row, BoundFor(work)) \in Int
      BY DEF One
    <3> HIDE DEF c, d
    <3> QED BY <1>4, <3>1, <3>2
  <2> QED BY <2>1, <2>2
<1>6. \A work \in Works \cup {Null} :
         Times(work, w.pending) \in Nat /\ Times(work, pendingAllocs) \in Nat
  BY <1>1, TimesIsNumber
<1> SUFFICES ASSUME NEW work \in Works \cup {Null}
             PROVE  Times(work, u.pending)
                      = Atleast0(Times(work, pendingAllocs) - (all(work) - d(work)))
  BY DEF PendingInv
<1>7. Times(work, w.pending) = Atleast0(Times(work, pendingAllocs) - (all(work) - c(work)))
  BY DEF PendingInv
<1>8. CASE row \notin BoundFor(work)
  <2>1. d(work) = c(work)
    <3>1. One(row, BoundFor(work)) = 0
      BY <1>8 DEF One
    <3> HIDE DEF c, d
    <3> QED BY <1>4, <1>5, <3>1
  <2>2. Times(work, u.pending) = Times(work, w.pending)
    <3>1. CASE row \notin Keep \/ Unchanged(row)
      <4>1. u.pending = w.pending
        BY <3>1, VisitCases
      <4> QED BY <4>1
    <3>2. CASE row \in Keep /\ ~Unchanged(row)
      <4> DEFINE own == effs[row.entry].userWork
                 found == {j \in 1 .. Len(w.pending) : w.pending[j] = own}
      <4>1. own # work
        BY <1>8, <3>2 DEF BoundFor
      <4>2. CASE found = {}
        <5>1. u.pending = w.pending
          BY <3>2, <4>2, VisitCases
        <5> QED BY <5>1
      <4>3. CASE found # {}
        <5>1. PICK j \in found : u.pending = SwapRemove(w.pending, j)
          BY <3>2, <4>3, VisitCases
        <5>2. Times(work, u.pending) = Times(work, w.pending) - One(w.pending[j], {work})
          <6>1. j \in 1 .. Len(w.pending)
            OBVIOUS
          <6> HIDE DEF found, u
          <6> QED BY <1>1, <5>1, <6>1, TimesDrops
        <5>3. One(w.pending[j], {work}) = 0
          BY <4>1 DEF One
        <5> QED BY <1>6, <5>2, <5>3
      <4> QED BY <4>2, <4>3
    <3> QED BY <3>1, <3>2
  <2> HIDE DEF c, d, u, all
  <2> QED BY <1>7, <2>1, <2>2
<1>9. CASE row \in BoundFor(work)
  <2> DEFINE found == {j \in 1 .. Len(w.pending) : w.pending[j] = work}
  <2>1. row \in Keep /\ ~Unchanged(row) /\ effs[row.entry].userWork = work
    BY <1>9 DEF BoundFor
  <2>2. d(work) = c(work) - 1
    <3>1. One(row, BoundFor(work)) = 1
      BY <1>9 DEF One
    <3> HIDE DEF c, d
    <3> QED BY <1>5, <3>1
  <2>3. CASE found = {}
    <3>1. u.pending = w.pending
      BY <2>1, <2>3, VisitCases
    <3>2. Times(work, w.pending) = 0
      BY <1>1, <2>3, TimesIsNumber
    <3> HIDE DEF c, d, u, all
    <3> QED BY <1>4, <1>6, <1>7, <2>2, <3>1, <3>2 DEF Atleast0
  <2>4. CASE found # {}
    <3>1. PICK j \in found : u.pending = SwapRemove(w.pending, j)
      BY <2>1, <2>4, VisitCases
    <3>2. Times(work, u.pending) = Times(work, w.pending) - One(w.pending[j], {work})
      <4>1. j \in 1 .. Len(w.pending)
        OBVIOUS
      <4> HIDE DEF found, u
      <4> QED BY <1>1, <3>1, <4>1, TimesDrops
    <3>3. One(w.pending[j], {work}) = 1
      BY DEF One
    <3>4. Times(work, w.pending) # 0
      BY <1>1, <2>4, TimesIsNumber
    <3> HIDE DEF c, d, u, all
    <3> QED BY <1>4, <1>6, <1>7, <2>2, <3>2, <3>3, <3>4 DEF Atleast0
  <2> QED BY <2>3, <2>4
<1> QED BY <1>8, <1>9

LEMMA VisitKeepsLoopInv ==
    ASSUME effs \in [Effs -> EffRecords], NEW w \in Tables, NEW n \in 0 .. Len(tracked) - 1,
           tracked \in Seq(Rows), pendingAllocs \in Seq(Works \cup {Null}), LoopInv(w, n)
    PROVE  LoopInv(Visit(w), n + 1)
<1> DEFINE row == w.rows[w.i]
           u == Visit(w)
           own == effs[row.entry].userWork
           found == {j \in 1 .. Len(w.pending) : w.pending[j] = own}
<1>1. w.rows \in Seq(Rows) /\ w.pending \in Seq(Works \cup {Null}) /\ Len(w.rows) \in Nat
      /\ Len(w.pending) \in Nat /\ Len(pendingAllocs) \in Nat /\ Len(tracked) \in Nat
  BY DEF Tables
<1>2. w.i \in 1 .. Len(w.rows)
  BY <1>1 DEF LoopInv
<1>3. RowsInv(u) /\ PendingInv(u)
  BY <1>2, VisitKeepsRows, VisitKeepsPending DEF LoopInv
<1>4. u.i \in 1 .. Len(u.rows) + 1 /\ Len(u.rows) - u.i + 1 = Len(tracked) - (n + 1)
      /\ Len(u.rows) <= Len(tracked)
  <2>1. CASE row \notin Keep
    <3>1. Len(u.rows) = Len(w.rows) - 1 /\ u.i = w.i
      <4>1. u.rows = SwapRemove(w.rows, w.i) /\ u.i = w.i
        BY <1>2, <2>1, VisitCases
      <4>2. Len(SwapRemove(w.rows, w.i)) = Len(w.rows) - 1
        BY <1>1, <1>2, SwapRemoveFacts
      <4> QED BY <4>1, <4>2
    <3> HIDE DEF u
    <3> QED BY <1>1, <1>2, <3>1 DEF LoopInv
  <2>2. CASE row \in Keep
    <3>1. u.rows = [w.rows EXCEPT ![w.i] = Refreshed(row)] /\ u.i = w.i + 1
      BY <1>2, <2>2, VisitCases
    <3>2. Len(u.rows) = Len(w.rows)
      BY <1>1, <3>1
    <3> HIDE DEF u
    <3>3. w.i \in Nat /\ n \in Nat /\ 1 <= w.i /\ w.i <= Len(w.rows)
      BY <1>1, <1>2
    <3>4. Len(w.rows) - w.i + 1 = Len(tracked) - n /\ Len(w.rows) <= Len(tracked)
      BY DEF LoopInv
    <3>5. u.i = w.i + 1
      BY <3>1
    <3>6. Len(w.rows) \in Nat /\ Len(tracked) \in Nat
      BY <1>1
    <3>7. w.i + 1 \in 1 .. Len(w.rows) + 1 /\ Len(w.rows) - (w.i + 1) + 1 = Len(tracked) - (n + 1)
      <4>1. w.i + 1 \in 1 .. Len(w.rows) + 1
        BY <3>3, <3>6
      <4>2. Len(w.rows) - (w.i + 1) + 1 = Len(tracked) - (n + 1)
        <5> DEFINE a == Len(w.rows)
                   b == Len(tracked)
                   i == w.i
        <5>1. a \in Nat /\ b \in Nat /\ i \in Nat /\ n \in Nat /\ a - i + 1 = b - n
          BY <3>3, <3>4, <3>6
        <5> HIDE DEF a, b, i
        <5>2. a - (i + 1) + 1 = b - (n + 1)
          BY <5>1
        <5> QED BY <5>2 DEF a, b, i
      <4> QED BY <4>1, <4>2
    <3> QED BY <3>2, <3>4, <3>5, <3>7
  <2> QED BY <2>1, <2>2
<1>5. Len(u.pending) <= Len(w.pending)
  <2>1. CASE u.pending = w.pending
    BY <1>1, <2>1
  <2>2. CASE u.pending # w.pending
    <3>1. PICK j \in found : u.pending = SwapRemove(w.pending, j)
      BY <1>2, <2>2, VisitCases
    <3>2. Len(u.pending) = Len(w.pending) - 1
      BY <1>1, <3>1, SwapRemoveFacts
    <3> QED BY <1>1, <3>2
  <2> QED BY <2>1, <2>2
<1>6. Len(u.pending) <= Len(pendingAllocs)
  <2>1. Len(u.pending) \in Nat
    BY VisitType DEF Tables
  <2> HIDE DEF u
  <2> QED BY <1>1, <1>5, <2>1 DEF LoopInv
<1> QED BY <1>3, <1>4, <1>6 DEF LoopInv

LEMMA WalkLoopInv ==
    ASSUME EffTypeOK
    PROVE  Walk[Len(tracked)] \in Tables /\ LoopInv(Walk[Len(tracked)], Len(tracked))
<1>1. effs \in [Effs -> EffRecords] /\ tracked \in Seq(Rows)
      /\ pendingAllocs \in Seq(Works \cup {Null})
  BY DEF EffTypeOK, EffRecords, Rows
<1>2. Start \in Tables
  BY <1>1 DEF Start, Tables
<1> USE DEF Start
<1>3. /\ \A n \in Nat : Walk[n] \in Tables
      /\ Walk[0] = Start /\ \A n \in Nat : Walk[n + 1] = Visit(Walk[n])
  BY <1>1, <1>2, WalkValues
<1> HIDE DEF Walk, Start
<1> DEFINE S == {n \in Nat : n <= Len(tracked) => LoopInv(Walk[n], n)}
<1>4. 0 \in S
  <2>1. Len(tracked) \in Nat /\ Len(pendingAllocs) \in Nat
    BY <1>1
  <2>2. \A work \in Works \cup {Null} : Times(work, pendingAllocs) \in Nat
    BY <1>1, TimesIsNumber
  <2>3. \A work \in Works \cup {Null} : Count(tracked, 1, {}, BoundFor(work)) \in Nat
    BY <1>1, CountIsNumber
  <2>4. PendingInv(Start)
    BY <2>2, <2>3 DEF PendingInv, Start, Atleast0
  <2>5. RowsInv(Start)
    BY DEF RowsInv, Start
  <2>6. LoopInv(Start, 0)
    BY <2>1, <2>4, <2>5 DEF LoopInv, Start
  <2> QED BY <1>3, <2>6
<1>5. ASSUME NEW n \in S PROVE n + 1 \in S
  <2> SUFFICES ASSUME n + 1 <= Len(tracked) PROVE LoopInv(Walk[n + 1], n + 1)
    BY <1>5
  <2>1. n \in Nat /\ Len(tracked) \in Nat
    BY <1>1, <1>5
  <2>2. n \in 0 .. Len(tracked) - 1 /\ n <= Len(tracked)
    BY <2>1
  <2>3. LoopInv(Walk[n], n) /\ Walk[n] \in Tables /\ Walk[n + 1] = Visit(Walk[n])
    BY <1>3, <1>5, <2>1, <2>2
  <2> HIDE DEF S
  <2> QED BY <1>1, <2>2, <2>3, VisitKeepsLoopInv
<1>6. S \in SUBSET Nat
  OBVIOUS
<1>7. Len(tracked) \in Nat
  BY <1>1
<1>8. Len(tracked) \in S
  <2> HIDE DEF S
  <2> QED BY <1>4, <1>5, <1>6, <1>7, SetInduction
<1> QED BY <1>3, <1>7, <1>8

\* However effects come and go, the tables of tracked effects and of pending allocations
\* stay within their rows.
THEOREM EffTypesHold == EffSpec => []EffTypeOK
<1>1. EffInit => EffTypeOK
  BY EffAssumption DEF EffInit, NoEffect, EffTypeOK
<1>2. EffTypeOK /\ [EffNext]_effVars => EffTypeOK'
  <2> SUFFICES ASSUME EffTypeOK, [EffNext]_effVars PROVE EffTypeOK'
    OBVIOUS
  <2>t. effs \in [Effs -> EffRecords] /\ tracked \in Seq(Rows)
        /\ pendingAllocs \in Seq(Works \cup {Null})
        /\ Len(tracked) <= MAX_EFFS /\ Len(pendingAllocs) <= MAX_MEM_ALLOC
    BY DEF EffTypeOK, EffRecords, Rows
  <2>s. ASSUME NEW e \in Effs, Spawns(e)
        PROVE  /\ effs' \in [Effs -> EffRecords] /\ pendingAllocs' \in Seq(Works \cup {Null})
               /\ Len(pendingAllocs') <= MAX_MEM_ALLOC
    <3>1. PICK f \in MainFuncs, work \in Works \cup {Null} :
            /\ effs' = [effs EXCEPT ![e] = [mainFunc |-> f, userWork |-> work]]
            /\ memAllocDebug(work) \/ UNCHANGED pendingAllocs
      BY <2>s DEF Spawns
    <3>2. effs' \in [Effs -> EffRecords]
      BY <2>t, <3>1 DEF EffRecords
    <3>3. pendingAllocs' \in Seq(Works \cup {Null}) /\ Len(pendingAllocs') <= MAX_MEM_ALLOC
      BY EffAssumption, <2>t, <3>1 DEF memAllocDebug
    <3> QED BY <3>2, <3>3
  <2>r. ASSUME NEW row \in Rows, Track(row)
        PROVE  tracked' \in Seq(Rows) /\ Len(tracked') <= MAX_EFFS
    BY EffAssumption, <2>t, <2>r DEF Track
  <2>1. CASE GameSpawns
    BY <2>1, <2>s, <2>t DEF GameSpawns, EffTypeOK, EffRecords, Rows
  <2>2. CASE GameEnds
    <3>1. PICK e \in Effs : effs' = [effs EXCEPT ![e] = NoEffect]
      BY <2>2 DEF GameEnds
    <3>2. effs' \in [Effs -> EffRecords]
      BY <2>t, <3>1 DEF EffRecords, NoEffect
    <3> QED BY <2>2, <2>t, <3>2 DEF GameEnds, EffTypeOK, EffRecords, Rows
  <2>3. CASE effectCommand
    <3>1. CASE \E e \in Effs : Spawns(e) /\ Track(Row(e, effs'[e].mainFunc))
      <4>1. PICK e \in Effs : Spawns(e) /\ Track(Row(e, effs'[e].mainFunc))
        BY <3>1
      <4>2. effs' \in [Effs -> EffRecords]
        BY <2>s, <4>1
      <4>3. Row(e, effs'[e].mainFunc) \in Rows
        BY <4>2 DEF Row, Rows, EffRecords
      <4> QED BY <2>s, <2>r, <4>1, <4>3 DEF EffTypeOK, EffRecords, Rows
    <3>2. CASE Track(Row(Null, Null)) /\ UNCHANGED <<effs, pendingAllocs>>
      <4>1. Row(Null, Null) \in Rows
        BY DEF Row, Rows
      <4> QED BY <2>t, <2>r, <3>2, <4>1 DEF EffTypeOK, EffRecords, Rows
    <3> QED BY <2>3, <3>1, <3>2 DEF effectCommand
  <2>4. CASE effDebug
    <3>1. Walk[Len(tracked)] \in Tables /\ LoopInv(Walk[Len(tracked)], Len(tracked))
      BY WalkLoopInv
    <3> DEFINE w == Walk[Len(tracked)]
    <3>2. tracked' = w.rows /\ pendingAllocs' = w.pending /\ effs' = effs
      BY <2>4 DEF effDebug
    <3> HIDE DEF w
    <3>3. w \in Tables /\ Len(w.rows) <= Len(tracked) /\ Len(w.pending) <= Len(pendingAllocs)
      BY <3>1 DEF w, LoopInv
    <3>4. tracked' \in Seq(Rows) /\ pendingAllocs' \in Seq(Works \cup {Null})
      BY <3>2, <3>3 DEF Tables
    <3>5. Len(tracked') <= MAX_EFFS /\ Len(pendingAllocs') <= MAX_MEM_ALLOC
      <4>1. /\ Len(tracked) \in Nat /\ Len(pendingAllocs) \in Nat
            /\ Len(tracked') \in Nat /\ Len(pendingAllocs') \in Nat
        BY <2>t, <3>4
      <4> QED BY EffAssumption, <2>t, <3>2, <3>3, <4>1
    <3> QED BY <2>t, <3>2, <3>4, <3>5 DEF EffTypeOK, EffRecords, Rows
  <2>5. CASE UNCHANGED effVars
    BY <2>5 DEF effVars, EffTypeOK
  <2> QED BY <2>1, <2>2, <2>3, <2>4, <2>5 DEF EffNext
<1> QED BY <1>1, <1>2, PTL DEF EffSpec

\* effDebug looks at every row once, although its removals move rows under it, and every row
\* with new memory takes one allocation of that address, for tables of any length.
THEOREM WalkIsComplete == EffSpec => WalkMeetsEveryRow
<1>1. ASSUME EffTypeOK, effDebug PROVE EveryRowMet
  <2> DEFINE w == Walk[Len(tracked)]
             kept == {i \in 1 .. Len(tracked) : ~Outdated(tracked[i])}
             bound == {i \in kept : ~Unchanged(tracked[i])}
             RefreshedTo(row) == {i \in kept : Refreshed(tracked[i]) = row}
             BoundTo(work) == {i \in bound : effs[tracked[i].entry].userWork = work}
  <2>1. w \in Tables /\ LoopInv(w, Len(tracked))
    BY <1>1, WalkLoopInv
  <2>2. tracked' = w.rows /\ pendingAllocs' = w.pending
    BY <1>1 DEF effDebug
  <2>3. tracked \in Seq(Rows)
    BY <1>1 DEF EffTypeOK, Rows
  <2>4. \A i \in 1 .. Len(tracked) : tracked[i] \in Rows
    BY <2>3, ElementOfSeq
  <2> HIDE DEF w
  <2>5. w.rows \in Seq(Rows) /\ w.pending \in Seq(Works \cup {Null}) /\ Len(w.rows) \in Nat
        /\ Len(tracked) \in Nat /\ w.i = Len(w.rows) + 1
    <3>1. w.rows \in Seq(Rows) /\ w.pending \in Seq(Works \cup {Null}) /\ w.i \in Nat
      BY <2>1 DEF Tables
    <3>2. Len(w.rows) \in Nat /\ Len(tracked) \in Nat
      BY <2>3, <3>1
    <3>3. Len(w.rows) - w.i + 1 = 0
      BY <2>1, <3>2 DEF LoopInv
    <3> QED BY <3>1, <3>2, <3>3
  <2>6. \A Done, Todo : Count(w.rows, w.i, Done, Todo)
                          = Cardinality({j \in 1 .. Len(w.rows) : w.rows[j] \in Done})
    <3> SUFFICES ASSUME NEW Done, NEW Todo
                 PROVE  Indices(w.rows, w.i, Done, Todo)
                          = {j \in 1 .. Len(w.rows) : w.rows[j] \in Done}
      BY DEF Count
    <3>1. \A j \in 1 .. Len(w.rows) : j < w.i
      BY <2>5
    <3> QED BY <3>1 DEF Indices
  <2>7. \A Done, Todo : Count(tracked, 1, Done, Todo)
                          = Cardinality({j \in 1 .. Len(tracked) : tracked[j] \in Todo})
    <3> SUFFICES ASSUME NEW Done, NEW Todo
                 PROVE  Indices(tracked, 1, Done, Todo)
                          = {j \in 1 .. Len(tracked) : tracked[j] \in Todo}
      BY DEF Count
    <3>1. \A j \in 1 .. Len(tracked) : ~(j < 1)
      BY <2>5
    <3> QED BY <3>1 DEF Indices
  <2>8. Len(tracked') = Cardinality(kept)
    <3>1. kept = {j \in 1 .. Len(tracked) : tracked[j] \in Keep}
      BY <2>4 DEF Keep
    <3>2. {j \in 1 .. Len(w.rows) : w.rows[j] \in Rows} = 1 .. Len(w.rows)
      BY <2>5, ElementOfSeq
    <3>3. Cardinality(1 .. Len(w.rows)) = Len(w.rows)
      BY <2>5, FS_Interval
    <3>4. Count(w.rows, w.i, Rows, Keep) = Count(tracked, 1, Rows, Keep)
      BY <2>1 DEF LoopInv, RowsInv
    <3>5. Count(w.rows, w.i, Rows, Keep) = Len(w.rows)
      BY <2>6, <3>2, <3>3
    <3>6. Count(tracked, 1, Rows, Keep) = Cardinality(kept)
      BY <2>7, <3>1
    <3> QED BY <2>2, <3>4, <3>5, <3>6
  <2>9. ASSUME NEW i \in kept
        PROVE  Times(Refreshed(tracked[i]), tracked')
                 = Cardinality(RefreshedTo(Refreshed(tracked[i])))
    <3> DEFINE v == Refreshed(tracked[i])
    <3>1. v \in Rows
      <4>1. tracked[i] \in Rows /\ effs \in [Effs -> EffRecords]
        BY <1>1, <2>4 DEF EffTypeOK, EffRecords
      <4>2. CASE Unchanged(tracked[i])
        BY <4>1, <4>2 DEF Refreshed
      <4>3. CASE ~Unchanged(tracked[i])
        <5>1. tracked[i].entry \in Effs
          BY <4>1, <4>3 DEF Unchanged, Rows
        <5> QED BY <4>1, <4>3, <5>1 DEF Refreshed, Rows, EffRecords
      <4> QED BY <4>2, <4>3
    <3> HIDE DEF v
    <3>2. RefreshedTo(v) = {j \in 1 .. Len(tracked) : tracked[j] \in KeptAs(v)}
      BY <2>4 DEF KeptAs, Keep
    <3>3. Count(w.rows, w.i, {v}, KeptAs(v)) = Count(tracked, 1, {v}, KeptAs(v))
      BY <2>1, <3>1 DEF LoopInv, RowsInv
    <3>4. Times(v, w.rows) = Count(w.rows, w.i, {v}, KeptAs(v))
      <4>1. {j \in 1 .. Len(w.rows) : w.rows[j] = v} = {j \in 1 .. Len(w.rows) : w.rows[j] \in {v}}
        OBVIOUS
      <4> QED BY <2>6, <4>1 DEF Times
    <3>5. Count(tracked, 1, {v}, KeptAs(v)) = Cardinality(RefreshedTo(v))
      BY <2>7, <3>2
    <3> QED BY <2>2, <3>3, <3>4, <3>5 DEF v
  <2>10. ASSUME NEW work \in Works \cup {Null}
         PROVE  Times(work, pendingAllocs')
                  = Atleast0(Times(work, pendingAllocs) - Cardinality(BoundTo(work)))
    <3> DEFINE all == Count(tracked, 1, {}, BoundFor(work))
               rest == Count(w.rows, w.i, {}, BoundFor(work))
    <3>1. Times(work, w.pending) = Atleast0(Times(work, pendingAllocs) - (all - rest))
      BY <2>1 DEF LoopInv, PendingInv
    <3>2. rest = 0
      <4>1. {j \in 1 .. Len(w.rows) : w.rows[j] \in {}} = {}
        OBVIOUS
      <4> QED BY <2>6, <4>1, FS_EmptySet
    <3>3. BoundTo(work) = {j \in 1 .. Len(tracked) : tracked[j] \in BoundFor(work)}
      BY <2>4 DEF BoundFor, Keep
    <3>4. all = Cardinality(BoundTo(work))
      BY <2>7, <3>3
    <3>5. all \in Nat
      BY <2>3, CountIsNumber
    <3> HIDE DEF all, rest, BoundTo
    <3>6. all - rest = all
      BY <3>2, <3>5
    <3> QED BY <2>2, <3>1, <3>4, <3>6
  <2> QED BY <2>8, <2>9, <2>10 DEF EveryRowMet
<1>2. EffTypeOK /\ [EffNext]_effVars => [effDebug => EveryRowMet]_effVars
  BY <1>1
<1> QED BY <1>2, EffTypesHold, PTL DEF EffSpec, WalkMeetsEveryRow
=============================================================================
