---------------------------- MODULE MCWebServer ----------------------------
(* Instances of WebServer for TLC. *)
EXTENDS WebFrames, TLC

CONSTANTS c1, c2

ConnSymmetry == Permutations(Conns)

Nobody == {}

\* Behind the array: nothing, the listening socket, a client's, no descriptor.
NoWord == {NoFd}
AnyWord == {NoFd, HttpSock, 1, 3}

\* Where the clients are alike.
AllUpgrade == Conns \X {"ws"}
AllUpgradeOrPost == Conns \X {"ws", "post"}
AllUpgradeOrGet == Conns \X {"ws", "get"}
AllPosts == Conns \X {"post"}
AllTexts == Conns \X {"text"}
AllLeave == Conns \X {"fin", "rst"}
AllTight == Conns \X {"tight"}

\* Frames, and the end of the connection, come from one client; the other upgrades,
\* or asks for a page, in a request that may be too long, and may stop reading it.
FramesAndPages == {<<c1, "ws">>, <<c2, "ws">>, <<c2, "get">>, <<c2, "state">>}
FirstSends == {<<c1, "text">>, <<c1, "close">>}
FrameOrPageCut == {<<c1, "frame">>, <<c2, "get">>}
FirstLeaves == {<<c1, "fin">>}
SecondStops == {<<c2, "shut">>}

\* Both upgrade, or one sets the LED; the other may leave, or stop reading.
UpgradesAndPost == {<<c1, "ws">>, <<c2, "ws">>, <<c2, "post">>}
FirstStops == {<<c1, "shut">>}
=============================================================================
