------------------------- MODULE MCClientLifecycle -------------------------
EXTENDS ClientLifecycle, TLC

CONSTANTS t1, t2, a1, a2

\* Every thread may call every API function.
AnyOps == [c \in Callers |-> {"start", "stop", "best"}]

\* One thread starts the tunnel, another stops it.
StartStopOps == (t1 :> {"start"}) @@ (t2 :> {"stop"})

\* Every Config leaves listenAddr empty: the default 127.0.0.1:1080.
DefaultAddr == [c \in Callers |-> a1]

\* The two threads pass Configs with different listen addresses.
OwnAddr == [c \in Callers |-> IF c = t1 THEN a1 ELSE a2]

\* The two threads pass Configs that differ in useZstd.
ZstdOf == [c \in Callers |-> c = t1]

=========================================================================
