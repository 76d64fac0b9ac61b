------------------------------ MODULE Tunnels ------------------------------
(***************************************************************************)
(* What the daemon promises its clients about tunnels, without how `up`    *)
(* and `down` go about it: a connection is served by at most one packet    *)
(* loop, with a device no other loop has; its backend changes only through *)
(* a disconnect; a loop that was told to stop may linger, but its device   *)
(* is not handed out again before it has let go, and in the end it does.   *)
(***************************************************************************)
CONSTANTS Conn, Backend, Tun

VARIABLES
  serving,  \* connection -> the backend and the device that serve it
  closing   \* devices whose loop was told to stop

vars == <<serving, closing>>

Init == DOMAIN serving = {} /\ closing = {}

InUse(t) == t \in closing \/ \E c \in DOMAIN serving : serving[c].tun = t

Connect(c, b, t) ==
  /\ c \notin DOMAIN serving /\ ~InUse(t)
  /\ serving' = [d \in DOMAIN serving \cup {c} |->
                   IF d = c THEN [backend |-> b, tun |-> t] ELSE serving[d]]
  /\ UNCHANGED closing

Disconnect(c) ==
  /\ c \in DOMAIN serving
  /\ serving' = [d \in DOMAIN serving \ {c} |-> serving[d]]
  /\ closing' = closing \cup {serving[c].tun}

Release(t) ==
  /\ t \in closing
  /\ closing' = closing \ {t}
  /\ UNCHANGED serving

\* The daemon dies.
Lose == DOMAIN serving' = {} /\ closing' = {}

Next ==
  \/ \E c \in Conn, b \in Backend, t \in Tun : Connect(c, b, t)
  \/ \E c \in Conn : Disconnect(c)
  \/ \E t \in Tun : Release(t)
  \/ Lose

Spec == Init /\ [][Next]_vars

FairSpec == Spec /\ \A t \in Tun : WF_vars(Release(t))
=============================================================================
