------------------------------ MODULE Daemons ------------------------------
(***************************************************************************)
(* The background processes and the socket they meet at.                   *)
(*                                                                         *)
(* A daemon reads the login once, when it boots; it looks whether somebody *)
(* answers at the socket, removes the file when nobody does, and listens.  *)
(* SIGTERM makes it report what is left, stop listening and exit.  A crash *)
(* leaves the socket file behind.  Everything between two awaits is one    *)
(* step; between them any other process may come.                          *)
(***************************************************************************)
EXTENDS Naturals, FiniteSets

CONSTANTS
  Slots,       \* processes that may exist at once; a slot is also its pid
  None,        \* no process, no file
  MaxLogins,   \* bound: logins ever saved
  MaxCrashes   \* bound: daemons that crash

ASSUME DaemonsAssumption == None \notin Slots /\ {MaxLogins, MaxCrashes} \subseteq Nat

VARIABLES
  phase,    \* of each process: how far it has come
  who,      \* the login it read when it booted, 0 when there was none
  socket,   \* the process that bound the socket file, None when it is gone
  creds,    \* the login in the credentials file, 0 when there is none
  crashes

daemons == <<phase, who, socket>>

Serving == {p \in Slots : phase[p] = "serving"}
Listening == Serving \cup {p \in Slots : phase[p] = "draining"}

\* Somebody answers at the path: the file is there and its owner listens.
Answers == socket \in Listening

Move(p, next) == phase' = [phase EXCEPT ![p] = next]

DaemonsInit ==
  /\ phase = [p \in Slots |-> "off"]
  /\ who = [p \in Slots |-> 0]
  /\ socket = None /\ creds = 0 /\ crashes = 0

Spawn(p) ==
  /\ phase[p] = "off"
  /\ Move(p, "starting")
  /\ UNCHANGED <<who, socket>>

\* The login is read here, and never again.
Boot(p) ==
  /\ phase[p] = "starting"
  /\ who' = [who EXCEPT ![p] = creds]
  /\ Move(p, IF socket = None THEN "binding" ELSE "probing")
  /\ UNCHANGED socket

\* Somebody listens: this copy gives up.  Nobody does: the file is stale.
Probe(p) ==
  /\ phase[p] = "probing"
  /\ Move(p, IF Answers THEN "off" ELSE "unlinking")
  /\ UNCHANGED <<who, socket>>

\* As Replace would be if the file at the path stayed.
ReplaceNothing(p) ==
  /\ phase[p] = "unlinking"
  /\ IF socket = None THEN socket' = p /\ Move(p, "serving")
                      ELSE Move(p, "off") /\ UNCHANGED socket
  /\ UNCHANGED who

\* Removes whatever is at the path by now, and listens.
Replace(p) ==
  /\ phase[p] = "unlinking"
  /\ socket' = p
  /\ Move(p, "serving")
  /\ UNCHANGED who

\* Nothing was at the path when it looked: a file that came since refuses it.
Bind(p) ==
  /\ phase[p] = "binding"
  /\ IF socket = None THEN socket' = p /\ Move(p, "serving")
                      ELSE Move(p, "off") /\ UNCHANGED socket
  /\ UNCHANGED who

\* The last report is sent while it still listens; then the runtime closes
\* the socket and removes the path it was bound to ...
Close(p) ==
  /\ phase[p] = "draining"
  /\ socket' = None
  /\ Move(p, "closing")
  /\ UNCHANGED who

\* ... and, when the last connection is gone, the daemon removes it again.
Exit(p) ==
  /\ phase[p] = "closing"
  /\ socket' = None
  /\ Move(p, "off")
  /\ UNCHANGED who

\* SIGTERM: a daemon that serves drains, one that drains already goes on,
\* and one that has no handler yet dies.
Signal(p) ==
  /\ phase' = [phase EXCEPT ![p] =
       CASE @ = "serving" -> "draining"
         [] @ \in {"draining", "closing"} -> @
         [] OTHER -> "off"]
  /\ UNCHANGED <<who, socket>>

\* A crash or a reboot.
Crash(p) ==
  /\ phase[p] # "off" /\ crashes < MaxCrashes
  /\ Move(p, "off")
  /\ crashes' = crashes + 1
  /\ UNCHANGED <<who, socket>>

\* The operating system ends it with the signal: a session closed, a shutdown.
Terminate(p) ==
  /\ phase[p] = "serving" /\ crashes < MaxCrashes
  /\ Signal(p)
  /\ crashes' = crashes + 1

Run(p) == Boot(p) \/ Probe(p) \/ Replace(p) \/ Bind(p) \/ Close(p) \/ Exit(p)
=============================================================================
