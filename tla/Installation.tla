---------------------------- MODULE Installation ----------------------------
(***************************************************************************)
(* The dwell command, the settings of Claude Code, the hooks and the       *)
(* daemons: installing, logging in and out, restarting, uninstalling.      *)
(*                                                                         *)
(* A command is the list of the steps it still has to take, cut where the  *)
(* code awaits; the user runs one command at a time and may interrupt it.  *)
(* Meanwhile a new session's hook may revive a daemon nobody answers for,  *)
(* a daemon writes its spinner words, another tool may take the settings   *)
(* over, and an upgrade may move the program away from the path its        *)
(* entries name.  A login opens a page in the browser and waits for it;    *)
(* the page stays open for a while after the login, for the profile.       *)
(***************************************************************************)
EXTENDS Daemons, Sequences

CONSTANTS
  MaxCommands, \* bound: commands the user runs
  MaxEdits     \* bound: changes of the settings by others

ASSUME InstallationAssumption == {MaxCommands, MaxEdits} \subseteq Nat

VARIABLES
  settings,  \* whose the status line, the spinner words and the hooks are
  pidfile,   \* the pid on disk, None when the file is gone
  todo,      \* the steps the running command has left
  child,     \* the process it spawned last
  wasUp,     \* whether its stop() found a daemon
  page,      \* the page of a login: closed, open, or signed in
  copy,      \* the settings a daemon has read and not yet written, or None
  revoked,   \* the logins the server has revoked
  dropped,   \* history: logins dropped here that the server still accepts
  commands, edits

cliVars == <<pidfile, todo, child, wasUp, page>>
accounts == <<creds, revoked, dropped>>
vars == <<daemons, crashes, settings, copy, cliVars, accounts, commands, edits>>

\* A machine without dwell, or one that has it installed and was switched off.
Init ==
  /\ DaemonsInit
  /\ \E owner \in {"none", "ours"} :
       settings = [line |-> owner, spinner |-> "none", hooks |-> owner]
  /\ pidfile = None /\ todo = <<>> /\ child = None /\ wasUp = FALSE
  /\ page = "closed" /\ copy = None
  /\ revoked = {} /\ dropped = {}
  /\ commands = 0 /\ edits = 0

(***************************************************************************)
(* The commands                                                            *)
(***************************************************************************)
Start == <<"look", "spawn", "await">>
Stop == <<"ask", "kill", "wait">>
Forget == IF creds = 0 THEN <<>> ELSE <<"revoke", "clear">>

Programs ==
  {<<"install">> \o Start,                    \* init, doctor --fix
   Stop \o Start,                             \* restart
   <<"page", "sign in", "still">> \o Stop \o Start,      \* login, login --force
   Stop \o Forget \o <<"remove">>}            \* uninstall
  \cup IF creds = 0 THEN {}                   \* logout
       ELSE {Stop \o Forget \o <<"again">> \o Start}

Command ==
  /\ todo = <<>> /\ page = "closed" /\ commands < MaxCommands
  /\ todo' \in Programs
  /\ wasUp' = FALSE /\ commands' = commands + 1
  /\ UNCHANGED <<daemons, crashes, settings, copy, pidfile, child, page, accounts, edits>>

At(step) == todo # <<>> /\ Head(todo) = step
Then == todo' = Tail(todo)
Skip(n) == todo' = SubSeq(todo, n + 1, Len(todo))

\* A command that is over forgets what it knew.
Quit == todo' = <<>> /\ child' = None /\ wasUp' = FALSE
GoOn == Then /\ UNCHANGED <<child, wasUp>>

Interrupt ==
  /\ todo # <<>> \/ page # "closed"
  /\ Quit /\ page' = "closed"
  /\ UNCHANGED <<daemons, crashes, settings, copy, pidfile, accounts, commands, edits>>

\* start(): one daemon is enough.
Look ==
  /\ At("look")
  /\ IF Answers THEN Quit ELSE GoOn
  /\ UNCHANGED <<daemons, pidfile, accounts>>

SpawnChild(p) ==
  /\ At("spawn") /\ Spawn(p)
  /\ child' = p /\ Then
  /\ UNCHANGED <<pidfile, wasUp, accounts>>

\* Any daemon that answers will do: the pid written is the child's.  The
\* wait may also time out.
Await ==
  /\ At("await")
  /\ pidfile' = IF Answers THEN child ELSE None
  /\ Quit
  /\ UNCHANGED <<daemons, accounts>>

\* stop(): nobody answers, nothing to stop.
Ask ==
  /\ At("ask")
  /\ IF Answers THEN Then /\ UNCHANGED pidfile
                ELSE Skip(3) /\ pidfile' = None
  /\ UNCHANGED <<daemons, child, wasUp, accounts>>

\* The daemon names its pid; when it went silent meanwhile, the file does.
Kill ==
  LET pid == IF Answers THEN socket ELSE pidfile IN
  /\ At("kill")
  /\ IF pid = None THEN Skip(2) /\ UNCHANGED daemons
                   ELSE Then /\ Signal(pid)
  /\ UNCHANGED <<pidfile, child, wasUp, accounts>>

\* Until nobody answers, or until it has waited long enough.
Wait ==
  /\ At("wait")
  /\ pidfile' = None /\ wasUp' = TRUE /\ Then
  /\ UNCHANGED <<daemons, child, accounts>>

\* logout restarts the daemon only if there was one; login only if one answers.
Again ==
  /\ At("again")
  /\ IF wasUp THEN GoOn ELSE Quit
  /\ UNCHANGED <<daemons, pidfile, accounts>>

Still ==
  /\ At("still")
  /\ IF Answers THEN GoOn ELSE Quit
  /\ UNCHANGED <<daemons, pidfile, accounts>>

\* A login takes the place of an earlier one only with --force; the server
\* is not told of the one it replaces.
Logins == {creds} \cup revoked \cup dropped
Issued == Cardinality(Logins \ {0}) + 1

OpenPage ==
  /\ At("page")
  /\ \/ GoOn /\ page' = "open"
     \/ creds # 0 /\ Quit /\ UNCHANGED page
  /\ UNCHANGED <<daemons, pidfile, accounts>>

\* The server issues a token for the signed challenge: the first one that
\* arrives is the login, and the page stays open for the profile.  A later
\* one is used for the profile only, and one whose answer is lost by nobody.
SignIn ==
  /\ page # "closed" /\ Issued <= MaxLogins
  /\ \/ /\ At("sign in")
        /\ creds' = Issued /\ dropped' = dropped \cup ({creds} \ {0})
        /\ Then /\ page' = "signed in"
     \/ dropped' = dropped \cup {Issued} /\ UNCHANGED <<creds, todo, page>>
  /\ UNCHANGED <<daemons, pidfile, child, wasUp, revoked>>

\* The profile was saved or declined: the page closes.  A page that closes
\* before the login leaves a command with nothing to wait for.
Leave ==
  /\ page # "closed"
  /\ page' = "closed"
  /\ IF At("sign in") THEN Quit ELSE UNCHANGED <<todo, child, wasUp>>
  /\ UNCHANGED <<daemons, pidfile, accounts>>

\* The page asks for a challenge, the trustline, or the profile: the command
\* hands it on and keeps nothing.
Request == SignIn \/ Leave

\* The five minutes are over, or the server of the page failed.
GiveUp ==
  /\ At("sign in")
  /\ page' = "closed" /\ Quit
  /\ UNCHANGED <<daemons, pidfile, accounts>>

\* As Revoke would be if only a running daemon's login were worth revoking.
RevokeIfRunning ==
  /\ At("revoke")
  /\ IF wasUp THEN revoked' = revoked \cup {creds} ELSE UNCHANGED revoked
  /\ Then
  /\ UNCHANGED <<daemons, pidfile, child, wasUp, creds, dropped>>

\* The server revokes the token, or is not reached.
Revoke ==
  /\ At("revoke")
  /\ \/ revoked' = revoked \cup {creds} /\ UNCHANGED dropped
     \/ dropped' = dropped \cup {creds} /\ UNCHANGED revoked
  /\ Then
  /\ UNCHANGED <<daemons, pidfile, child, wasUp, creds>>

Clear ==
  /\ At("clear")
  /\ creds' = 0 /\ Then
  /\ UNCHANGED <<daemons, pidfile, child, wasUp, revoked, dropped>>

(***************************************************************************)
(* The settings of Claude Code                                             *)
(***************************************************************************)
Taken(field, force) == IF settings[field] = "other" /\ ~force THEN "other" ELSE "ours"

\* Ours are rewritten, also when they name an older path; another tool's
\* are kept unless forced; the spinner words are optional.
Install ==
  /\ At("install")
  /\ \E force, spinner \in BOOLEAN :
       settings' = [line    |-> Taken("line", force),
                    spinner |-> IF spinner THEN Taken("spinner", force) ELSE settings.spinner,
                    hooks   |-> "ours"]
  /\ Then
  /\ UNCHANGED <<daemons, pidfile, child, wasUp, accounts>>

\* Only our own marks go.
Remove ==
  /\ At("remove")
  /\ settings' = [f \in DOMAIN settings |-> IF settings[f] = "other" THEN "other" ELSE "none"]
  /\ Quit
  /\ UNCHANGED <<daemons, pidfile, accounts>>

\* Another tool claims the surfaces, or an upgrade moves the program.
Edit ==
  /\ edits < MaxEdits /\ edits' = edits + 1
  /\ \/ settings' = [settings EXCEPT !.line = "other", !.spinner = "other"]
     \/ /\ settings.hooks = "ours"
        /\ settings' = [settings EXCEPT !.hooks = "stale",
                                        !.line = IF @ = "ours" THEN "stale" ELSE @]
  /\ UNCHANGED <<daemons, crashes, copy, cliVars, accounts, commands>>

\* A session starts and its hook finds nobody: it spawns a daemon and leaves.
\* A hook that names an older path runs nothing.
SessionStart(p) ==
  /\ settings.hooks = "ours" /\ ~Answers
  /\ Spawn(p)
  /\ UNCHANGED <<crashes, settings, copy, cliVars, accounts, commands, edits>>

\* A daemon puts the brand of the ad into the spinner words: it reads the
\* file, and writes all of it.  What others wrote in between is lost.
ReadSettings(p) ==
  /\ phase[p] = "serving" /\ copy = None
  /\ settings.spinner = "ours"
  /\ copy' = [by |-> p, read |-> settings]
  /\ UNCHANGED <<daemons, crashes, settings, cliVars, accounts, commands, edits>>

WriteSettings(p) ==
  /\ copy # None /\ copy.by = p
  /\ settings' = copy.read /\ copy' = None
  /\ UNCHANGED <<daemons, crashes, cliVars, accounts, commands, edits>>

\* The writer does nothing else meanwhile.
Writing(p) == copy # None /\ copy.by = p

RunOn(p) ==
  /\ ~Writing(p) /\ Run(p)
  /\ UNCHANGED <<crashes, settings, copy, cliVars, accounts, commands, edits>>

Step ==
  \/ /\ \/ Look \/ (\E p \in Slots : SpawnChild(p)) \/ Await
        \/ Ask \/ Kill \/ Wait \/ Again \/ Still \/ Revoke \/ Clear
     /\ UNCHANGED <<settings, page>>
  \/ (Install \/ Remove) /\ UNCHANGED page
  \/ (OpenPage \/ Request \/ GiveUp) /\ UNCHANGED settings

Next ==
  \/ Command \/ Interrupt \/ Edit
  \/ Step /\ UNCHANGED <<crashes, copy, commands, edits>>
  \/ \E p \in Slots :
       \/ SessionStart(p)
       \/ ReadSettings(p) \/ WriteSettings(p)
       \/ RunOn(p)
       \/ Crash(p) /\ copy' = (IF Writing(p) THEN None ELSE copy)
                   /\ UNCHANGED <<settings, cliVars, accounts, commands, edits>>
       \/ Terminate(p) /\ UNCHANGED <<settings, copy, cliVars, accounts, commands, edits>>

Spec == Init /\ [][Next]_vars

\* A process runs on, and sessions keep being opened.
FairSpec ==
  /\ Spec
  /\ \A p \in Slots : WF_vars(WriteSettings(p)) /\ WF_vars(RunOn(p))
  /\ WF_vars(\E p \in Slots : SessionStart(p))

(***************************************************************************)
(* Properties                                                              *)
(***************************************************************************)
\* Once a login is given up and the server was told, no daemon reports under
\* it: not the one that was stopped or never stopped, not one a hook revived
\* between the stop and the removal of the credentials, not one left behind
\* without a socket (login.ts cmdLogout: the order of its steps).
LogoutSilences ==
  \A p \in Listening : who[p] \in {0, creds} \cup revoked \cup dropped

\* While our hooks are in the settings, a daemon that is gone comes back,
\* whatever crash, race or half-finished command took it away (hook.ts).
Installed == settings.hooks = "ours"
ComesBack == Installed ~> (Answers \/ ~Installed)
=============================================================================
